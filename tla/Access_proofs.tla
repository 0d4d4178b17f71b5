---------------------------- MODULE Access_proofs ----------------------------
(***************************************************************************)
(* Accounts and the OAuth server: that the store and PostgreSQL cannot be  *)
(* told apart, that a refresh token is redeemed once, that an identity     *)
(* opens one account and an external account one organization.             *)
(***************************************************************************)
EXTENDS MCAccess, FiniteSetTheorems, TLAPS

-----------------------------------------------------------------------------
(* Refresh tokens of the control plane.  Accounts start with any number of *)
(* people, and perhaps an organization the first of them owns.             *)

AccountsStart ==
    /\ AccountsInit
    /\ \E n \in Nat, owner \in BOOLEAN : \E people :
          /\ DOMAIN people = 1..n
          /\ \A a, b \in 1..n : people[a] = people[b] => a = b
          /\ owner => n >= 2
          /\ Seeded(people, owner)
AccountsNext == SigninNext \/ SessionNext \/ MembersNext \/ PatsNext
AccountsSpec == AccountsStart /\ [][AccountsNext]_accountsVars

StoreFields == {"users", "usersByEmail", "oidcIdentities", "controlRefresh", "pats", "patsByHash",
                "organizations", "memberships", "invites"}

\* A thread's request and the store are what every action takes them to be.
Requests(req) == DOMAIN req = Threads /\ \A t \in Threads : "op" \in DOMAIN req[t]
AccountsTyped == DOMAIN idStore = StoreFields /\ Requests(idReq)

\* What a call on the users, identities and tokens keeps.
Keeps(db, new, fields) == DOMAIN new = StoreFields /\ \A f \in StoreFields \ fields : new[f] = db[f]

\* A repository call of a request other than a refresh leaves refresh tokens as they are.
LEMMA CallsKeep ==
    ASSUME NEW db, DOMAIN db = StoreFields
    PROVE  /\ \A u : Keeps(db, StoreCreateUser(db, u).db, {"users", "usersByEmail"})
           /\ \A i, u : Keeps(db, StoreCreateOIDCIdentity(db, i, u).db, {"oidcIdentities"})
           /\ \A k : Keeps(db, StoreCreateControlRefreshToken(db, k).db, {"controlRefresh"})
           /\ \A k : Keeps(db, StoreUpdateControlRefreshToken(db, k).db, {"controlRefresh"})
           /\ \A p : Keeps(db, StoreCreatePersonalAccessToken(db, p).db, {"pats", "patsByHash"})
           /\ \A p : Keeps(db, StoreUpdatePersonalAccessToken(db, p).db, {"pats", "patsByHash"})
           /\ \A o : Keeps(db, StoreCreateOrganization(db, o).db, {"organizations"})
           /\ \A m : Keeps(db, StoreUpsertOrganizationMembership(db, m).db, {"memberships"})
           /\ \A u, o : Keeps(db, StoreDeleteOrganizationMembership(db, u, o).db, {"memberships"})
           /\ \A v : Keeps(db, StoreCreateOrganizationInvite(db, v).db, {"invites"})
           /\ \A v : Keeps(db, StoreUpdateOrganizationInvite(db, v).db, {"invites"})
<1> USE DEF Keeps, StoreFields, Refused, Done
<1>1. \A u : Keeps(db, StoreCreateUser(db, u).db, {"users", "usersByEmail"})
    BY DEF StoreCreateUser
<1>2. \A i, u : Keeps(db, StoreCreateOIDCIdentity(db, i, u).db, {"oidcIdentities"})
    BY DEF StoreCreateOIDCIdentity
<1>3. \A k : Keeps(db, StoreCreateControlRefreshToken(db, k).db, {"controlRefresh"})
    BY DEF StoreCreateControlRefreshToken
<1>4. \A k : Keeps(db, StoreUpdateControlRefreshToken(db, k).db, {"controlRefresh"})
    BY DEF StoreUpdateControlRefreshToken
<1>5. \A p : Keeps(db, StoreCreatePersonalAccessToken(db, p).db, {"pats", "patsByHash"})
    BY DEF StoreCreatePersonalAccessToken
<1>6. \A p : Keeps(db, StoreUpdatePersonalAccessToken(db, p).db, {"pats", "patsByHash"})
    BY DEF StoreUpdatePersonalAccessToken
<1>7. \A o : Keeps(db, StoreCreateOrganization(db, o).db, {"organizations"})
    BY DEF StoreCreateOrganization
<1>8. \A m : Keeps(db, StoreUpsertOrganizationMembership(db, m).db, {"memberships"})
    BY DEF StoreUpsertOrganizationMembership
<1>9. \A u, o : Keeps(db, StoreDeleteOrganizationMembership(db, u, o).db, {"memberships"})
    BY DEF StoreDeleteOrganizationMembership
<1>10. \A v : Keeps(db, StoreCreateOrganizationInvite(db, v).db, {"invites"})
    BY DEF StoreCreateOrganizationInvite
<1>11. \A v : Keeps(db, StoreUpdateOrganizationInvite(db, v).db, {"invites"})
    BY DEF StoreUpdateOrganizationInvite
<1> QED BY <1>1, <1>2, <1>3, <1>4, <1>5, <1>6, <1>7, <1>8, <1>9, <1>10, <1>11

\* Only the flows that sign a user in touch refresh tokens.
RefreshOps == {"refresh", "user", "session"}
Quiet(t) ==
    /\ idReq' = [idReq EXCEPT ![t] = idReq'[t]] /\ "op" \in DOMAIN idReq'[t]
    /\ idStore'.controlRefresh = idStore.controlRefresh /\ DOMAIN idStore' = StoreFields
    /\ redeemedFor' = redeemedFor
    /\ \/ idReq'[t].op \notin RefreshOps
       \/ idReq'[t].op \in {"session", "user"} /\ idReq'[t].token = 0
       \/ idReq'[t].op = "session" /\ idReq[t].op = "user" /\ idReq'[t].token = idReq[t].token

\* Signing in and up only ever adds a refresh token.
LEMMA SigninQuiet ==
    ASSUME AccountsTyped, NEW t \in Threads,
           \/ \E e \in Emails : Signup(t, e) \/ Login(t, e)
           \/ \E c \in codes : ControlOIDCSession(t, c) \/ ControlCLISession(t, c)
           \/ LoginOIDC(t) \/ LoginOIDCByEmail(t) \/ LoginOIDCCreate(t) \/ LoginOIDCLink(t)
           \/ LoginOIDCWinner(t) \/ SessionForUserID(t)
    PROVE  Quiet(t)
<1> USE DEF AccountsTyped, Requests, Quiet, RefreshOps, SigninRest, Read, Goto, Is, NoReq, InSession, IdCall
<1>1. ASSUME NEW e \in Emails, Signup(t, e) PROVE Quiet(t)
    BY <1>1, CallsKeep DEF Signup, Keeps, StoreFields
<1>2. ASSUME NEW e \in Emails, Login(t, e) PROVE Quiet(t)
    BY <1>2 DEF Login
<1>3. ASSUME NEW c \in codes, ControlOIDCSession(t, c) PROVE Quiet(t)
    BY <1>3 DEF ControlOIDCSession, TakeCode
<1>4. ASSUME NEW c \in codes, ControlCLISession(t, c) PROVE Quiet(t)
    BY <1>4 DEF ControlCLISession, TakeCode
<1>5. CASE LoginOIDC(t) BY <1>5 DEF LoginOIDC
<1>6. CASE LoginOIDCByEmail(t) BY <1>6 DEF LoginOIDCByEmail, Linking
<1>7. CASE LoginOIDCCreate(t)
    <2>1. PICK u : u = FreshUser(idReq[t].email) OBVIOUS
    <2>2. idStore' = StoreCreateUser(idStore, u).db BY <1>7, <2>1 DEF LoginOIDCCreate
    <2>3. Keeps(idStore, idStore', {"users", "usersByEmail"}) BY <2>2, CallsKeep
    <2>4. DOMAIN idStore' = StoreFields /\ idStore'.controlRefresh = idStore.controlRefresh
        BY <2>3 DEF Keeps, StoreFields
    <2> QED BY <1>7, <2>4 DEF LoginOIDCCreate, Linking
<1>8. CASE LoginOIDCLink(t)
    <2>1. idStore' = StoreCreateOIDCIdentity(idStore, idReq[t].identity, idReq[t].user).db
        BY <1>8 DEF LoginOIDCLink
    <2>2. Keeps(idStore, idStore', {"oidcIdentities"}) BY <2>1, CallsKeep
    <2>3. DOMAIN idStore' = StoreFields /\ idStore'.controlRefresh = idStore.controlRefresh
        BY <2>2 DEF Keeps, StoreFields
    <2> QED BY <1>8, <2>3 DEF LoginOIDCLink
<1>9. CASE LoginOIDCWinner(t) BY <1>9 DEF LoginOIDCWinner
<1>10. CASE SessionForUserID(t) BY <1>10 DEF SessionForUserID
<1> QED BY <1>1, <1>2, <1>3, <1>4, <1>5, <1>6, <1>7, <1>8, <1>9, <1>10

\* Managing organizations, members and invitations does not touch refresh tokens.
LEMMA MembersQuiet ==
    ASSUME AccountsTyped, NEW t \in Threads,
           \/ \E u \in Users : \/ CreateOrganization(t, u)
                               \/ \E o \in Orgs : AuthenticateControlRequest(t, u, o)
                               \/ \E role \in Roles \cup {"none"} : UpdateOrganizationMember(t, u, role)
           \/ \E e \in Emails, role \in Roles : CreateOrganizationInvite(t, e, role)
           \/ \E v \in DOMAIN idStore.invites : RevokeInvite(t, v) \/ AcceptInvite(t, v)
           \/ CreateOrganizationOwner(t) \/ AcceptInviteJoin(t) \/ UpdateInvite(t)
           \/ ReadMembership(t) \/ KeepsAnOwner(t) \/ UpdateMembership(t) \/ DeleteMembership(t)
    PROVE  Quiet(t)
<1> USE DEF AccountsTyped, Requests, Quiet, RefreshOps, SigninRest, MembersRest, Read, Goto, Finish, Is, NoReq
<1>0. ASSUME NEW fields, Keeps(idStore, idStore', fields), "controlRefresh" \notin fields
      PROVE  DOMAIN idStore' = StoreFields /\ idStore'.controlRefresh = idStore.controlRefresh
    BY <1>0 DEF Keeps, StoreFields
<1>1. ASSUME NEW u \in Users, CreateOrganization(t, u) PROVE Quiet(t)
    BY <1>1, CallsKeep, <1>0 DEF CreateOrganization, IdCall
<1>2. ASSUME NEW u \in Users, NEW o \in Orgs, AuthenticateControlRequest(t, u, o) PROVE Quiet(t)
    BY <1>2 DEF AuthenticateControlRequest
<1>3. ASSUME NEW u \in Users, NEW role \in Roles \cup {"none"}, UpdateOrganizationMember(t, u, role)
      PROVE  Quiet(t)
    BY <1>3 DEF UpdateOrganizationMember
<1>4. ASSUME NEW e \in Emails, NEW role \in Roles, CreateOrganizationInvite(t, e, role) PROVE Quiet(t)
    BY <1>4, CallsKeep, <1>0 DEF CreateOrganizationInvite, IdCall
<1>5. ASSUME NEW v \in DOMAIN idStore.invites, RevokeInvite(t, v) PROVE Quiet(t)
    BY <1>5 DEF RevokeInvite
<1>6. ASSUME NEW v \in DOMAIN idStore.invites, AcceptInvite(t, v) PROVE Quiet(t)
    BY <1>6 DEF AcceptInvite
<1>7. ASSUME \/ CreateOrganizationOwner(t) \/ AcceptInviteJoin(t) \/ UpdateMembership(t) PROVE Quiet(t)
    <2>1. PICK m : idStore' = StoreUpsertOrganizationMembership(idStore, m).db
        BY <1>7 DEF CreateOrganizationOwner, AcceptInviteJoin, UpdateMembership, Upsert, IdCall
    <2>2. Keeps(idStore, idStore', {"memberships"}) BY <2>1, CallsKeep
    <2>3. DOMAIN idStore' = StoreFields /\ idStore'.controlRefresh = idStore.controlRefresh
        BY <1>0, <2>2
    <2>4. CASE CreateOrganizationOwner(t) BY <2>3, <2>4 DEF CreateOrganizationOwner
    <2>5. CASE AcceptInviteJoin(t) BY <2>3, <2>5 DEF AcceptInviteJoin
    <2>6. CASE UpdateMembership(t) BY <2>3, <2>6 DEF UpdateMembership
    <2> QED BY <1>7, <2>4, <2>5, <2>6
<1>8. CASE UpdateInvite(t) BY <1>8, CallsKeep, <1>0 DEF UpdateInvite, IdCall
<1>9. CASE ReadMembership(t) BY <1>9 DEF ReadMembership
<1>10. CASE KeepsAnOwner(t) BY <1>10 DEF KeepsAnOwner
<1>11. CASE DeleteMembership(t) BY <1>11, CallsKeep, <1>0 DEF DeleteMembership, IdCall
<1> QED BY <1>1, <1>2, <1>3, <1>4, <1>5, <1>6, <1>7, <1>8, <1>9, <1>10, <1>11

\* Managing personal access tokens does not touch refresh tokens.
LEMMA PatsQuiet ==
    ASSUME AccountsTyped, NEW t \in Threads,
           \/ \E u \in Users, p \in DOMAIN idStore.pats : RevokePersonalAccessToken(t, u, p)
           \/ \E p \in DOMAIN idStore.pats : \/ SessionForPersonalAccessToken(t, p)
                                             \/ \E o \in Orgs : ValidatePersonalAccessToken(t, p, o)
           \/ ValidateScopes(t) \/ UpdatePersonalAccessToken(t)
    PROVE  Quiet(t)
<1> USE DEF AccountsTyped, Requests, Quiet, RefreshOps, SigninRest, MembersRest, Read, Goto, Finish, Is, NoReq
<1>1. ASSUME NEW u \in Users, NEW p \in DOMAIN idStore.pats, RevokePersonalAccessToken(t, u, p)
      PROVE  Quiet(t)
    BY <1>1 DEF RevokePersonalAccessToken
<1>2. ASSUME NEW p \in DOMAIN idStore.pats, SessionForPersonalAccessToken(t, p) PROVE Quiet(t)
    BY <1>2 DEF SessionForPersonalAccessToken
<1>3. ASSUME NEW p \in DOMAIN idStore.pats, NEW o \in Orgs, ValidatePersonalAccessToken(t, p, o)
      PROVE  Quiet(t)
    BY <1>3 DEF ValidatePersonalAccessToken
<1>4. CASE ValidateScopes(t) BY <1>4 DEF ValidateScopes
<1>5. CASE UpdatePersonalAccessToken(t)
    BY <1>5, CallsKeep DEF UpdatePersonalAccessToken, IdCall, Keeps, StoreFields
<1> QED BY <1>1, <1>2, <1>3, <1>4, <1>5

\* What leaves every request and every refresh token alone.
Aside ==
    /\ idReq' = idReq /\ redeemedFor' = redeemedFor /\ DOMAIN idStore' = StoreFields
    /\ idStore'.controlRefresh = idStore.controlRefresh

\* Every step of accounts is one of the token steps or leaves refresh tokens alone.
LEMMA OthersAside ==
    ASSUME AccountsTyped,
           \/ \E i \in Identities, e \in Emails : ControlOIDCCallback(i, e)
           \/ \E u \in DOMAIN idStore.users : ControlCLICode(u)
           \/ TimePasses
           \/ \E t \in Threads, u \in Users, o \in Orgs \cup {UserWide}, s \in SUBSET Scopes :
                 CreatePersonalAccessToken(t, u, o, s)
    PROVE  Aside
<1> USE DEF AccountsTyped, Aside, SigninRest, MembersRest
<1>1. CASE \E t \in Threads, u \in Users, o \in Orgs \cup {UserWide}, s \in SUBSET Scopes :
              CreatePersonalAccessToken(t, u, o, s)
    BY <1>1, CallsKeep DEF CreatePersonalAccessToken, IdCall, Keeps, StoreFields
<1>2. CASE \/ \E i \in Identities, e \in Emails : ControlOIDCCallback(i, e)
           \/ \E u \in DOMAIN idStore.users : ControlCLICode(u)
    BY <1>2 DEF ControlOIDCCallback, ControlCLICode, KeepCode
<1>3. CASE TimePasses BY <1>3 DEF TimePasses
<1> QED BY <1>1, <1>2, <1>3

\* A step redeems a refresh token, opens a session, or does neither.
LEMMA RefreshSteps ==
    ASSUME AccountsTyped, AccountsNext
    PROVE  \/ \E t \in Threads : \/ Quiet(t)
                                 \/ \E k \in DOMAIN idStore.controlRefresh : Refresh(t, k)
                                 \/ RefreshRevoke(t)
                                 \/ SessionForUser(t)
           \/ Aside
BY SigninQuiet, OthersAside, MembersQuiet, PatsQuiet DEF SigninNext, SessionNext, MembersNext,
   Scopes, PatsNext, AccountsNext

-----------------------------------------------------------------------------
(* Refresh tokens.                                                         *)

\* A refresh token as it is stored.
Token(k) == DOMAIN k = {"hash", "user", "expires", "revoked"} /\ k.revoked \in BOOLEAN

\* Tokens are numbered in the order they are issued; each knows what it was
\* obtained with: nothing, or a token that is revoked, and no two with the same.
TokensIssued(cr, made) ==
    /\ \E n \in Nat : DOMAIN cr = 1..n
    /\ DOMAIN made = DOMAIN cr
    /\ \A h \in DOMAIN cr : Token(cr[h]) /\ cr[h].hash = h
Spent(cr, made) ==
    /\ \A a \in DOMAIN made : made[a] # 0 => made[a] \in DOMAIN cr /\ cr[made[a]].revoked
    /\ \A a, b \in DOMAIN made : made[a] = made[b] /\ made[a] # 0 => a = b

\* The token a request is about to open a session for, once it revoked it.
Redeeming(r) == r.op \in {"user", "session"} /\ r.token # 0

\* A request in the course of a refresh holds a copy of a token, then the hash of
\* one it revoked itself: no session was opened for that one, and no other request
\* holds it.
Redemption(cr, made, r) ==
    /\ r.op = "refresh" => Token(r.token) /\ r.token.hash \in DOMAIN cr
    /\ Redeeming(r) => /\ r.token \in DOMAIN cr /\ cr[r.token].revoked
                       /\ \A a \in DOMAIN made : made[a] # r.token
Redemptions(cr, made, req) ==
    /\ \A t \in Threads : Redemption(cr, made, req[t])
    /\ \A t, u \in Threads : Redeeming(req[t]) /\ Redeeming(req[u]) /\ req[t].token = req[u].token
                                => t = u

RefreshInv ==
    /\ AccountsTyped
    /\ TokensIssued(idStore.controlRefresh, redeemedFor)
    /\ Spent(idStore.controlRefresh, redeemedFor)
    /\ Redemptions(idStore.controlRefresh, redeemedFor, idReq)

\* Nothing has been issued or redeemed when a flow starts.
LEMMA RefreshAtFirst == ASSUME AccountsStart PROVE RefreshInv
<1>1. PICK people, owner : Seeded(people, owner)
    BY DEF AccountsStart
<1>2. DOMAIN idStore = StoreFields /\ idStore.controlRefresh = None
    BY <1>1 DEF Seeded, StoreIdentity, StoreFields
<1>3. DOMAIN None = {} BY DEF None
<1>4. idReq = [t \in Threads |-> NoReq] /\ redeemedFor = None BY DEF AccountsStart, AccountsInit
<1>5. AccountsTyped BY <1>2, <1>4 DEF AccountsTyped, Requests, NoReq
<1>6. DOMAIN None = 1..0 BY <1>3
<1>7. TokensIssued(None, None) BY <1>3, <1>6 DEF TokensIssued
<1>8. Spent(None, None) BY <1>3 DEF Spent
<1>9. Redemptions(None, None, idReq) BY <1>4 DEF Redemptions, Redemption, Redeeming, NoReq
<1> QED BY <1>2, <1>4, <1>5, <1>7, <1>8, <1>9 DEF RefreshInv

\* Steps that leave refresh tokens and their requests alone keep the invariant.
LEMMA RefreshAside == ASSUME RefreshInv, Aside PROVE RefreshInv'
BY DEF RefreshInv, Aside, AccountsTyped, Requests

\* So do steps of a request that neither redeems nor issues a token.
LEMMA RefreshQuiet == ASSUME RefreshInv, NEW t \in Threads, Quiet(t) PROVE RefreshInv'
<1> USE DEF RefreshInv, Quiet
<1>1. AccountsTyped' BY DEF AccountsTyped, Requests
<1>2. TokensIssued(idStore.controlRefresh, redeemedFor)' BY DEF TokensIssued
<1>3. Spent(idStore.controlRefresh, redeemedFor)' BY DEF Spent
<1>4. \A u \in Threads \ {t} : idReq'[u] = idReq[u] BY DEF AccountsTyped, Requests
<1>5. Redeeming(idReq'[t]) => Redeeming(idReq[t]) /\ idReq'[t].token = idReq[t].token
    BY DEF Redeeming, RefreshOps
<1>6. idReq'[t].op # "refresh" BY DEF RefreshOps
<1>7. Redemptions(idStore.controlRefresh, redeemedFor, idReq)'
    BY <1>5, <1>6, <1>4 DEF Redemptions, Redemption
<1> QED BY <1>1, <1>2, <1>3, <1>7

\* Reading a refresh token, in ControlAuthService.Refresh, redeems nothing yet.
LEMMA RefreshRefresh ==
    ASSUME RefreshInv, NEW t \in Threads, NEW k \in DOMAIN idStore.controlRefresh, Refresh(t, k)
    PROVE  RefreshInv'
<1> DEFINE cr == idStore.controlRefresh
<1> USE DEF RefreshInv
<1>1. PICK r : r = [op |-> "refresh", token |-> cr[k]] OBVIOUS
<1>2. StoreControlRefreshToken(idStore, k) = cr[k] BY DEF StoreControlRefreshToken, At
<1>3. idReq' = [idReq EXCEPT ![t] = r] /\ idStore' = idStore /\ redeemedFor' = redeemedFor
    BY <1>1, <1>2 DEF Refresh, Read, Goto, SigninRest
<1>4. Token(cr[k]) /\ cr[k].hash \in DOMAIN cr BY DEF TokensIssued
<1>5. AccountsTyped' BY <1>1, <1>3 DEF AccountsTyped, Requests
<1>6. ~Redeeming(r) BY <1>1 DEF Redeeming
<1>7. idReq'[t] = r /\ \A u \in Threads \ {t} : idReq'[u] = idReq[u]
    BY <1>3 DEF AccountsTyped, Requests
<1>8. Redemption(cr, redeemedFor, r) BY <1>1, <1>4, <1>6 DEF Redemption
<1>9. Redemptions(cr, redeemedFor, idReq') BY <1>6, <1>7, <1>8 DEF Redemptions
<1> QED BY <1>3, <1>5, <1>9

\* Revoking succeeds for one of the requests that hold copies of the token: the
\* others find it revoked, and so does every later one.
LEMMA RefreshRevoked ==
    ASSUME RefreshInv, NEW t \in Threads, RefreshRevoke(t)
    PROVE  RefreshInv'
<1> DEFINE cr == idStore.controlRefresh
<1> USE DEF RefreshInv
<1>1. PICK k : k = [idReq[t].token EXCEPT !.revoked = TRUE] OBVIOUS
<1>2. /\ idStore' = StoreUpdateControlRefreshToken(idStore, k).db /\ redeemedFor' = redeemedFor
      /\ idReq' = [idReq EXCEPT ![t] = IF StoreUpdateControlRefreshToken(idStore, k).out = "ok"
                       THEN [op |-> "user", user |-> k.user, token |-> k.hash] ELSE NoReq]
      /\ idReq[t].op = "refresh"
    BY <1>1 DEF RefreshRevoke, IdCall, Goto, Is, SigninRest
<1>3. Redemption(cr, redeemedFor, idReq[t]) BY DEF Redemptions
<1>4. /\ Token(k) /\ k.revoked = TRUE /\ k.hash \in DOMAIN cr /\ k.hash = idReq[t].token.hash
    BY <1>1, <1>2, <1>3 DEF Redemption, Token
<1>5. CASE cr[k.hash].revoked
    BY <1>4, <1>5, <1>2, RefreshQuiet DEF StoreUpdateControlRefreshToken, Refused, Quiet,
       AccountsTyped, Requests, NoReq, RefreshOps
<1>6. CASE ~cr[k.hash].revoked
    <2>1. StoreUpdateControlRefreshToken(idStore, k)
              = Done([idStore EXCEPT !.controlRefresh = Put(@, k.hash, k)])
        BY <1>4, <1>6 DEF StoreUpdateControlRefreshToken
    <2>2. DOMAIN idStore' = StoreFields /\ idStore'.controlRefresh = Put(cr, k.hash, k)
        BY <1>2, <2>1 DEF Done, AccountsTyped, StoreFields
    <2>3. PICK r : r = [op |-> "user", user |-> k.user, token |-> k.hash] OBVIOUS
    <2>4. idReq' = [idReq EXCEPT ![t] = r] BY <1>2, <2>1, <2>3 DEF Done
    <2>5. PICK new : new = Put(cr, k.hash, k) OBVIOUS
    <2>6. DOMAIN new = DOMAIN cr /\ new[k.hash] = k /\ \A h \in DOMAIN cr \ {k.hash} : new[h] = cr[h]
        BY <1>4, <2>5 DEF Put
    <2>7. AccountsTyped' BY <2>2, <2>3, <2>4 DEF AccountsTyped, Requests
    <2>8. TokensIssued(new, redeemedFor) BY <1>4, <2>6 DEF TokensIssued
    <2>9. \A h \in DOMAIN cr : cr[h].revoked => h # k.hash /\ new[h].revoked
        BY <1>6, <2>6
    <2>10. Spent(new, redeemedFor) BY <2>6, <2>9 DEF Spent
    <2>11. idReq'[t] = r /\ \A u \in Threads \ {t} : idReq'[u] = idReq[u]
        BY <2>4 DEF AccountsTyped, Requests
    <2>12. Redemption(new, redeemedFor, r)
        BY <1>6, <1>4, <2>3, <2>6 DEF Spent, Redemption, Redeeming
    <2>13. \A u \in Threads \ {t} : Redemption(new, redeemedFor, idReq[u])
        BY <2>6, <2>9 DEF Redemptions, Redemption
    <2>14. \A u \in Threads \ {t} : Redeeming(idReq[u]) => idReq[u].token # r.token
        BY <1>6, <2>3 DEF Redemptions, Redemption
    <2>15. Redemptions(new, redeemedFor, idReq') BY <2>11, <2>12, <2>13, <2>14 DEF Redemptions
    <2> QED BY <1>2, <2>2, <2>5, <2>7, <2>8, <2>10, <2>15
<1> QED BY <1>5, <1>6, <1>4 DEF Token, TokensIssued

\* The session's own token is a new one.
LEMMA RefreshIssued ==
    ASSUME RefreshInv, NEW t \in Threads, SessionForUser(t)
    PROVE  RefreshInv'
<1> DEFINE cr == idStore.controlRefresh
<1> USE DEF RefreshInv
<1>1. PICK n \in Nat : DOMAIN cr = 1..n BY DEF TokensIssued
<1>2. Cardinality(DOMAIN cr) = n /\ n + 1 \notin DOMAIN cr BY <1>1, FS_Interval
<1>3. PICK k : k = [hash |-> n + 1, user |-> idReq[t].user, expires |-> idNow + 1, revoked |-> FALSE]
    OBVIOUS
<1>4. /\ idStore' = StoreCreateControlRefreshToken(idStore, k).db
      /\ redeemedFor' = Put(redeemedFor, k.hash, idReq[t].token)
      /\ idReq' = [idReq EXCEPT ![t] = NoReq] /\ idReq[t].op = "session"
    BY <1>2, <1>3 DEF SessionForUser, IdCall, Finish, Goto, Is
<1>5. k.hash = n + 1 /\ Token(k) BY <1>3 DEF Token
<1>6. DOMAIN idStore' = StoreFields /\ idStore'.controlRefresh = Put(cr, n + 1, k)
    BY <1>4, <1>5 DEF StoreCreateControlRefreshToken, Done, AccountsTyped, StoreFields
<1>7. PICK new : new = Put(cr, n + 1, k) OBVIOUS
<1>8. PICK made : made = Put(redeemedFor, n + 1, idReq[t].token) OBVIOUS
<1>9. DOMAIN redeemedFor = DOMAIN cr BY DEF TokensIssued
<1>10. /\ DOMAIN new = 1..(n + 1) /\ DOMAIN made = 1..(n + 1)
       /\ new[n + 1] = k /\ \A h \in DOMAIN cr : new[h] = cr[h]
       /\ made[n + 1] = idReq[t].token /\ \A h \in DOMAIN cr : made[h] = redeemedFor[h]
    BY <1>1, <1>2, <1>7, <1>8, <1>9 DEF Put
<1>11. AccountsTyped' BY <1>4, <1>6 DEF AccountsTyped, Requests, NoReq
<1>12. TokensIssued(new, made) BY <1>1, <1>5, <1>10 DEF TokensIssued
<1>13. Redemption(cr, redeemedFor, idReq[t]) BY DEF Redemptions
<1>14. Spent(new, made)
    <2>1. idReq[t].token # 0 => /\ idReq[t].token \in DOMAIN cr /\ cr[idReq[t].token].revoked
                                /\ \A a \in DOMAIN cr : redeemedFor[a] # idReq[t].token
        BY <1>4, <1>9, <1>13 DEF Redemption, Redeeming
    <2>2. \A a \in DOMAIN made : a = n + 1 \/ a \in DOMAIN cr BY <1>1, <1>10
    <2>3. \A a \in DOMAIN cr : a \in DOMAIN made /\ a \in DOMAIN redeemedFor BY <1>1, <1>9, <1>10
    <2>4. DOMAIN cr \subseteq DOMAIN new BY <1>1, <1>10
    <2>5. ASSUME NEW a \in DOMAIN made, made[a] # 0 PROVE made[a] \in DOMAIN new /\ new[made[a]].revoked
        BY <2>1, <2>2, <2>3, <2>4, <2>5, <1>10 DEF Spent
    <2>6. ASSUME NEW a \in DOMAIN made, NEW b \in DOMAIN made, made[a] = made[b], made[a] # 0
          PROVE  a = b
        BY <2>1, <2>2, <2>3, <2>6, <1>10 DEF Spent
    <2> QED BY <2>5, <2>6 DEF Spent
<1>15. idReq'[t] = NoReq /\ \A u \in Threads \ {t} : idReq'[u] = idReq[u]
    BY <1>4 DEF AccountsTyped, Requests
<1>16. Redemptions(new, made, idReq')
    <2>1. Redemption(new, made, NoReq) BY DEF Redemption, NoReq, Redeeming
    <2>2. ASSUME NEW u \in Threads \ {t} PROVE Redemption(new, made, idReq[u])
        <3>1. Redemption(cr, redeemedFor, idReq[u]) BY DEF Redemptions
        <3>2. Redeeming(idReq[u]) => idReq[t].token = 0 \/ idReq[u].token # idReq[t].token
            BY <1>4 DEF Redemptions, Redeeming
        <3>3. Redeeming(idReq[u]) => \A a \in DOMAIN made : made[a] # idReq[u].token
            BY <1>9, <3>1, <1>10, <3>2, <1>1 DEF Redemption, Redeeming
        <3>4. idReq[u].token \in DOMAIN cr => idReq[u].token \in DOMAIN new /\ new[idReq[u].token] = cr[idReq[u].token]
            BY <1>1, <1>10
        <3>5. DOMAIN cr \subseteq DOMAIN new BY <1>1, <1>10
        <3> QED BY <3>1, <3>3, <3>4, <3>5 DEF Redemption
    <2>3. \A u \in Threads : Redemption(new, made, idReq'[u]) BY <1>15, <2>1, <2>2
    <2>4. ~Redeeming(NoReq) BY DEF Redeeming, NoReq
    <2>5. \A u, w \in Threads : Redeeming(idReq'[u]) /\ Redeeming(idReq'[w]) /\ idReq'[u].token = idReq'[w].token
                                   => u = w
        BY <1>15, <2>4 DEF Redemptions
    <2> QED BY <2>3, <2>5 DEF Redemptions
<1> QED BY <1>4, <1>5, <1>6, <1>7, <1>8, <1>11, <1>12, <1>14, <1>16

\* The inductive invariant of refresh tokens.
THEOREM RefreshInvariant == AccountsSpec => []RefreshInv
<1>1. AccountsStart => RefreshInv BY RefreshAtFirst
<1>2. RefreshInv /\ [AccountsNext]_accountsVars => RefreshInv'
    BY RefreshSteps, RefreshQuiet, RefreshAside, RefreshRefresh, RefreshRevoked, RefreshIssued
       DEF RefreshInv, Aside, accountsVars, AccountsTyped
<1> QED BY <1>1, <1>2, PTL DEF AccountsSpec

\* A refresh token is redeemed once: of all the requests that present it, the conditional
\* update lets one rotate it.
THEOREM RefreshOnce == AccountsSpec => []RefreshRedeemedOnce
<1>1. RefreshInv => RefreshRedeemedOnce BY DEF RefreshInv, Spent, RefreshRedeemedOnce
<1> QED BY <1>1, RefreshInvariant, PTL

\* What an accepted call answers.
LEMMA Accepted == \A db : Done(db).db = db /\ Done(db).out = "ok"
BY DEF Done

\* The rows of a table the store keeps as a map.
Rows(f) == {f[k] : k \in DOMAIN f}

\* A new entry of the map is a new row.
LEMMA RowsOfNew ==
    \A f, k, v : k \notin DOMAIN f => Rows(Put(f, k, v)) = Rows(f) \cup {v}
BY DEF Rows, Put

\* A changed entry of the map is one row replaced.
LEMMA RowsOfChanged ==
    \A f, k, v : k \in DOMAIN f /\ (\A j \in DOMAIN f \ {k} : f[j] # f[k])
                    => Rows(Put(f, k, v)) = Replace(Rows(f), {f[k]}, {v})
<1> SUFFICES ASSUME NEW f, NEW k, NEW v, k \in DOMAIN f, \A j \in DOMAIN f \ {k} : f[j] # f[k]
             PROVE  Rows(Put(f, k, v)) = Replace(Rows(f), {f[k]}, {v})
    OBVIOUS
<1>1. PICK g : g = Put(f, k, v) OBVIOUS
<1>2. DOMAIN g = DOMAIN f /\ g[k] = v /\ \A j \in DOMAIN f \ {k} : g[j] = f[j] BY <1>1 DEF Put
<1>3. {g[j] : j \in DOMAIN g} = {f[j] : j \in DOMAIN f \ {k}} \cup {v} BY <1>2
<1>4. {f[j] : j \in DOMAIN f \ {k}} = {f[j] : j \in DOMAIN f} \ {f[k]} OBVIOUS
<1> QED BY <1>1, <1>3, <1>4 DEF Rows, Replace

\* A dropped entry of the map is one row deleted.
LEMMA RowsOfRest ==
    \A f, k : k \in DOMAIN f /\ (\A j \in DOMAIN f \ {k} : f[j] # f[k])
                 => Rows(Drop(f, k)) = Rows(f) \ {f[k]}
BY DEF Rows, Drop

\* The row of a query that finds one, and of a query that finds none.
LEMMA OneRow == (\A x : One({x}) = x) /\ One({}) = NotFound
BY DEF One


\* What a query by a key finds is what the map has at it.
LEMMA RowAt ==
    ASSUME NEW f, NEW k, NEW rows, rows \subseteq Rows(f),
           \A j \in DOMAIN f : f[j] \in rows <=> j = k
    PROVE  One(rows) = At(f, k)
BY OneRow DEF Rows, At

\* A map and its rows have the same number of entries, when a row has one key.
LEMMA RowsCounted ==
    ASSUME NEW f, NEW D, IsFiniteSet(D), D \subseteq DOMAIN f,
           \A j, k \in D : f[j] = f[k] => j = k
    PROVE  Cardinality({f[k] : k \in D}) = Cardinality(D)
<1>1. PICK g : g = [k \in D |-> f[k]] OBVIOUS
<1>2. PICK R : R = {f[k] : k \in D} OBVIOUS
<1>3. g \in [D -> R] /\ \A r \in R : \E k \in D : g[k] = r BY <1>1, <1>2
<1>4. \A j, k \in D : g[j] = g[k] => j = k BY <1>1
<1>5. g \in Bijection(D, R) BY <1>3, <1>4 DEF Bijection, Injection, IsInjective, Surjection
<1> QED BY <1>2, <1>5, FS_Bijection DEF ExistsBijection

-----------------------------------------------------------------------------
(* Users.                                                                  *)

UserTable(users, byEmail, oidc, rows, links) ==
    /\ rows = Rows(users)
    /\ links = {[identity |-> i, user |-> oidc[i]] : i \in DOMAIN oidc}
    /\ \A id \in DOMAIN users : /\ users[id].id = id /\ users[id].email \in DOMAIN byEmail
                                /\ byEmail[users[id].email] = id
    /\ \A e \in DOMAIN byEmail : byEmail[e] \in DOMAIN users /\ users[byEmail[e]].email = e
    /\ \A i \in DOMAIN oidc : oidc[i] \in DOMAIN users
    /\ IsFiniteSet(DOMAIN users)

\* Users, by id, by address and by identity, are found alike.
LEMMA UserLookups ==
    ASSUME NEW s, NEW p,
           UserTable(s.users, s.usersByEmail, s.oidcIdentities, p.users, p.user_oidc_identities)
    PROVE  /\ StoreUserCount(s) = PgUserCount(p)
           /\ \A e : StoreUserByEmail(s, e) = PgUserByEmail(p, e)
           /\ \A id : StoreUserByID(s, id) = PgUserByID(p, id)
           /\ \A i : StoreUserByOIDCIdentity(s, i) = PgUserByOIDCIdentity(p, i)
<1> USE DEF UserTable
<1>1. StoreUserCount(s) = PgUserCount(p) BY RowsCounted DEF StoreUserCount, PgUserCount, Rows
<1>2. ASSUME NEW id PROVE One({r \in p.users : r.id = id}) = At(s.users, id) BY RowAt DEF Rows
<1>3. ASSUME NEW e PROVE StoreUserByEmail(s, e) = PgUserByEmail(p, e)
    <2>1. PICK rows : rows = {r \in p.users : r.email = e} OBVIOUS
    <2>2. CASE e \in DOMAIN s.usersByEmail
        <3>1. s.users[s.usersByEmail[e]] \in rows BY <2>1, <2>2 DEF Rows
        <3>2. \A r \in rows : r = s.users[s.usersByEmail[e]] BY <2>1, <2>2 DEF Rows
        <3>3. rows = {s.users[s.usersByEmail[e]]} BY <3>1, <3>2
        <3>4. One(rows) = s.users[s.usersByEmail[e]] BY <3>3, OneRow
        <3> QED BY <2>1, <2>2, <3>4 DEF StoreUserByEmail, PgUserByEmail
    <2>3. CASE e \notin DOMAIN s.usersByEmail
        <3>1. rows = {} BY <2>1, <2>3 DEF Rows
        <3>2. One(rows) = NotFound BY <3>1, OneRow
        <3> QED BY <2>1, <2>3, <3>2 DEF StoreUserByEmail, PgUserByEmail
    <2> QED BY <2>2, <2>3
<1>4. ASSUME NEW i PROVE StoreUserByOIDCIdentity(s, i) = PgUserByOIDCIdentity(p, i)
    <2>1. PICK rows : rows = {r \in p.users : \E d \in p.user_oidc_identities : d.identity = i /\ d.user = r.id}
        OBVIOUS
    <2>2. CASE i \in DOMAIN s.oidcIdentities
        <3>1. PICK u : u = s.oidcIdentities[i] OBVIOUS
        <3>2. u \in DOMAIN s.users BY <2>2, <3>1
        <3>3. [identity |-> i, user |-> u] \in p.user_oidc_identities BY <2>2, <3>1
        <3>4. \A x \in p.user_oidc_identities : x.identity = i => x.user = u BY <3>1
        <3>5. s.users[u] \in rows BY <2>1, <3>2, <3>3 DEF Rows
        <3>6. \A r \in rows : r = s.users[u] BY <2>1, <3>4 DEF Rows
        <3>7. rows = {s.users[u]} BY <3>5, <3>6
        <3>8. One(rows) = s.users[u] BY <3>7, OneRow
        <3> QED BY <2>1, <2>2, <3>1, <3>2, <3>8 DEF StoreUserByOIDCIdentity, PgUserByOIDCIdentity, At
    <2>3. CASE i \notin DOMAIN s.oidcIdentities
        <3>1. rows = {} BY <2>1, <2>3
        <3>2. One(rows) = NotFound BY <3>1, OneRow
        <3> QED BY <2>1, <2>3, <3>2 DEF StoreUserByOIDCIdentity, PgUserByOIDCIdentity
    <2> QED BY <2>2, <2>3
<1> QED BY <1>1, <1>2, <1>3, <1>4 DEF StoreUserByID, PgUserByID

PgFields == {"users", "user_oidc_identities", "control_refresh_tokens", "personal_access_tokens",
             "organizations", "user_organizations", "organization_invites"}
PgKeeps(db, new, fields) == DOMAIN new = PgFields /\ \A f \in PgFields \ fields : new[f] = db[f]

\* CreateUser keeps the two indexes of users in step with the rows.
LEMMA UserCreated ==
    ASSUME NEW s, NEW p, NEW u, DOMAIN s = StoreFields, DOMAIN p = PgFields,
           UserTable(s.users, s.usersByEmail, s.oidcIdentities, p.users, p.user_oidc_identities),
           NEW s2, s2 = StoreCreateUser(s, u).db, NEW p2, p2 = PgCreateUser(p, u).db
    PROVE  /\ StoreCreateUser(s, u).out = PgCreateUser(p, u).out
           /\ Keeps(s, s2, {"users", "usersByEmail"}) /\ PgKeeps(p, p2, {"users"})
           /\ UserTable(s2.users, s2.usersByEmail, s2.oidcIdentities, p2.users, p2.user_oidc_identities)
           /\ \A id \in DOMAIN s.users : id \in DOMAIN s2.users
           /\ StoreCreateUser(s, u).out = "ok" => u.id \in DOMAIN s2.users
<1>1. (u.id \in DOMAIN s.users \/ u.email \in DOMAIN s.usersByEmail)
          <=> \E r \in p.users : r.id = u.id \/ r.email = u.email
    BY DEF Rows, UserTable
<1>2. Keeps(s, s2, {"users", "usersByEmail"}) BY CallsKeep
<1>3. CASE u.id \in DOMAIN s.users \/ u.email \in DOMAIN s.usersByEmail
    <2>1. StoreCreateUser(s, u) = Refused(s, "user exists") BY <1>3 DEF StoreCreateUser
    <2>2. PgCreateUser(p, u) = Refused(p, "user exists") BY <1>1, <1>3 DEF PgCreateUser
    <2>3. s2 = s /\ p2 = p /\ StoreCreateUser(s, u).out = "user exists" /\ PgCreateUser(p, u).out = "user exists"
        <3>1. Refused(s, "user exists").db = s /\ Refused(s, "user exists").out = "user exists" BY DEF Refused
        <3>2. Refused(p, "user exists").db = p /\ Refused(p, "user exists").out = "user exists" BY DEF Refused
        <3> QED BY <2>1, <2>2, <3>1, <3>2
    <2>4. PgKeeps(p, p2, {"users"}) BY <2>3 DEF PgKeeps
    <2> QED BY <1>2, <2>3, <2>4
<1>4. CASE ~(u.id \in DOMAIN s.users \/ u.email \in DOMAIN s.usersByEmail)
    <2>1. StoreCreateUser(s, u) = Done([s EXCEPT !.users = Put(@, u.id, u), !.usersByEmail = Put(@, u.email, u.id)])
        BY <1>4 DEF StoreCreateUser
    <2>2. PgCreateUser(p, u) = Done([p EXCEPT !.users = @ \cup {u}]) BY <1>1, <1>4 DEF PgCreateUser
    <2>3. StoreCreateUser(s, u).out = "ok" /\ PgCreateUser(p, u).out = "ok" BY <2>1, <2>2, Accepted
    <2>4. /\ s2.users = Put(s.users, u.id, u) /\ s2.usersByEmail = Put(s.usersByEmail, u.email, u.id)
          /\ s2.oidcIdentities = s.oidcIdentities
        <3>1. PICK w : w = [s EXCEPT !.users = Put(s.users, u.id, u),
                                     !.usersByEmail = Put(s.usersByEmail, u.email, u.id)]
            OBVIOUS
        <3>2. s2 = w BY <2>1, <3>1, Accepted
        <3> QED BY <3>1, <3>2 DEF StoreFields
    <2>5. /\ p2.users = p.users \cup {u} /\ p2.user_oidc_identities = p.user_oidc_identities
          /\ PgKeeps(p, p2, {"users"})
        BY <2>2, Accepted DEF PgFields, PgKeeps
    <2>6. p2.users = Rows(s2.users) BY <1>4, <2>4, <2>5, RowsOfNew DEF UserTable
    <2>7. IsFiniteSet(DOMAIN s2.users) BY <2>4, FS_AddElement DEF Put, UserTable
    <2>8. /\ DOMAIN s2.users = DOMAIN s.users \cup {u.id} /\ s2.users[u.id] = u
          /\ \A id \in DOMAIN s.users : s2.users[id] = s.users[id]
          /\ DOMAIN s2.usersByEmail = DOMAIN s.usersByEmail \cup {u.email} /\ s2.usersByEmail[u.email] = u.id
          /\ \A e \in DOMAIN s.usersByEmail : s2.usersByEmail[e] = s.usersByEmail[e]
        BY <1>4, <2>4 DEF Put
    <2>9. \A id \in DOMAIN s2.users : /\ s2.users[id].id = id /\ s2.users[id].email \in DOMAIN s2.usersByEmail
                                      /\ s2.usersByEmail[s2.users[id].email] = id
        BY <2>8, <1>4 DEF UserTable
    <2>10. \A e \in DOMAIN s2.usersByEmail :
              s2.usersByEmail[e] \in DOMAIN s2.users /\ s2.users[s2.usersByEmail[e]].email = e
        BY <2>8, <1>4 DEF UserTable
    <2>11. UserTable(s2.users, s2.usersByEmail, s2.oidcIdentities, p2.users, p2.user_oidc_identities)
        BY <2>4, <2>5, <2>6, <2>7, <2>8, <2>9, <2>10 DEF UserTable
    <2> QED BY <1>2, <2>3, <2>5, <2>8, <2>11
<1> QED BY <1>3, <1>4

\* CreateOIDCIdentity links an identity in both.
LEMMA IdentityLinked ==
    ASSUME NEW s, NEW p, NEW i, NEW u, DOMAIN s = StoreFields, DOMAIN p = PgFields,
           UserTable(s.users, s.usersByEmail, s.oidcIdentities, p.users, p.user_oidc_identities),
           u \in DOMAIN s.users,
           NEW s2, s2 = StoreCreateOIDCIdentity(s, i, u).db,
           NEW p2, p2 = PgCreateOIDCIdentity(p, i, u).db
    PROVE  /\ StoreCreateOIDCIdentity(s, i, u).out = PgCreateOIDCIdentity(p, i, u).out
           /\ Keeps(s, s2, {"oidcIdentities"}) /\ PgKeeps(p, p2, {"user_oidc_identities"})
           /\ UserTable(s2.users, s2.usersByEmail, s2.oidcIdentities, p2.users, p2.user_oidc_identities)
           /\ i \in DOMAIN s2.oidcIdentities
           /\ \A j \in DOMAIN s.oidcIdentities : /\ j \in DOMAIN s2.oidcIdentities
                                                 /\ s2.oidcIdentities[j] = s.oidcIdentities[j]
           /\ StoreCreateOIDCIdentity(s, i, u).out = "ok" => s2.oidcIdentities[i] = u
<1>1. i \in DOMAIN s.oidcIdentities <=> \E d \in p.user_oidc_identities : d.identity = i
    <2>1. p.user_oidc_identities = {[identity |-> j, user |-> s.oidcIdentities[j]] : j \in DOMAIN s.oidcIdentities}
        BY DEF UserTable
    <2>2. ASSUME i \in DOMAIN s.oidcIdentities PROVE \E d \in p.user_oidc_identities : d.identity = i
        <3>1. [identity |-> i, user |-> s.oidcIdentities[i]] \in p.user_oidc_identities BY <2>1, <2>2
        <3> QED BY <3>1
    <2> QED BY <2>1, <2>2
<1>2. Keeps(s, s2, {"oidcIdentities"}) BY CallsKeep
<1>3. CASE i \in DOMAIN s.oidcIdentities
    <2>1. StoreCreateOIDCIdentity(s, i, u) = Refused(s, "identity exists") BY <1>3 DEF StoreCreateOIDCIdentity
    <2>2. PgCreateOIDCIdentity(p, i, u) = Refused(p, "identity exists") BY <1>1, <1>3 DEF PgCreateOIDCIdentity
    <2>3. /\ s2 = s /\ p2 = p /\ StoreCreateOIDCIdentity(s, i, u).out = "identity exists"
          /\ PgCreateOIDCIdentity(p, i, u).out = "identity exists"
        <3>1. Refused(s, "identity exists").db = s /\ Refused(s, "identity exists").out = "identity exists" BY DEF Refused
        <3>2. Refused(p, "identity exists").db = p /\ Refused(p, "identity exists").out = "identity exists" BY DEF Refused
        <3> QED BY <2>1, <2>2, <3>1, <3>2
    <2>4. PgKeeps(p, p2, {"user_oidc_identities"}) BY <2>3 DEF PgKeeps
    <2> QED BY <1>2, <1>3, <2>3, <2>4
<1>4. CASE i \notin DOMAIN s.oidcIdentities
    <2>1. StoreCreateOIDCIdentity(s, i, u) = Done([s EXCEPT !.oidcIdentities = Put(@, i, u)])
        BY <1>4 DEF StoreCreateOIDCIdentity
    <2>2. \E r \in p.users : r.id = u BY DEF Rows, UserTable
    <2>3. PgCreateOIDCIdentity(p, i, u)
             = Done([p EXCEPT !.user_oidc_identities = @ \cup {[identity |-> i, user |-> u]}])
        BY <1>1, <1>4, <2>2 DEF PgCreateOIDCIdentity
    <2>4. StoreCreateOIDCIdentity(s, i, u).out = "ok" /\ PgCreateOIDCIdentity(p, i, u).out = "ok"
        BY <2>1, <2>3, Accepted
    <2>5. /\ s2.users = s.users /\ s2.usersByEmail = s.usersByEmail
          /\ s2.oidcIdentities = Put(s.oidcIdentities, i, u)
        BY <2>1, Accepted DEF StoreFields
    <2>6. /\ p2.users = p.users /\ PgKeeps(p, p2, {"user_oidc_identities"})
          /\ p2.user_oidc_identities = p.user_oidc_identities \cup {[identity |-> i, user |-> u]}
        BY <2>3, Accepted DEF PgFields, PgKeeps
    <2>7. /\ DOMAIN s2.oidcIdentities = DOMAIN s.oidcIdentities \cup {i} /\ s2.oidcIdentities[i] = u
          /\ \A j \in DOMAIN s.oidcIdentities : s2.oidcIdentities[j] = s.oidcIdentities[j]
        BY <1>4, <2>5 DEF Put
    <2>8. p2.user_oidc_identities
             = {[identity |-> j, user |-> s2.oidcIdentities[j]] : j \in DOMAIN s2.oidcIdentities}
        BY <2>6, <2>7 DEF UserTable
    <2>9. UserTable(s2.users, s2.usersByEmail, s2.oidcIdentities, p2.users, p2.user_oidc_identities)
        BY <2>5, <2>6, <2>7, <2>8 DEF UserTable
    <2> QED BY <1>2, <2>4, <2>6, <2>7, <2>9
<1> QED BY <1>3, <1>4

-----------------------------------------------------------------------------
(* Refresh tokens and personal access tokens.                              *)

TokenTable(cr, rows) ==
    /\ rows = Rows(cr)
    /\ \A h \in DOMAIN cr : Token(cr[h]) /\ cr[h].hash = h

\* Refresh tokens are found alike.
LEMMA TokenLookups ==
    ASSUME NEW s, NEW p, TokenTable(s.controlRefresh, p.control_refresh_tokens)
    PROVE  \A h : StoreControlRefreshToken(s, h) = PgControlRefreshToken(p, h)
BY RowAt DEF TokenTable, Rows, StoreControlRefreshToken, PgControlRefreshToken

\* CreateControlRefreshToken adds one under the next hash.
LEMMA TokenCreated ==
    ASSUME NEW s, NEW p, NEW k, DOMAIN s = StoreFields, DOMAIN p = PgFields,
           TokenTable(s.controlRefresh, p.control_refresh_tokens),
           Token(k), k.hash \notin DOMAIN s.controlRefresh, \E r \in p.users : r.id = k.user,
           NEW s2, s2 = StoreCreateControlRefreshToken(s, k).db,
           NEW p2, p2 = PgCreateControlRefreshToken(p, k).db
    PROVE  /\ StoreCreateControlRefreshToken(s, k).out = PgCreateControlRefreshToken(p, k).out
           /\ Keeps(s, s2, {"controlRefresh"}) /\ PgKeeps(p, p2, {"control_refresh_tokens"})
           /\ TokenTable(s2.controlRefresh, p2.control_refresh_tokens)
           /\ \A h \in DOMAIN s.controlRefresh : /\ h \in DOMAIN s2.controlRefresh
                                                 /\ s2.controlRefresh[h] = s.controlRefresh[h]
<1>1. Keeps(s, s2, {"controlRefresh"}) BY CallsKeep
<1>2. StoreCreateControlRefreshToken(s, k) = Done([s EXCEPT !.controlRefresh = Put(@, k.hash, k)])
    BY DEF StoreCreateControlRefreshToken
<1>3. PgCreateControlRefreshToken(p, k) = Done([p EXCEPT !.control_refresh_tokens = @ \cup {k}])
    BY DEF PgCreateControlRefreshToken
<1>4. StoreCreateControlRefreshToken(s, k).out = "ok" /\ PgCreateControlRefreshToken(p, k).out = "ok"
    BY <1>2, <1>3, Accepted
<1>5. s2.controlRefresh = Put(s.controlRefresh, k.hash, k) BY <1>2, Accepted DEF StoreFields
<1>6. PgKeeps(p, p2, {"control_refresh_tokens"}) /\ p2.control_refresh_tokens = p.control_refresh_tokens \cup {k}
    BY <1>3, Accepted DEF PgFields, PgKeeps
<1>7. /\ DOMAIN s2.controlRefresh = DOMAIN s.controlRefresh \cup {k.hash}
      /\ s2.controlRefresh[k.hash] = k
      /\ \A h \in DOMAIN s.controlRefresh : s2.controlRefresh[h] = s.controlRefresh[h]
    BY <1>5 DEF Put
<1>8. p2.control_refresh_tokens = Rows(s2.controlRefresh) BY <1>5, <1>6, RowsOfNew DEF TokenTable
<1>9. TokenTable(s2.controlRefresh, p2.control_refresh_tokens) BY <1>7, <1>8 DEF TokenTable
<1> QED BY <1>1, <1>4, <1>6, <1>7, <1>9

Voided(k) == [k EXCEPT !.revoked = TRUE]

\* Rotating or revoking a refresh token changes the same row of both.
LEMMA TokenUpdated ==
    ASSUME NEW s, NEW p, NEW k, DOMAIN s = StoreFields, DOMAIN p = PgFields,
           TokenTable(s.controlRefresh, p.control_refresh_tokens),
           k.hash \in DOMAIN s.controlRefresh, k = Voided(s.controlRefresh[k.hash]),
           NEW s2, s2 = StoreUpdateControlRefreshToken(s, k).db,
           NEW p2, p2 = PgUpdateControlRefreshToken(p, k).db
    PROVE  /\ StoreUpdateControlRefreshToken(s, k).out = PgUpdateControlRefreshToken(p, k).out
           /\ Keeps(s, s2, {"controlRefresh"}) /\ PgKeeps(p, p2, {"control_refresh_tokens"})
           /\ TokenTable(s2.controlRefresh, p2.control_refresh_tokens)
           /\ \A h \in DOMAIN s.controlRefresh : /\ h \in DOMAIN s2.controlRefresh
                                                 /\ Voided(s2.controlRefresh[h]) = Voided(s.controlRefresh[h])
<1>1. Keeps(s, s2, {"controlRefresh"}) BY CallsKeep
<1>2. PICK c : c = s.controlRefresh OBVIOUS
<1>3. PICK h : h = k.hash OBVIOUS
<1>4. h \in DOMAIN c /\ c[h].hash = h /\ Token(c[h]) /\ k = Voided(c[h]) BY <1>2, <1>3 DEF TokenTable
<1>5. k.revoked = TRUE /\ Token(k) BY <1>4 DEF Token, Voided
<1>6. PICK rows : rows = {r \in p.control_refresh_tokens : r.hash = k.hash /\ ~r.revoked} OBVIOUS
<1>7. \A r \in p.control_refresh_tokens : r.hash = h => r = c[h] BY <1>2 DEF TokenTable, Rows
<1>8. c[h] \in p.control_refresh_tokens BY <1>2, <1>4 DEF TokenTable, Rows
<1>9. CASE c[h].revoked
    BY <1>2, <1>3, <1>5, <1>9, <1>6, <1>7, <1>1 DEF StoreUpdateControlRefreshToken,
       PgUpdateControlRefreshToken, Refused, PgKeeps
<1>10. CASE ~c[h].revoked
    <2>1. StoreUpdateControlRefreshToken(s, k) = Done([s EXCEPT !.controlRefresh = Put(@, k.hash, k)])
        BY <1>2, <1>3, <1>4, <1>10 DEF StoreUpdateControlRefreshToken
    <2>2. rows = {c[h]} BY <1>3, <1>4, <1>6, <1>7, <1>8, <1>10
    <2>3. {[r EXCEPT !.revoked = k.revoked] : r \in rows} = {k} BY <1>4, <1>5, <2>2 DEF Voided
    <2>4. PgUpdateControlRefreshToken(p, k)
             = Done([p EXCEPT !.control_refresh_tokens = Replace(@, rows, {k})])
        BY <1>6, <2>2, <2>3 DEF PgUpdateControlRefreshToken
    <2>5. StoreUpdateControlRefreshToken(s, k).out = "ok" /\ PgUpdateControlRefreshToken(p, k).out = "ok"
        BY <2>1, <2>4, Accepted
    <2>6. s2.controlRefresh = Put(c, h, k) BY <1>2, <1>3, <2>1, Accepted DEF StoreFields
    <2>7. /\ PgKeeps(p, p2, {"control_refresh_tokens"})
          /\ p2.control_refresh_tokens = Replace(p.control_refresh_tokens, {c[h]}, {k})
        BY <2>2, <2>4, Accepted DEF PgFields, PgKeeps
    <2>8. /\ DOMAIN s2.controlRefresh = DOMAIN c /\ s2.controlRefresh[h] = k
          /\ \A j \in DOMAIN c \ {h} : s2.controlRefresh[j] = c[j]
        BY <1>4, <2>6 DEF Put
    <2>9. \A j \in DOMAIN c \ {h} : c[j] # c[h] BY <1>2, <1>4 DEF TokenTable
    <2>10. p2.control_refresh_tokens = Rows(s2.controlRefresh)
        BY <1>2, <1>4, <2>6, <2>7, <2>9, RowsOfChanged DEF TokenTable
    <2>11. TokenTable(s2.controlRefresh, p2.control_refresh_tokens)
        BY <1>2, <1>3, <1>5, <2>8, <2>10 DEF TokenTable
    <2>12. Voided(k) = Voided(c[h]) BY <1>4 DEF Voided
    <2> QED BY <1>1, <1>2, <2>5, <2>7, <2>8, <2>11, <2>12
<1> QED BY <1>9, <1>10, <1>5, <1>4 DEF Token

PatFields == {"id", "hash", "user", "org", "scopes", "expires", "used", "revoked"}
PatTable(pats, byHash, rows) ==
    /\ rows = Rows(pats)
    /\ \A id \in DOMAIN pats : /\ pats[id].id = id /\ DOMAIN pats[id] = PatFields
                               /\ pats[id].hash \in DOMAIN byHash /\ byHash[pats[id].hash] = id
    /\ \A h \in DOMAIN byHash : byHash[h] \in DOMAIN pats /\ pats[byHash[h]].hash = h

\* Personal access tokens are found and listed alike.
LEMMA PatLookups ==
    ASSUME NEW s, NEW p, PatTable(s.pats, s.patsByHash, p.personal_access_tokens)
    PROVE  /\ \A h : StorePersonalAccessTokenByHash(s, h) = PgPersonalAccessTokenByHash(p, h)
           /\ \A u : StorePersonalAccessTokensByUser(s, u) = PgPersonalAccessTokensByUser(p, u)
<1>1. ASSUME NEW h PROVE StorePersonalAccessTokenByHash(s, h) = PgPersonalAccessTokenByHash(p, h)
    <2>1. PICK rows : rows = {r \in p.personal_access_tokens : r.hash = h} OBVIOUS
    <2>2. CASE h \in DOMAIN s.patsByHash
        <3>1. PICK n : n = s.patsByHash[h] OBVIOUS
        <3>2. n \in DOMAIN s.pats /\ s.pats[n].hash = h BY <2>2, <3>1 DEF PatTable
        <3>3. s.pats[n] \in rows BY <2>1, <3>2 DEF PatTable, Rows
        <3>4. \A r \in rows : r = s.pats[n] BY <2>1, <3>1, <3>2 DEF PatTable, Rows
        <3>5. rows = {s.pats[n]} BY <3>3, <3>4
        <3>6. One(rows) = s.pats[n] BY <3>5, OneRow
        <3> QED BY <2>1, <2>2, <3>1, <3>2, <3>6
                DEF StorePersonalAccessTokenByHash, PgPersonalAccessTokenByHash, At
    <2>3. CASE h \notin DOMAIN s.patsByHash
        <3>1. rows = {} BY <2>1, <2>3 DEF PatTable, Rows
        <3>2. One(rows) = NotFound BY <3>1, OneRow
        <3> QED BY <2>1, <2>3, <3>2 DEF StorePersonalAccessTokenByHash, PgPersonalAccessTokenByHash
    <2> QED BY <2>2, <2>3
<1>2. ASSUME NEW u PROVE StorePersonalAccessTokensByUser(s, u) = PgPersonalAccessTokensByUser(p, u)
    BY DEF StorePersonalAccessTokensByUser, PgPersonalAccessTokensByUser, PatTable, Rows
<1> QED BY <1>1, <1>2

\* CreatePersonalAccessToken adds one, with its index by hash.
LEMMA PatCreated ==
    ASSUME NEW s, NEW p, NEW k, DOMAIN s = StoreFields, DOMAIN p = PgFields,
           PatTable(s.pats, s.patsByHash, p.personal_access_tokens),
           DOMAIN k = PatFields, \E r \in p.users : r.id = k.user,
           NEW s2, s2 = StoreCreatePersonalAccessToken(s, k).db,
           NEW p2, p2 = PgCreatePersonalAccessToken(p, k).db
    PROVE  /\ StoreCreatePersonalAccessToken(s, k).out = PgCreatePersonalAccessToken(p, k).out
           /\ Keeps(s, s2, {"pats", "patsByHash"}) /\ PgKeeps(p, p2, {"personal_access_tokens"})
           /\ PatTable(s2.pats, s2.patsByHash, p2.personal_access_tokens)
           /\ \A id \in DOMAIN s.pats : id \in DOMAIN s2.pats /\ s2.pats[id].hash = s.pats[id].hash
<1>1. Keeps(s, s2, {"pats", "patsByHash"}) BY CallsKeep
<1>2. (k.id \in DOMAIN s.pats \/ k.hash \in DOMAIN s.patsByHash)
          <=> \E r \in p.personal_access_tokens : r.id = k.id \/ r.hash = k.hash
    BY DEF PatTable, Rows
<1>3. CASE k.id \in DOMAIN s.pats \/ k.hash \in DOMAIN s.patsByHash
    BY <1>3, <1>2, <1>1 DEF StoreCreatePersonalAccessToken, PgCreatePersonalAccessToken, Refused,
       PgKeeps
<1>4. CASE ~(k.id \in DOMAIN s.pats \/ k.hash \in DOMAIN s.patsByHash)
    <2>1. PICK w : w = [s EXCEPT !.pats = Put(s.pats, k.id, k), !.patsByHash = Put(s.patsByHash, k.hash, k.id)]
        OBVIOUS
    <2>2. StoreCreatePersonalAccessToken(s, k) = Done(w) BY <1>4, <2>1 DEF StoreCreatePersonalAccessToken
    <2>3. PgCreatePersonalAccessToken(p, k) = Done([p EXCEPT !.personal_access_tokens = @ \cup {k}])
        BY <1>2, <1>4 DEF PgCreatePersonalAccessToken
    <2>4. StoreCreatePersonalAccessToken(s, k).out = "ok" /\ PgCreatePersonalAccessToken(p, k).out = "ok"
        BY <2>2, <2>3, Accepted
    <2>5. s2 = w BY <2>2, Accepted
    <2>6. s2.pats = Put(s.pats, k.id, k) /\ s2.patsByHash = Put(s.patsByHash, k.hash, k.id)
        BY <2>1, <2>5 DEF StoreFields
    <2>7. /\ PgKeeps(p, p2, {"personal_access_tokens"})
          /\ p2.personal_access_tokens = p.personal_access_tokens \cup {k}
        BY <2>3, Accepted DEF PgFields, PgKeeps
    <2>8. /\ DOMAIN s2.pats = DOMAIN s.pats \cup {k.id} /\ s2.pats[k.id] = k
          /\ \A id \in DOMAIN s.pats : s2.pats[id] = s.pats[id]
          /\ DOMAIN s2.patsByHash = DOMAIN s.patsByHash \cup {k.hash} /\ s2.patsByHash[k.hash] = k.id
          /\ \A h \in DOMAIN s.patsByHash : s2.patsByHash[h] = s.patsByHash[h]
        BY <1>4, <2>6 DEF Put
    <2>9. p2.personal_access_tokens = Rows(s2.pats) BY <1>4, <2>6, <2>7, RowsOfNew DEF PatTable
    <2>10. PatTable(s2.pats, s2.patsByHash, p2.personal_access_tokens)
        BY <1>4, <2>8, <2>9 DEF PatTable
    <2> QED BY <1>1, <2>4, <2>7, <2>8, <2>10
<1> QED BY <1>3, <1>4

\* UpdatePersonalAccessToken writes a whole token in the store and the same columns of its row.
LEMMA PatUpdated ==
    ASSUME NEW s, NEW p, NEW k, DOMAIN s = StoreFields, DOMAIN p = PgFields,
           PatTable(s.pats, s.patsByHash, p.personal_access_tokens),
           DOMAIN k = PatFields, k.id \in DOMAIN s.pats, s.pats[k.id].hash = k.hash,
           NEW s2, s2 = StoreUpdatePersonalAccessToken(s, k).db,
           NEW p2, p2 = PgUpdatePersonalAccessToken(p, k).db
    PROVE  /\ StoreUpdatePersonalAccessToken(s, k).out = PgUpdatePersonalAccessToken(p, k).out
           /\ Keeps(s, s2, {"pats", "patsByHash"}) /\ PgKeeps(p, p2, {"personal_access_tokens"})
           /\ PatTable(s2.pats, s2.patsByHash, p2.personal_access_tokens)
           /\ \A id \in DOMAIN s.pats : id \in DOMAIN s2.pats /\ s2.pats[id].hash = s.pats[id].hash
<1>1. Keeps(s, s2, {"pats", "patsByHash"}) BY CallsKeep
<1>2. PICK rows : rows = {r \in p.personal_access_tokens : r.id = k.id} OBVIOUS
<1>3. rows = {s.pats[k.id]} BY <1>2 DEF PatTable, Rows
<1>4. PICK b : b = Put(Drop(s.patsByHash, k.hash), k.hash, k.id) OBVIOUS
<1>5. PICK w : w = [s EXCEPT !.pats = Put(s.pats, k.id, k), !.patsByHash = b] OBVIOUS
<1>6. StoreUpdatePersonalAccessToken(s, k) = Done(w) BY <1>4, <1>5 DEF StoreUpdatePersonalAccessToken
<1>7. PgUpdatePersonalAccessToken(p, k) = Done([p EXCEPT !.personal_access_tokens = Replace(@, rows, {k})])
    BY <1>2, <1>3 DEF PgUpdatePersonalAccessToken
<1>8. StoreUpdatePersonalAccessToken(s, k).out = "ok" /\ PgUpdatePersonalAccessToken(p, k).out = "ok"
    BY <1>6, <1>7, Accepted
<1>9. s2.pats = Put(s.pats, k.id, k) /\ s2.patsByHash = b
    <2>1. s2 = w BY <1>6, Accepted
    <2> QED BY <1>5, <2>1 DEF StoreFields
<1>10. /\ PgKeeps(p, p2, {"personal_access_tokens"})
       /\ p2.personal_access_tokens = Replace(p.personal_access_tokens, {s.pats[k.id]}, {k})
    BY <1>3, <1>7, Accepted DEF PgFields, PgKeeps
<1>11. /\ DOMAIN s2.pats = DOMAIN s.pats /\ s2.pats[k.id] = k
       /\ \A id \in DOMAIN s.pats \ {k.id} : s2.pats[id] = s.pats[id]
    BY <1>9 DEF Put
<1>12. k.hash \in DOMAIN s.patsByHash /\ s.patsByHash[k.hash] = k.id BY DEF PatTable
<1>13. DOMAIN b = DOMAIN s.patsByHash /\ \A h \in DOMAIN b : b[h] = s.patsByHash[h]
    BY <1>4, <1>12 DEF Put, Drop
<1>14. \A id \in DOMAIN s.pats \ {k.id} : s.pats[id] # s.pats[k.id] BY DEF PatTable
<1>15. p2.personal_access_tokens = Rows(s2.pats)
    BY <1>9, <1>10, <1>14, RowsOfChanged DEF PatTable
<1>16. PatTable(s2.pats, s2.patsByHash, p2.personal_access_tokens)
    BY <1>9, <1>11, <1>12, <1>13, <1>15 DEF PatTable
<1> QED BY <1>1, <1>8, <1>10, <1>11, <1>16

-----------------------------------------------------------------------------
(* Organizations, members and invitations.                                 *)

OrgTable(orgs, rows) == rows = Rows(orgs) /\ \A id \in DOMAIN orgs : orgs[id].id = id

\* Organizations are found and listed alike.
LEMMA OrgLookups ==
    ASSUME NEW s, NEW p, OrgTable(s.organizations, p.organizations)
    PROVE  /\ StoreListOrganizations(s) = PgListOrganizations(p)
           /\ \A id : StoreGetOrganization(s, id) = PgGetOrganization(p, id)
BY RowAt DEF OrgTable, Rows, StoreGetOrganization, PgGetOrganization, StoreListOrganizations,
   PgListOrganizations

\* CreateOrganization adds one to both.
LEMMA OrgCreated ==
    ASSUME NEW s, NEW p, NEW o, DOMAIN s = StoreFields, DOMAIN p = PgFields,
           OrgTable(s.organizations, p.organizations),
           NEW s2, s2 = StoreCreateOrganization(s, o).db, NEW p2, p2 = PgCreateOrganization(p, o).db
    PROVE  /\ StoreCreateOrganization(s, o).out = PgCreateOrganization(p, o).out
           /\ Keeps(s, s2, {"organizations"}) /\ PgKeeps(p, p2, {"organizations"})
           /\ OrgTable(s2.organizations, p2.organizations)
           /\ DOMAIN s2.organizations = DOMAIN s.organizations \cup {o.id}
           /\ \A id \in DOMAIN s.organizations : s2.organizations[id] = s.organizations[id]
<1>1. Keeps(s, s2, {"organizations"}) BY CallsKeep
<1>2. o.id \in DOMAIN s.organizations <=> \E r \in p.organizations : r.id = o.id
    BY DEF OrgTable, Rows
<1>3. CASE o.id \in DOMAIN s.organizations
    BY <1>3, <1>2, <1>1 DEF StoreCreateOrganization, PgCreateOrganization, Refused, PgKeeps
<1>4. CASE o.id \notin DOMAIN s.organizations
    <2>1. StoreCreateOrganization(s, o) = Done([s EXCEPT !.organizations = Put(@, o.id, o)])
        BY <1>4 DEF StoreCreateOrganization
    <2>2. PgCreateOrganization(p, o) = Done([p EXCEPT !.organizations = @ \cup {o}])
        BY <1>2, <1>4 DEF PgCreateOrganization
    <2>3. StoreCreateOrganization(s, o).out = "ok" /\ PgCreateOrganization(p, o).out = "ok"
        BY <2>1, <2>2, Accepted
    <2>4. s2.organizations = Put(s.organizations, o.id, o) BY <2>1, Accepted DEF StoreFields
    <2>5. PgKeeps(p, p2, {"organizations"}) /\ p2.organizations = p.organizations \cup {o}
        BY <2>2, Accepted DEF PgFields, PgKeeps
    <2>6. /\ DOMAIN s2.organizations = DOMAIN s.organizations \cup {o.id} /\ s2.organizations[o.id] = o
          /\ \A id \in DOMAIN s.organizations : s2.organizations[id] = s.organizations[id]
        BY <1>4, <2>4 DEF Put
    <2>7. p2.organizations = Rows(s2.organizations) BY <1>4, <2>4, <2>5, RowsOfNew DEF OrgTable
    <2>8. OrgTable(s2.organizations, p2.organizations) BY <2>6, <2>7 DEF OrgTable
    <2> QED BY <1>1, <2>3, <2>5, <2>6, <2>8
<1> QED BY <1>3, <1>4

\* A membership is of a user in an organization, both known.
MemberTable(mem, rows, users, orgs) ==
    /\ rows = Rows(mem)
    /\ \A k \in DOMAIN mem : k = <<mem[k].user, mem[k].org>> /\ mem[k].user \in users /\ mem[k].org \in orgs
    /\ IsFiniteSet(DOMAIN mem)

\* Memberships are found, listed and counted alike, owners too.
LEMMA MemberLookups ==
    ASSUME NEW s, NEW p, OrgTable(s.organizations, p.organizations),
           MemberTable(s.memberships, p.user_organizations, DOMAIN s.users, DOMAIN s.organizations)
    PROVE  /\ \A u, o : /\ StoreOrganizationMembership(s, u, o) = PgOrganizationMembership(p, u, o)
                        /\ StoreUserBelongsToOrganization(s, u, o) = PgUserBelongsToOrganization(p, u, o)
           /\ \A o : /\ StoreListOrganizationMembers(s, o) = PgListOrganizationMembers(p, o)
                     /\ StoreOwnerCount(s, o) = PgOwnerCount(p, o)
           /\ \A u : /\ StoreCountOwnedOrganizationsByUser(s, u) = PgCountOwnedOrganizationsByUser(p, u)
                     /\ StoreListOrganizationsForUser(s, u) = PgListOrganizationsForUser(p, u)
<1> DEFINE mem == s.memberships
<1>1. /\ \A k \in DOMAIN mem : mem[k] \in p.user_organizations /\ k[1] = mem[k].user /\ k[2] = mem[k].org
      /\ \A r \in p.user_organizations : \E k \in DOMAIN mem : r = mem[k]
    BY DEF MemberTable, Rows
<1>2. \A j, k \in DOMAIN mem : mem[j] = mem[k] => j = k BY DEF MemberTable
<1>3. ASSUME NEW u, NEW o PROVE StoreOrganizationMembership(s, u, o) = PgOrganizationMembership(p, u, o)
    BY RowAt DEF MemberTable, Rows, StoreOrganizationMembership, PgOrganizationMembership
<1>4. ASSUME NEW u, NEW o PROVE StoreUserBelongsToOrganization(s, u, o) = PgUserBelongsToOrganization(p, u, o)
    <2>1. <<u, o>> \in DOMAIN mem => \E r \in p.user_organizations : r.user = u /\ r.org = o
        BY <1>1
    <2>2. ASSUME NEW r \in p.user_organizations, r.user = u, r.org = o PROVE <<u, o>> \in DOMAIN mem
        BY <2>2 DEF MemberTable, Rows
    <2>3. (<<u, o>> \in DOMAIN mem) <=> (\E r \in p.user_organizations : r.user = u /\ r.org = o)
        BY <2>1, <2>2
    <2>4. (<<u, o>> \in DOMAIN mem) = (\E r \in p.user_organizations : r.user = u /\ r.org = o)
        <3>1. \A x, y \in BOOLEAN : (x <=> y) => x = y OBVIOUS
        <3>2. (<<u, o>> \in DOMAIN mem) \in BOOLEAN OBVIOUS
        <3>3. (\E r \in p.user_organizations : r.user = u /\ r.org = o) \in BOOLEAN OBVIOUS
        <3> QED BY <2>3, <3>1, <3>2, <3>3
    <2> QED BY <2>4, Zenon DEF StoreUserBelongsToOrganization, PgUserBelongsToOrganization
<1>5. ASSUME NEW o PROVE StoreListOrganizationMembers(s, o) = PgListOrganizationMembers(p, o)
    BY <1>1 DEF StoreListOrganizationMembers, PgListOrganizationMembers
<1>6. ASSUME NEW D, D \subseteq DOMAIN mem PROVE Cardinality({mem[k] : k \in D}) = Cardinality(D)
    <2>1. IsFiniteSet(D) BY <1>6, FS_Subset DEF MemberTable
    <2> QED BY <1>2, <1>6, <2>1, RowsCounted
<1>7. ASSUME NEW o PROVE StoreOwnerCount(s, o) = PgOwnerCount(p, o)
    BY <1>1, <1>6 DEF StoreOwnerCount, PgOwnerCount
<1>8. ASSUME NEW u PROVE StoreCountOwnedOrganizationsByUser(s, u) = PgCountOwnedOrganizationsByUser(p, u)
    BY <1>1, <1>6 DEF StoreCountOwnedOrganizationsByUser, PgCountOwnedOrganizationsByUser
<1>9. ASSUME NEW u PROVE StoreListOrganizationsForUser(s, u) = PgListOrganizationsForUser(p, u)
    <2>1. PICK D : D = {m \in DOMAIN mem : m[1] = u} OBVIOUS
    <2>2. PICK J : J = {y \in p.organizations \X p.user_organizations : y[2].user = u /\ y[2].org = y[1].id}
        OBVIOUS
    <2>3. \A k \in D : <<s.organizations[k[2]], mem[k]>> \in J /\ s.organizations[k[2]].id = k[2]
        BY <1>1, <2>1, <2>2 DEF MemberTable, OrgTable, Rows
    <2>4. \A y \in J : \E k \in D : y[2] = mem[k] /\ y[1] = s.organizations[k[2]]
        BY <2>2, <1>1, <2>1 DEF OrgTable, Rows
    <2>5. {[org |-> s.organizations[k[2]], role |-> mem[k].role] : k \in D}
             = {[org |-> y[1], role |-> y[2].role] : y \in J}
        <3>1. ASSUME NEW k \in D
              PROVE  [org |-> s.organizations[k[2]], role |-> mem[k].role]
                        \in {[org |-> y[1], role |-> y[2].role] : y \in J}
            <4>1. PICK y \in J : y[1] = s.organizations[k[2]] /\ y[2] = mem[k] BY <2>3
            <4> QED BY <4>1
        <3>2. ASSUME NEW y \in J
              PROVE  [org |-> y[1], role |-> y[2].role]
                        \in {[org |-> s.organizations[k[2]], role |-> mem[k].role] : k \in D}
            BY <2>4
        <3> QED BY <3>1, <3>2, Zenon
    <2> QED BY <2>1, <2>2, <2>5 DEF StoreListOrganizationsForUser, PgListOrganizationsForUser
<1> QED BY <1>3, <1>4, <1>5, <1>7, <1>8, <1>9

\* UpsertOrganizationMember writes one membership of both.
LEMMA MemberUpserted ==
    ASSUME NEW s, NEW p, NEW m, DOMAIN s = StoreFields, DOMAIN p = PgFields,
           MemberTable(s.memberships, p.user_organizations, DOMAIN s.users, DOMAIN s.organizations),
           m.user \in DOMAIN s.users, m.org \in DOMAIN s.organizations,
           \E r \in p.users : r.id = m.user, \E r \in p.organizations : r.id = m.org,
           NEW s2, s2 = StoreUpsertOrganizationMembership(s, m).db,
           NEW p2, p2 = PgUpsertOrganizationMembership(p, m).db
    PROVE  /\ StoreUpsertOrganizationMembership(s, m).out = PgUpsertOrganizationMembership(p, m).out
           /\ Keeps(s, s2, {"memberships"}) /\ PgKeeps(p, p2, {"user_organizations"})
           /\ MemberTable(s2.memberships, p2.user_organizations, DOMAIN s.users, DOMAIN s.organizations)
<1>1. Keeps(s, s2, {"memberships"}) BY CallsKeep
<1>2. PICK mem : mem = s.memberships OBVIOUS
<1>3. PICK k : k = <<m.user, m.org>> OBVIOUS
<1>4. StoreUpsertOrganizationMembership(s, m) = Done([s EXCEPT !.memberships = Put(@, k, m)])
    BY <1>3 DEF StoreUpsertOrganizationMembership
<1>5. PICK rows : rows = {r \in p.user_organizations : r.user = m.user /\ r.org = m.org} OBVIOUS
<1>6. PgUpsertOrganizationMembership(p, m) = Done([p EXCEPT !.user_organizations = Replace(@, rows, {m})])
    BY <1>5 DEF PgUpsertOrganizationMembership
<1>7. StoreUpsertOrganizationMembership(s, m).out = "ok" /\ PgUpsertOrganizationMembership(p, m).out = "ok"
    BY <1>4, <1>6, Accepted
<1>8. s2.memberships = Put(mem, k, m) BY <1>2, <1>4, Accepted DEF StoreFields
<1>9. PgKeeps(p, p2, {"user_organizations"}) /\ p2.user_organizations = Replace(p.user_organizations, rows, {m})
    BY <1>6, Accepted DEF PgFields, PgKeeps
<1>10. /\ DOMAIN s2.memberships = DOMAIN mem \cup {k} /\ s2.memberships[k] = m
       /\ \A j \in DOMAIN mem \ {k} : s2.memberships[j] = mem[j]
    BY <1>8 DEF Put
<1>11. \A j \in DOMAIN mem : mem[j] \in rows <=> j = k BY <1>2, <1>3, <1>5 DEF MemberTable, Rows
<1>12. p2.user_organizations = Rows(s2.memberships)
    <2>1. CASE k \in DOMAIN mem
        <3>1. rows = {mem[k]} BY <1>2, <1>5, <1>11, <2>1 DEF MemberTable, Rows
        <3>2. \A j \in DOMAIN mem \ {k} : mem[j] # mem[k] BY <1>11, <2>1
        <3> QED BY <1>2, <1>8, <1>9, <2>1, <3>1, <3>2, RowsOfChanged DEF MemberTable
    <2>2. CASE k \notin DOMAIN mem
        <3>1. rows = {} BY <1>2, <1>5, <1>11, <2>2 DEF MemberTable, Rows
        <3>2. p2.user_organizations = p.user_organizations \cup {m} BY <1>9, <3>1 DEF Replace
        <3> QED BY <1>2, <1>8, <2>2, <3>2, RowsOfNew DEF MemberTable
    <2> QED BY <2>1, <2>2
<1>13. IsFiniteSet(DOMAIN s2.memberships) BY <1>2, FS_AddElement, <1>10 DEF MemberTable
<1>14. MemberTable(s2.memberships, p2.user_organizations, DOMAIN s.users, DOMAIN s.organizations)
    BY <1>2, <1>3, <1>10, <1>12, <1>13 DEF MemberTable
<1> QED BY <1>1, <1>7, <1>9, <1>14

\* RemoveOrganizationMember deletes it from both.
LEMMA MemberDeleted ==
    ASSUME NEW s, NEW p, NEW u, NEW o, DOMAIN s = StoreFields, DOMAIN p = PgFields,
           MemberTable(s.memberships, p.user_organizations, DOMAIN s.users, DOMAIN s.organizations),
           NEW s2, s2 = StoreDeleteOrganizationMembership(s, u, o).db,
           NEW p2, p2 = PgDeleteOrganizationMembership(p, u, o).db
    PROVE  /\ StoreDeleteOrganizationMembership(s, u, o).out = PgDeleteOrganizationMembership(p, u, o).out
           /\ Keeps(s, s2, {"memberships"}) /\ PgKeeps(p, p2, {"user_organizations"})
           /\ MemberTable(s2.memberships, p2.user_organizations, DOMAIN s.users, DOMAIN s.organizations)
<1>1. Keeps(s, s2, {"memberships"}) BY CallsKeep
<1>2. PICK mem : mem = s.memberships OBVIOUS
<1>3. PICK k : k = <<u, o>> OBVIOUS
<1>4. PICK rows : rows = {r \in p.user_organizations : r.user = u /\ r.org = o} OBVIOUS
<1>5. \A j \in DOMAIN mem : mem[j] \in rows <=> j = k BY <1>2, <1>3, <1>4 DEF MemberTable, Rows
<1>6. CASE k \notin DOMAIN mem
    <2>1. rows = {} BY <1>2, <1>4, <1>5, <1>6 DEF MemberTable, Rows
    <2>2. StoreDeleteOrganizationMembership(s, u, o) = Refused(s, "membership not found")
        BY <1>2, <1>3, <1>6 DEF StoreDeleteOrganizationMembership
    <2>3. PgDeleteOrganizationMembership(p, u, o) = Refused(p, "membership not found")
        BY <1>4, <2>1 DEF PgDeleteOrganizationMembership
    <2>4. Refused(s, "membership not found").db = s /\ Refused(s, "membership not found").out = "membership not found"
        BY DEF Refused
    <2>5. Refused(p, "membership not found").db = p /\ Refused(p, "membership not found").out = "membership not found"
        BY DEF Refused
    <2>6. /\ s2 = s /\ p2 = p
          /\ StoreDeleteOrganizationMembership(s, u, o).out = PgDeleteOrganizationMembership(p, u, o).out
        BY <2>2, <2>3, <2>4, <2>5
    <2>7. PgKeeps(p, p2, {"user_organizations"}) BY <2>6 DEF PgKeeps
    <2> QED BY <1>1, <2>6, <2>7
<1>7. CASE k \in DOMAIN mem
    <2>1. rows = {mem[k]} BY <1>2, <1>4, <1>5, <1>7 DEF MemberTable, Rows
    <2>2. StoreDeleteOrganizationMembership(s, u, o) = Done([s EXCEPT !.memberships = Drop(@, k)])
        BY <1>2, <1>3, <1>7 DEF StoreDeleteOrganizationMembership
    <2>3. PgDeleteOrganizationMembership(p, u, o) = Done([p EXCEPT !.user_organizations = @ \ rows])
        BY <1>4, <2>1 DEF PgDeleteOrganizationMembership
    <2>4. /\ StoreDeleteOrganizationMembership(s, u, o).out = "ok"
          /\ PgDeleteOrganizationMembership(p, u, o).out = "ok"
        BY <2>2, <2>3, Accepted
    <2>5. s2.memberships = Drop(mem, k) BY <1>2, <2>2, Accepted DEF StoreFields
    <2>6. PgKeeps(p, p2, {"user_organizations"}) /\ p2.user_organizations = p.user_organizations \ {mem[k]}
        BY <2>1, <2>3, Accepted DEF PgFields, PgKeeps
    <2>7. /\ DOMAIN s2.memberships = DOMAIN mem \ {k}
          /\ \A j \in DOMAIN mem \ {k} : s2.memberships[j] = mem[j]
        BY <2>5 DEF Drop
    <2>8. \A j \in DOMAIN mem \ {k} : mem[j] # mem[k] BY <1>5, <1>7
    <2>9. p2.user_organizations = Rows(s2.memberships)
        BY <1>2, <1>7, <2>5, <2>6, <2>8, RowsOfRest DEF MemberTable
    <2>10. IsFiniteSet(DOMAIN s2.memberships)
        <3>1. IsFiniteSet(DOMAIN mem) BY <1>2 DEF MemberTable
        <3>2. IsFiniteSet(DOMAIN mem \ {k}) BY <3>1, FS_RemoveElement, Zenon
        <3> QED BY <2>7, <3>2
    <2>11. MemberTable(s2.memberships, p2.user_organizations, DOMAIN s.users, DOMAIN s.organizations)
        BY <1>2, <2>7, <2>9, <2>10 DEF MemberTable
    <2> QED BY <1>1, <2>4, <2>6, <2>11
<1> QED BY <1>6, <1>7

InviteFields == {"id", "hash", "org", "email", "role", "inviter", "expires", "accepted", "revoked"}
InviteRow(v) == DOMAIN v = InviteFields /\ v = [f \in InviteFields |-> v[f]]

\* An invitation is to an organization and by a user, both known.
InviteTable(invites, rows, users, orgs) ==
    /\ rows = Rows(invites)
    /\ \A h \in DOMAIN invites : /\ invites[h].hash = h /\ InviteRow(invites[h])
                                 /\ invites[h].org \in orgs /\ invites[h].inviter \in users

\* Invitations are found alike, by the hash of their token and by id, and listed alike.
LEMMA InviteLookups ==
    ASSUME NEW s, NEW p, OrgTable(s.organizations, p.organizations),
           UserTable(s.users, s.usersByEmail, s.oidcIdentities, p.users, p.user_oidc_identities),
           InviteTable(s.invites, p.organization_invites, DOMAIN s.users, DOMAIN s.organizations)
    PROVE  /\ \A h : StoreOrganizationInviteByTokenHash(s, h) = PgOrganizationInviteByTokenHash(p, h)
           /\ \A o, id : StoreOrganizationInviteByID(s, o, id) = PgOrganizationInviteByID(p, o, id)
           /\ \A o : StoreOrganizationInvitesByOrg(s, o) = PgOrganizationInvitesByOrg(p, o)
<1> DEFINE invites == s.invites
<1>1. \A r \in p.organization_invites : (\E o \in p.organizations : o.id = r.org) /\ (\E u \in p.users : u.id = r.inviter)
    BY DEF InviteTable, Rows, OrgTable, UserTable
<1>2. ASSUME NEW h PROVE StoreOrganizationInviteByTokenHash(s, h) = PgOrganizationInviteByTokenHash(p, h)
    BY <1>1, RowAt DEF InviteTable, Rows, StoreOrganizationInviteByTokenHash,
       PgOrganizationInviteByTokenHash
<1>3. ASSUME NEW o, NEW id PROVE StoreOrganizationInviteByID(s, o, id) = PgOrganizationInviteByID(p, o, id)
    <2>1. {invites[h] : h \in {x \in DOMAIN invites : invites[x].org = o /\ invites[x].id = id}}
             = {r \in p.organization_invites : r.org = o /\ r.id = id
                  /\ (\E g \in p.organizations : g.id = r.org) /\ (\E u \in p.users : u.id = r.inviter)}
        BY <1>1 DEF InviteTable, Rows
    <2> QED BY <2>1 DEF StoreOrganizationInviteByID, PgOrganizationInviteByID
<1>4. ASSUME NEW o PROVE StoreOrganizationInvitesByOrg(s, o) = PgOrganizationInvitesByOrg(p, o)
    BY <1>1 DEF InviteTable, Rows, StoreOrganizationInvitesByOrg, PgOrganizationInvitesByOrg
<1> QED BY <1>2, <1>3, <1>4

\* CreateOrganizationInvite adds one to both.
LEMMA InviteCreated ==
    ASSUME NEW s, NEW p, NEW v, DOMAIN s = StoreFields, DOMAIN p = PgFields,
           InviteTable(s.invites, p.organization_invites, DOMAIN s.users, DOMAIN s.organizations),
           InviteRow(v), v.hash \notin DOMAIN s.invites,
           v.org \in DOMAIN s.organizations, v.inviter \in DOMAIN s.users,
           \E r \in p.organizations : r.id = v.org,
           NEW s2, s2 = StoreCreateOrganizationInvite(s, v).db,
           NEW p2, p2 = PgCreateOrganizationInvite(p, v).db
    PROVE  /\ StoreCreateOrganizationInvite(s, v).out = PgCreateOrganizationInvite(p, v).out
           /\ Keeps(s, s2, {"invites"}) /\ PgKeeps(p, p2, {"organization_invites"})
           /\ InviteTable(s2.invites, p2.organization_invites, DOMAIN s.users, DOMAIN s.organizations)
           /\ DOMAIN s2.invites = DOMAIN s.invites \cup {v.hash}
           /\ \A h \in DOMAIN s.invites : s2.invites[h] = s.invites[h]
<1>1. Keeps(s, s2, {"invites"}) BY CallsKeep
<1>2. StoreCreateOrganizationInvite(s, v) = Done([s EXCEPT !.invites = Put(@, v.hash, v)])
    BY DEF StoreCreateOrganizationInvite
<1>3. PgCreateOrganizationInvite(p, v) = Done([p EXCEPT !.organization_invites = @ \cup {v}])
    BY DEF PgCreateOrganizationInvite
<1>4. StoreCreateOrganizationInvite(s, v).out = "ok" /\ PgCreateOrganizationInvite(p, v).out = "ok"
    BY <1>2, <1>3, Accepted
<1>5. s2.invites = Put(s.invites, v.hash, v) BY <1>2, Accepted DEF StoreFields
<1>6. PgKeeps(p, p2, {"organization_invites"}) /\ p2.organization_invites = p.organization_invites \cup {v}
    BY <1>3, Accepted DEF PgFields, PgKeeps
<1>7. /\ DOMAIN s2.invites = DOMAIN s.invites \cup {v.hash} /\ s2.invites[v.hash] = v
      /\ \A h \in DOMAIN s.invites : s2.invites[h] = s.invites[h]
    BY <1>5 DEF Put
<1>8. p2.organization_invites = Rows(s2.invites) BY <1>5, <1>6, RowsOfNew DEF InviteTable
<1>9. InviteTable(s2.invites, p2.organization_invites, DOMAIN s.users, DOMAIN s.organizations)
    BY <1>7, <1>8 DEF InviteTable
<1> QED BY <1>1, <1>4, <1>6, <1>7, <1>9

\* An invitation without its two times, which are all that changes.
Settled(v) == [v EXCEPT !.accepted = TRUE, !.revoked = TRUE]

\* Two copies of an invitation that agree on what is never rewritten are equal once their
\* settlement is.
LEMMA SettledSame ==
    ASSUME NEW v, NEW w, InviteRow(v), InviteRow(w), Settled(v) = Settled(w)
    PROVE  /\ v.hash = w.hash /\ v.org = w.org /\ v.inviter = w.inviter
           /\ [w EXCEPT !.accepted = v.accepted, !.revoked = v.revoked] = v
BY DEF Settled, InviteFields, InviteRow

\* UpdateOrganizationInvite settles the same row of both.
LEMMA InviteUpdated ==
    ASSUME NEW s, NEW p, NEW v, DOMAIN s = StoreFields, DOMAIN p = PgFields,
           InviteTable(s.invites, p.organization_invites, DOMAIN s.users, DOMAIN s.organizations),
           InviteRow(v), v.hash \in DOMAIN s.invites, Settled(v) = Settled(s.invites[v.hash]),
           NEW s2, s2 = StoreUpdateOrganizationInvite(s, v).db,
           NEW p2, p2 = PgUpdateOrganizationInvite(p, v).db
    PROVE  /\ StoreUpdateOrganizationInvite(s, v).out = PgUpdateOrganizationInvite(p, v).out
           /\ Keeps(s, s2, {"invites"}) /\ PgKeeps(p, p2, {"organization_invites"})
           /\ InviteTable(s2.invites, p2.organization_invites, DOMAIN s.users, DOMAIN s.organizations)
           /\ DOMAIN s2.invites = DOMAIN s.invites
           /\ \A h \in DOMAIN s.invites : Settled(s2.invites[h]) = Settled(s.invites[h])
<1>1. Keeps(s, s2, {"invites"}) BY CallsKeep
<1>2. PICK c : c = s.invites OBVIOUS
<1>3. PICK h : h = v.hash OBVIOUS
<1>4. h \in DOMAIN c /\ InviteRow(c[h]) /\ c[h].hash = h BY <1>2, <1>3 DEF InviteTable
<1>5. /\ v.org = c[h].org /\ v.inviter = c[h].inviter
      /\ [c[h] EXCEPT !.accepted = v.accepted, !.revoked = v.revoked] = v
    BY <1>2, <1>3, <1>4, SettledSame
<1>6. PICK rows : rows = {r \in p.organization_invites : r.hash = v.hash} OBVIOUS
<1>7. rows = {c[h]} BY <1>2, <1>3, <1>4, <1>6 DEF InviteTable, Rows
<1>8. StoreUpdateOrganizationInvite(s, v) = Done([s EXCEPT !.invites = Put(@, v.hash, v)])
    BY DEF StoreUpdateOrganizationInvite
<1>9. {[r EXCEPT !.accepted = v.accepted, !.revoked = v.revoked] : r \in rows} = {v} BY <1>5, <1>7
<1>10. PgUpdateOrganizationInvite(p, v) = Done([p EXCEPT !.organization_invites = Replace(@, rows, {v})])
    BY <1>6, <1>7, <1>9 DEF PgUpdateOrganizationInvite
<1>11. StoreUpdateOrganizationInvite(s, v).out = "ok" /\ PgUpdateOrganizationInvite(p, v).out = "ok"
    BY <1>8, <1>10, Accepted
<1>12. s2.invites = Put(c, h, v) BY <1>2, <1>3, <1>8, Accepted DEF StoreFields
<1>13. /\ PgKeeps(p, p2, {"organization_invites"})
       /\ p2.organization_invites = Replace(p.organization_invites, {c[h]}, {v})
    BY <1>7, <1>10, Accepted DEF PgFields, PgKeeps
<1>14. DOMAIN s2.invites = DOMAIN c /\ s2.invites[h] = v /\ \A j \in DOMAIN c \ {h} : s2.invites[j] = c[j]
    BY <1>4, <1>12 DEF Put
<1>15. \A j \in DOMAIN c \ {h} : c[j] # c[h] BY <1>2, <1>4 DEF InviteTable
<1>16. p2.organization_invites = Rows(s2.invites)
    BY <1>2, <1>4, <1>12, <1>13, <1>15, RowsOfChanged DEF InviteTable
<1>17. InviteTable(s2.invites, p2.organization_invites, DOMAIN s.users, DOMAIN s.organizations)
    BY <1>2, <1>3, <1>5, <1>14, <1>16 DEF InviteTable
<1> QED BY <1>1, <1>2, <1>3, <1>11, <1>13, <1>14, <1>17

-----------------------------------------------------------------------------
(* The two repositories.                                                   *)

\* The tables of PostgreSQL have the entries of the store's maps, and the store's
\* indexes lead to them.
SameIdentities(s, p) ==
    /\ DOMAIN s = StoreFields /\ DOMAIN p = PgFields
    /\ UserTable(s.users, s.usersByEmail, s.oidcIdentities, p.users, p.user_oidc_identities)
    /\ TokenTable(s.controlRefresh, p.control_refresh_tokens)
    /\ PatTable(s.pats, s.patsByHash, p.personal_access_tokens)
    /\ OrgTable(s.organizations, p.organizations)
    /\ MemberTable(s.memberships, p.user_organizations, DOMAIN s.users, DOMAIN s.organizations)
    /\ InviteTable(s.invites, p.organization_invites, DOMAIN s.users, DOMAIN s.organizations)

\* What a call never takes back: users, organizations, links, and what
\* identifies a token or an invitation.
Grows(s, n) ==
    /\ DOMAIN s.users \subseteq DOMAIN n.users
    /\ DOMAIN s.organizations \subseteq DOMAIN n.organizations
    /\ \A i \in DOMAIN s.oidcIdentities : /\ i \in DOMAIN n.oidcIdentities
                                          /\ n.oidcIdentities[i] = s.oidcIdentities[i]
    /\ \A h \in DOMAIN s.controlRefresh : /\ h \in DOMAIN n.controlRefresh
                                          /\ Voided(n.controlRefresh[h]) = Voided(s.controlRefresh[h])
    /\ \A id \in DOMAIN s.pats : id \in DOMAIN n.pats /\ n.pats[id].hash = s.pats[id].hash
    /\ \A h \in DOMAIN s.invites : h \in DOMAIN n.invites /\ Settled(n.invites[h]) = Settled(s.invites[h])

\* A row of a known user, of a known organization.
LEMMA KnownRows ==
    ASSUME NEW s, NEW p, SameIdentities(s, p)
    PROVE  /\ \A u \in DOMAIN s.users : \E r \in p.users : r.id = u
           /\ \A o \in DOMAIN s.organizations : \E r \in p.organizations : r.id = o
BY DEF SameIdentities, UserTable, Rows, OrgTable

\* A call both repositories answer alike, after which they still agree.
Answered(s, p, a, b) == a.out = b.out /\ SameIdentities(a.db, b.db) /\ Grows(s, a.db)

\* The calls for users answer alike in agreeing repositories and keep them in agreement.
LEMMA UserCalls ==
    ASSUME NEW s, NEW p, SameIdentities(s, p)
    PROVE  /\ \A u : Answered(s, p, StoreCreateUser(s, u), PgCreateUser(p, u))
           /\ \A i, u : u \in DOMAIN s.users =>
                 Answered(s, p, StoreCreateOIDCIdentity(s, i, u), PgCreateOIDCIdentity(p, i, u))
<1>1. ASSUME NEW u PROVE Answered(s, p, StoreCreateUser(s, u), PgCreateUser(p, u))
    <2>1. PICK n : n = StoreCreateUser(s, u).db OBVIOUS
    <2>2. PICK q : q = PgCreateUser(p, u).db OBVIOUS
    <2>3. /\ StoreCreateUser(s, u).out = PgCreateUser(p, u).out
          /\ Keeps(s, n, {"users", "usersByEmail"}) /\ PgKeeps(p, q, {"users"})
          /\ UserTable(n.users, n.usersByEmail, n.oidcIdentities, q.users, q.user_oidc_identities)
          /\ \A id \in DOMAIN s.users : id \in DOMAIN n.users
        BY <2>1, <2>2, UserCreated DEF SameIdentities
    <2>4. /\ n.oidcIdentities = s.oidcIdentities /\ n.controlRefresh = s.controlRefresh /\ n.pats = s.pats
          /\ n.patsByHash = s.patsByHash /\ n.organizations = s.organizations
          /\ n.memberships = s.memberships /\ n.invites = s.invites /\ DOMAIN n = StoreFields
        BY <2>3 DEF Keeps, StoreFields
    <2>5. /\ q.control_refresh_tokens = p.control_refresh_tokens
          /\ q.personal_access_tokens = p.personal_access_tokens /\ q.organizations = p.organizations
          /\ q.user_organizations = p.user_organizations
          /\ q.organization_invites = p.organization_invites /\ DOMAIN q = PgFields
        BY <2>3 DEF PgKeeps, PgFields
    <2>6. /\ MemberTable(n.memberships, q.user_organizations, DOMAIN n.users, DOMAIN n.organizations)
          /\ InviteTable(n.invites, q.organization_invites, DOMAIN n.users, DOMAIN n.organizations)
        BY <2>3, <2>4, <2>5 DEF SameIdentities, MemberTable, InviteTable
    <2>7. SameIdentities(n, q) BY <2>3, <2>4, <2>5, <2>6 DEF SameIdentities
    <2>8. Grows(s, n) BY <2>3, <2>4 DEF Grows
    <2> QED BY <2>1, <2>2, <2>3, <2>7, <2>8 DEF Answered
<1>2. ASSUME NEW i, NEW u, u \in DOMAIN s.users
      PROVE  Answered(s, p, StoreCreateOIDCIdentity(s, i, u), PgCreateOIDCIdentity(p, i, u))
    <2>1. PICK n : n = StoreCreateOIDCIdentity(s, i, u).db OBVIOUS
    <2>2. PICK q : q = PgCreateOIDCIdentity(p, i, u).db OBVIOUS
    <2>3. /\ StoreCreateOIDCIdentity(s, i, u).out = PgCreateOIDCIdentity(p, i, u).out
          /\ Keeps(s, n, {"oidcIdentities"}) /\ PgKeeps(p, q, {"user_oidc_identities"})
          /\ UserTable(n.users, n.usersByEmail, n.oidcIdentities, q.users, q.user_oidc_identities)
          /\ \A j \in DOMAIN s.oidcIdentities : /\ j \in DOMAIN n.oidcIdentities
                                                /\ n.oidcIdentities[j] = s.oidcIdentities[j]
        BY <1>2, <2>1, <2>2, IdentityLinked DEF SameIdentities
    <2>4. /\ n.users = s.users /\ n.usersByEmail = s.usersByEmail /\ n.controlRefresh = s.controlRefresh
          /\ n.pats = s.pats /\ n.patsByHash = s.patsByHash /\ n.organizations = s.organizations
          /\ n.memberships = s.memberships /\ n.invites = s.invites /\ DOMAIN n = StoreFields
        BY <2>3 DEF Keeps, StoreFields
    <2>5. /\ q.users = p.users /\ q.control_refresh_tokens = p.control_refresh_tokens
          /\ q.personal_access_tokens = p.personal_access_tokens /\ q.organizations = p.organizations
          /\ q.user_organizations = p.user_organizations
          /\ q.organization_invites = p.organization_invites /\ DOMAIN q = PgFields
        BY <2>3 DEF PgKeeps, PgFields
    <2>6. SameIdentities(n, q) BY <2>3, <2>4, <2>5 DEF SameIdentities
    <2>7. Grows(s, n) BY <2>3, <2>4 DEF Grows
    <2> QED BY <2>1, <2>2, <2>3, <2>6, <2>7 DEF Answered
<1> QED BY <1>1, <1>2

\* So do the calls for refresh tokens,
LEMMA TokenCalls ==
    ASSUME NEW s, NEW p, SameIdentities(s, p), NEW k, Token(k)
    PROVE  /\ k.hash \notin DOMAIN s.controlRefresh /\ k.user \in DOMAIN s.users =>
                 Answered(s, p, StoreCreateControlRefreshToken(s, k), PgCreateControlRefreshToken(p, k))
           /\ k.hash \in DOMAIN s.controlRefresh /\ k = Voided(s.controlRefresh[k.hash]) =>
                 Answered(s, p, StoreUpdateControlRefreshToken(s, k), PgUpdateControlRefreshToken(p, k))
<1>1. ASSUME NEW n, NEW q, Keeps(s, n, {"controlRefresh"}), PgKeeps(p, q, {"control_refresh_tokens"}),
             TokenTable(n.controlRefresh, q.control_refresh_tokens)
      PROVE  /\ SameIdentities(n, q)
             /\ (\A h \in DOMAIN s.controlRefresh : /\ h \in DOMAIN n.controlRefresh
                                                    /\ Voided(n.controlRefresh[h]) = Voided(s.controlRefresh[h]))
                   => Grows(s, n)
    BY <1>1 DEF Keeps, StoreFields, PgKeeps, PgFields, SameIdentities, Grows
<1>2. ASSUME k.hash \notin DOMAIN s.controlRefresh, k.user \in DOMAIN s.users
      PROVE  Answered(s, p, StoreCreateControlRefreshToken(s, k), PgCreateControlRefreshToken(p, k))
    <2>1. PICK n : n = StoreCreateControlRefreshToken(s, k).db OBVIOUS
    <2>2. PICK q : q = PgCreateControlRefreshToken(p, k).db OBVIOUS
    <2>3. \E r \in p.users : r.id = k.user BY <1>2, KnownRows
    <2>4. /\ StoreCreateControlRefreshToken(s, k).out = PgCreateControlRefreshToken(p, k).out
          /\ Keeps(s, n, {"controlRefresh"}) /\ PgKeeps(p, q, {"control_refresh_tokens"})
          /\ TokenTable(n.controlRefresh, q.control_refresh_tokens)
          /\ \A h \in DOMAIN s.controlRefresh : /\ h \in DOMAIN n.controlRefresh
                                                /\ n.controlRefresh[h] = s.controlRefresh[h]
        BY <1>2, <2>1, <2>2, <2>3, TokenCreated DEF SameIdentities
    <2>5. SameIdentities(n, q) /\ Grows(s, n) BY <1>1, <2>4
    <2> QED BY <2>1, <2>2, <2>4, <2>5 DEF Answered
<1>3. ASSUME k.hash \in DOMAIN s.controlRefresh, k = Voided(s.controlRefresh[k.hash])
      PROVE  Answered(s, p, StoreUpdateControlRefreshToken(s, k), PgUpdateControlRefreshToken(p, k))
    <2>1. PICK n : n = StoreUpdateControlRefreshToken(s, k).db OBVIOUS
    <2>2. PICK q : q = PgUpdateControlRefreshToken(p, k).db OBVIOUS
    <2>3. /\ StoreUpdateControlRefreshToken(s, k).out = PgUpdateControlRefreshToken(p, k).out
          /\ Keeps(s, n, {"controlRefresh"}) /\ PgKeeps(p, q, {"control_refresh_tokens"})
          /\ TokenTable(n.controlRefresh, q.control_refresh_tokens)
          /\ \A h \in DOMAIN s.controlRefresh : /\ h \in DOMAIN n.controlRefresh
                                                /\ Voided(n.controlRefresh[h]) = Voided(s.controlRefresh[h])
        BY <1>3, <2>1, <2>2, TokenUpdated DEF SameIdentities
    <2>4. SameIdentities(n, q) /\ Grows(s, n) BY <1>1, <2>3
    <2> QED BY <2>1, <2>2, <2>3, <2>4 DEF Answered
<1> QED BY <1>2, <1>3

\* for personal access tokens,
LEMMA PatCalls ==
    ASSUME NEW s, NEW p, SameIdentities(s, p), NEW k, DOMAIN k = PatFields
    PROVE  /\ k.user \in DOMAIN s.users =>
                 Answered(s, p, StoreCreatePersonalAccessToken(s, k), PgCreatePersonalAccessToken(p, k))
           /\ k.id \in DOMAIN s.pats /\ s.pats[k.id].hash = k.hash =>
                 Answered(s, p, StoreUpdatePersonalAccessToken(s, k), PgUpdatePersonalAccessToken(p, k))
<1>1. ASSUME NEW n, NEW q, Keeps(s, n, {"pats", "patsByHash"}), PgKeeps(p, q, {"personal_access_tokens"}),
             PatTable(n.pats, n.patsByHash, q.personal_access_tokens),
             \A id \in DOMAIN s.pats : id \in DOMAIN n.pats /\ n.pats[id].hash = s.pats[id].hash
      PROVE  SameIdentities(n, q) /\ Grows(s, n)
    BY <1>1 DEF Keeps, StoreFields, PgKeeps, PgFields, SameIdentities, Grows
<1>2. ASSUME k.user \in DOMAIN s.users
      PROVE  Answered(s, p, StoreCreatePersonalAccessToken(s, k), PgCreatePersonalAccessToken(p, k))
    <2>1. PICK n : n = StoreCreatePersonalAccessToken(s, k).db OBVIOUS
    <2>2. PICK q : q = PgCreatePersonalAccessToken(p, k).db OBVIOUS
    <2>3. \E r \in p.users : r.id = k.user BY <1>2, KnownRows
    <2>4. /\ StoreCreatePersonalAccessToken(s, k).out = PgCreatePersonalAccessToken(p, k).out
          /\ Keeps(s, n, {"pats", "patsByHash"}) /\ PgKeeps(p, q, {"personal_access_tokens"})
          /\ PatTable(n.pats, n.patsByHash, q.personal_access_tokens)
          /\ \A id \in DOMAIN s.pats : id \in DOMAIN n.pats /\ n.pats[id].hash = s.pats[id].hash
        BY <2>1, <2>2, <2>3, PatCreated DEF SameIdentities
    <2>5. SameIdentities(n, q) /\ Grows(s, n) BY <1>1, <2>4
    <2> QED BY <2>1, <2>2, <2>4, <2>5 DEF Answered
<1>3. ASSUME k.id \in DOMAIN s.pats, s.pats[k.id].hash = k.hash
      PROVE  Answered(s, p, StoreUpdatePersonalAccessToken(s, k), PgUpdatePersonalAccessToken(p, k))
    <2>1. PICK n : n = StoreUpdatePersonalAccessToken(s, k).db OBVIOUS
    <2>2. PICK q : q = PgUpdatePersonalAccessToken(p, k).db OBVIOUS
    <2>3. /\ StoreUpdatePersonalAccessToken(s, k).out = PgUpdatePersonalAccessToken(p, k).out
          /\ Keeps(s, n, {"pats", "patsByHash"}) /\ PgKeeps(p, q, {"personal_access_tokens"})
          /\ PatTable(n.pats, n.patsByHash, q.personal_access_tokens)
          /\ \A id \in DOMAIN s.pats : id \in DOMAIN n.pats /\ n.pats[id].hash = s.pats[id].hash
        BY <1>3, <2>1, <2>2, PatUpdated DEF SameIdentities
    <2>4. SameIdentities(n, q) /\ Grows(s, n) BY <1>1, <2>3
    <2> QED BY <2>1, <2>2, <2>3, <2>4 DEF Answered
<1> QED BY <1>2, <1>3

\* for organizations and members,
LEMMA OrganizationCalls ==
    ASSUME NEW s, NEW p, SameIdentities(s, p)
    PROVE  /\ \A o : Answered(s, p, StoreCreateOrganization(s, o), PgCreateOrganization(p, o))
           /\ \A m : m.user \in DOMAIN s.users /\ m.org \in DOMAIN s.organizations =>
                 Answered(s, p, StoreUpsertOrganizationMembership(s, m), PgUpsertOrganizationMembership(p, m))
           /\ \A u, o : Answered(s, p, StoreDeleteOrganizationMembership(s, u, o),
                                 PgDeleteOrganizationMembership(p, u, o))
<1>1. ASSUME NEW o PROVE Answered(s, p, StoreCreateOrganization(s, o), PgCreateOrganization(p, o))
    <2>1. PICK n : n = StoreCreateOrganization(s, o).db OBVIOUS
    <2>2. PICK q : q = PgCreateOrganization(p, o).db OBVIOUS
    <2>3. /\ StoreCreateOrganization(s, o).out = PgCreateOrganization(p, o).out
          /\ Keeps(s, n, {"organizations"}) /\ PgKeeps(p, q, {"organizations"})
          /\ OrgTable(n.organizations, q.organizations)
          /\ DOMAIN s.organizations \subseteq DOMAIN n.organizations
        BY <2>1, <2>2, OrgCreated DEF SameIdentities
    <2>4. /\ n.users = s.users /\ n.usersByEmail = s.usersByEmail /\ n.oidcIdentities = s.oidcIdentities
          /\ n.controlRefresh = s.controlRefresh /\ n.pats = s.pats /\ n.patsByHash = s.patsByHash
          /\ n.memberships = s.memberships /\ n.invites = s.invites /\ DOMAIN n = StoreFields
        BY <2>3 DEF Keeps, StoreFields
    <2>5. /\ q.users = p.users /\ q.user_oidc_identities = p.user_oidc_identities
          /\ q.control_refresh_tokens = p.control_refresh_tokens
          /\ q.personal_access_tokens = p.personal_access_tokens
          /\ q.user_organizations = p.user_organizations
          /\ q.organization_invites = p.organization_invites /\ DOMAIN q = PgFields
        BY <2>3 DEF PgKeeps, PgFields
    <2>6. /\ MemberTable(n.memberships, q.user_organizations, DOMAIN n.users, DOMAIN n.organizations)
          /\ InviteTable(n.invites, q.organization_invites, DOMAIN n.users, DOMAIN n.organizations)
        BY <2>3, <2>4, <2>5 DEF SameIdentities, MemberTable, InviteTable
    <2>7. SameIdentities(n, q) BY <2>3, <2>4, <2>5, <2>6 DEF SameIdentities
    <2>8. Grows(s, n) BY <2>3, <2>4 DEF Grows
    <2> QED BY <2>1, <2>2, <2>3, <2>7, <2>8 DEF Answered
<1>2. ASSUME NEW n, NEW q, Keeps(s, n, {"memberships"}), PgKeeps(p, q, {"user_organizations"}),
             MemberTable(n.memberships, q.user_organizations, DOMAIN s.users, DOMAIN s.organizations)
      PROVE  SameIdentities(n, q) /\ Grows(s, n)
    BY <1>2 DEF Keeps, StoreFields, PgKeeps, PgFields, SameIdentities, Grows
<1>3. ASSUME NEW m, m.user \in DOMAIN s.users, m.org \in DOMAIN s.organizations
      PROVE  Answered(s, p, StoreUpsertOrganizationMembership(s, m), PgUpsertOrganizationMembership(p, m))
    <2>1. PICK n : n = StoreUpsertOrganizationMembership(s, m).db OBVIOUS
    <2>2. PICK q : q = PgUpsertOrganizationMembership(p, m).db OBVIOUS
    <2>3. (\E r \in p.users : r.id = m.user) /\ (\E r \in p.organizations : r.id = m.org)
        BY <1>3, KnownRows
    <2>4. /\ StoreUpsertOrganizationMembership(s, m).out = PgUpsertOrganizationMembership(p, m).out
          /\ Keeps(s, n, {"memberships"}) /\ PgKeeps(p, q, {"user_organizations"})
          /\ MemberTable(n.memberships, q.user_organizations, DOMAIN s.users, DOMAIN s.organizations)
        BY <1>3, <2>1, <2>2, <2>3, MemberUpserted DEF SameIdentities
    <2>5. SameIdentities(n, q) /\ Grows(s, n) BY <1>2, <2>4
    <2> QED BY <2>1, <2>2, <2>4, <2>5 DEF Answered
<1>4. ASSUME NEW u, NEW o
      PROVE  Answered(s, p, StoreDeleteOrganizationMembership(s, u, o), PgDeleteOrganizationMembership(p, u, o))
    BY MemberDeleted, <1>2 DEF SameIdentities, Answered
<1> QED BY <1>1, <1>3, <1>4

\* and for invitations.
LEMMA InviteCalls ==
    ASSUME NEW s, NEW p, SameIdentities(s, p), NEW v, InviteRow(v)
    PROVE  /\ v.hash \notin DOMAIN s.invites /\ v.org \in DOMAIN s.organizations /\ v.inviter \in DOMAIN s.users =>
                 Answered(s, p, StoreCreateOrganizationInvite(s, v), PgCreateOrganizationInvite(p, v))
           /\ v.hash \in DOMAIN s.invites /\ Settled(v) = Settled(s.invites[v.hash]) =>
                 Answered(s, p, StoreUpdateOrganizationInvite(s, v), PgUpdateOrganizationInvite(p, v))
<1>1. ASSUME NEW n, NEW q, Keeps(s, n, {"invites"}), PgKeeps(p, q, {"organization_invites"}),
             InviteTable(n.invites, q.organization_invites, DOMAIN s.users, DOMAIN s.organizations),
             \A h \in DOMAIN s.invites : h \in DOMAIN n.invites /\ Settled(n.invites[h]) = Settled(s.invites[h])
      PROVE  SameIdentities(n, q) /\ Grows(s, n)
    BY <1>1 DEF Keeps, StoreFields, PgKeeps, PgFields, SameIdentities, Grows
<1>2. ASSUME v.hash \notin DOMAIN s.invites, v.org \in DOMAIN s.organizations, v.inviter \in DOMAIN s.users
      PROVE  Answered(s, p, StoreCreateOrganizationInvite(s, v), PgCreateOrganizationInvite(p, v))
    <2>1. PICK n : n = StoreCreateOrganizationInvite(s, v).db OBVIOUS
    <2>2. PICK q : q = PgCreateOrganizationInvite(p, v).db OBVIOUS
    <2>3. \E r \in p.organizations : r.id = v.org BY <1>2, KnownRows
    <2>4. /\ StoreCreateOrganizationInvite(s, v).out = PgCreateOrganizationInvite(p, v).out
          /\ Keeps(s, n, {"invites"}) /\ PgKeeps(p, q, {"organization_invites"})
          /\ InviteTable(n.invites, q.organization_invites, DOMAIN s.users, DOMAIN s.organizations)
          /\ DOMAIN n.invites = DOMAIN s.invites \cup {v.hash}
          /\ \A h \in DOMAIN s.invites : n.invites[h] = s.invites[h]
        BY <1>2, <2>1, <2>2, <2>3, InviteCreated DEF SameIdentities
    <2>5. SameIdentities(n, q) /\ Grows(s, n) BY <1>1, <2>4
    <2> QED BY <2>1, <2>2, <2>4, <2>5 DEF Answered
<1>3. ASSUME v.hash \in DOMAIN s.invites, Settled(v) = Settled(s.invites[v.hash])
      PROVE  Answered(s, p, StoreUpdateOrganizationInvite(s, v), PgUpdateOrganizationInvite(p, v))
    <2>1. PICK n : n = StoreUpdateOrganizationInvite(s, v).db OBVIOUS
    <2>2. PICK q : q = PgUpdateOrganizationInvite(p, v).db OBVIOUS
    <2>3. /\ StoreUpdateOrganizationInvite(s, v).out = PgUpdateOrganizationInvite(p, v).out
          /\ Keeps(s, n, {"invites"}) /\ PgKeeps(p, q, {"organization_invites"})
          /\ InviteTable(n.invites, q.organization_invites, DOMAIN s.users, DOMAIN s.organizations)
          /\ DOMAIN n.invites = DOMAIN s.invites
          /\ \A h \in DOMAIN s.invites : Settled(n.invites[h]) = Settled(s.invites[h])
        BY <1>3, <2>1, <2>2, InviteUpdated DEF SameIdentities
    <2>4. SameIdentities(n, q) /\ Grows(s, n) BY <1>1, <2>3
    <2> QED BY <2>1, <2>2, <2>3, <2>4 DEF Answered
<1> QED BY <1>2, <1>3

-----------------------------------------------------------------------------
(* Requests in progress.                                                   *)

Links(s, i, u) == i \in DOMAIN s.oidcIdentities /\ s.oidcIdentities[i] = u

\* What a request holds that its next call relies on: the user it signs in, the
\* organization it acts in, copies of a token or of an invitation.
MemberOps == {"authenticated", "first owner", "change member", "count owners", "write member"}
HeldUser(s, r) ==
    /\ r.op = "session" => /\ r.user \in DOMAIN s.users
                           /\ r.via # NoIdentity => Links(s, r.via.identity, r.user)
    /\ r.op = "oidc link" => r.user \in DOMAIN s.users
    /\ r.op = "oidc winner" => r.identity \in DOMAIN s.oidcIdentities
    /\ r.op \in MemberOps \cup {"accept"} => r.user \in DOMAIN s.users
    /\ r.op \in MemberOps => r.org \in DOMAIN s.organizations /\ {"user", "org"} \subseteq DOMAIN r
HeldToken(s, r) ==
    r.op = "refresh" => /\ Token(r.token) /\ r.token.hash \in DOMAIN s.controlRefresh
                        /\ Voided(r.token) = Voided(s.controlRefresh[r.token.hash])
HeldPat(s, r) ==
    r.op \in {"validate pat", "pat"} => /\ DOMAIN r.pat = PatFields /\ r.pat.id \in DOMAIN s.pats
                                        /\ s.pats[r.pat.id].hash = r.pat.hash
HeldInvite(s, r) ==
    r.op \in {"accept", "invite"} => /\ InviteRow(r.invite) /\ r.invite.hash \in DOMAIN s.invites
                                     /\ Settled(r.invite) = Settled(s.invites[r.invite.hash])
Held(s, r) == HeldUser(s, r) /\ HeldToken(s, r) /\ HeldPat(s, r) /\ HeldInvite(s, r)

\* A request that holds nothing.
Plain == {"idle", "oidc identity", "oidc email", "oidc create", "user"}

\* A request between operations holds nothing.
LEMMA PlainHeld == \A s, r : r.op \in Plain => Held(s, r)
BY ZenonT(60) DEF Plain, Held, HeldUser, HeldToken, HeldPat, HeldInvite, MemberOps

\* What a request holds it still holds after a call of another.
LEMMA HeldGrows == \A s, n, r : Held(s, r) /\ Grows(s, n) => Held(n, r)
<1> SUFFICES ASSUME NEW s, NEW n, NEW r, Held(s, r), Grows(s, n) PROVE Held(n, r)
    OBVIOUS
<1>1. HeldUser(n, r) BY DEF Held, HeldUser, Grows, Links
<1>2. HeldToken(n, r) BY DEF Held, HeldToken, Grows
<1>3. HeldPat(n, r) BY DEF Held, HeldPat, Grows
<1>4. HeldInvite(n, r) BY DEF Held, HeldInvite, Grows
<1> QED BY <1>1, <1>2, <1>3, <1>4 DEF Held

\* No call at all takes nothing back.
LEMMA GrowsSame == \A s : Grows(s, s)
BY DEF Grows

InvitesNumbered(s) == \E n \in Nat : DOMAIN s.invites = 1..n

AccountInv ==
    /\ Requests(idReq) /\ SameIdentities(idStore, idPg) /\ idAgreed = TRUE
    /\ InvitesNumbered(idStore)
    /\ \A t \in Threads : Held(idStore, idReq[t])
    /\ \A x \in logins : Links(idStore, x[1], x[2])

\* What every step of a request does to the repositories, and to the request.
Kept ==
    /\ SameIdentities(idStore, idPg)' /\ Grows(idStore, idStore') /\ idAgreed' = TRUE
    /\ InvitesNumbered(idStore)'
Moved(t) ==
    /\ idReq' = [idReq EXCEPT ![t] = idReq'[t]] /\ "op" \in DOMAIN idReq'[t]
    /\ Held(idStore', idReq'[t])

\* A call both repositories answered alike, with what its request does next, keeps the invariant.
LEMMA AccountMoves ==
    ASSUME AccountInv, NEW t \in Threads, Kept, Moved(t),
           \A x \in logins' : x \in logins \/ Links(idStore', x[1], x[2])
    PROVE  AccountInv'
BY HeldGrows DEF AccountInv, Moved, Requests, Kept, Grows, Links

\* A step that changes none of this keeps it.
LEMMA AccountStays ==
    ASSUME AccountInv, Kept, idReq' = idReq, logins' = logins
    PROVE  AccountInv'
BY HeldGrows DEF AccountInv, Kept, Grows, Links

\* What a query leaves as it was.
LEMMA KeptReading ==
    ASSUME AccountInv, idStore' = idStore, idPg' = idPg, idAgreed' = idAgreed
    PROVE  Kept
BY GrowsSame DEF AccountInv, Kept

\* What a call leaves as it was.
LEMMA KeptCalling ==
    ASSUME AccountInv, NEW a, NEW b, Answered(idStore, idPg, a, b), IdCall(a, b),
           DOMAIN a.db.invites = DOMAIN idStore.invites
    PROVE  Kept
BY DEF IdCall, AccountInv, Answered, InvitesNumbered, Kept

\* A request that reads keeps everything if what it then holds is right.
LEMMA ReadMoves ==
    ASSUME AccountInv, NEW t \in Threads, NEW op, NEW r, Read(t, op, r), logins' = logins,
           "op" \in DOMAIN r, Held(idStore, r)
    PROVE  AccountInv'
BY KeptReading, AccountMoves DEF Read, Goto, AccountInv, Requests, Moved

\* And so does one that makes a call.
LEMMA CallMoves ==
    ASSUME AccountInv, NEW t \in Threads, NEW a, NEW b, NEW r, Answered(idStore, idPg, a, b), IdCall(a, b),
           DOMAIN a.db.invites = DOMAIN idStore.invites, Goto(t, r), logins' = logins,
           "op" \in DOMAIN r, Held(a.db, r)
    PROVE  AccountInv'
BY KeptCalling, AccountMoves DEF Goto, IdCall, AccountInv, Requests, Moved

\* Only the calls on invitations touch those.
LEMMA CallsKeepInvites ==
    ASSUME NEW s, DOMAIN s = StoreFields
    PROVE  /\ \A u : StoreCreateUser(s, u).db.invites = s.invites
           /\ \A i, u : StoreCreateOIDCIdentity(s, i, u).db.invites = s.invites
           /\ \A k : /\ StoreCreateControlRefreshToken(s, k).db.invites = s.invites
                     /\ StoreUpdateControlRefreshToken(s, k).db.invites = s.invites
           /\ \A p : /\ StoreCreatePersonalAccessToken(s, p).db.invites = s.invites
                     /\ StoreUpdatePersonalAccessToken(s, p).db.invites = s.invites
           /\ \A o : StoreCreateOrganization(s, o).db.invites = s.invites
           /\ \A m : StoreUpsertOrganizationMembership(s, m).db.invites = s.invites
           /\ \A u, o : StoreDeleteOrganizationMembership(s, u, o).db.invites = s.invites
BY CallsKeep DEF Keeps, StoreFields

\* What is there once a user or a link is created.
LEMMA Created ==
    ASSUME NEW s, NEW p, SameIdentities(s, p)
    PROVE  /\ \A u : StoreCreateUser(s, u).out = "ok" => u.id \in DOMAIN StoreCreateUser(s, u).db.users
           /\ \A i, u : u \in DOMAIN s.users =>
                 /\ i \in DOMAIN StoreCreateOIDCIdentity(s, i, u).db.oidcIdentities
                 /\ StoreCreateOIDCIdentity(s, i, u).out = "ok"
                       => Links(StoreCreateOIDCIdentity(s, i, u).db, i, u)
<1>1. ASSUME NEW u, StoreCreateUser(s, u).out = "ok" PROVE u.id \in DOMAIN StoreCreateUser(s, u).db.users
    <2>1. PICK n : n = StoreCreateUser(s, u).db OBVIOUS
    <2>2. PICK q : q = PgCreateUser(p, u).db OBVIOUS
    <2> QED BY <1>1, <2>1, <2>2, UserCreated DEF SameIdentities
<1>2. ASSUME NEW i, NEW u, u \in DOMAIN s.users
      PROVE  /\ i \in DOMAIN StoreCreateOIDCIdentity(s, i, u).db.oidcIdentities
             /\ StoreCreateOIDCIdentity(s, i, u).out = "ok"
                   => Links(StoreCreateOIDCIdentity(s, i, u).db, i, u)
    <2>1. PICK n : n = StoreCreateOIDCIdentity(s, i, u).db OBVIOUS
    <2>2. PICK q : q = PgCreateOIDCIdentity(p, i, u).db OBVIOUS
    <2>3. /\ i \in DOMAIN n.oidcIdentities
          /\ StoreCreateOIDCIdentity(s, i, u).out = "ok" => n.oidcIdentities[i] = u
        BY <1>2, <2>1, <2>2, IdentityLinked DEF SameIdentities
    <2> QED BY <2>1, <2>3 DEF Links
<1> QED BY <1>1, <1>2

\* The user found through an index is the one it names.
LEMMA FoundUser ==
    ASSUME NEW s, NEW p, SameIdentities(s, p)
    PROVE  /\ \A e : StoreUserByEmail(s, e) # NotFound => StoreUserByEmail(s, e).id \in DOMAIN s.users
           /\ \A i : StoreUserByOIDCIdentity(s, i) # NotFound => i \in DOMAIN s.oidcIdentities
           /\ \A i \in DOMAIN s.oidcIdentities :
                 /\ Links(s, i, StoreUserByOIDCIdentity(s, i).id)
                 /\ StoreUserByOIDCIdentity(s, i).id \in DOMAIN s.users
           /\ \A u : StoreUserByID(s, u) # NotFound => u \in DOMAIN s.users
BY DEF SameIdentities, UserTable, StoreUserByEmail, StoreUserByOIDCIdentity, StoreUserByID, At, Links

\* An idle request holds nothing.
LEMMA IdleHeld == "op" \in DOMAIN NoReq /\ \A s : Held(s, NoReq)
<1>1. "op" \in DOMAIN NoReq /\ NoReq.op \in Plain BY DEF NoReq, Plain
<1> QED BY <1>1, PlainHeld

\* Signing up with an address and a password.
LEMMA SignupAccounts ==
    ASSUME AccountInv, NEW t \in Threads, NEW e \in Emails, Signup(t, e)
    PROVE  AccountInv'
<1>1. PICK u : u = FreshUser(e) OBVIOUS
<1>2. PICK a : a = StoreCreateUser(idStore, u) OBVIOUS
<1>3. PICK r : r = IF a.out = "ok" THEN InSession(u.id, NoIdentity, 0) ELSE NoReq OBVIOUS
<1>4. IdCall(a, PgCreateUser(idPg, u)) /\ Goto(t, r) /\ logins' = logins
    BY <1>1, <1>2, <1>3 DEF Signup, SigninRest
<1>5. SameIdentities(idStore, idPg) BY DEF AccountInv
<1>6. Answered(idStore, idPg, a, PgCreateUser(idPg, u)) BY <1>2, <1>5, UserCalls
<1>7. DOMAIN a.db.invites = DOMAIN idStore.invites BY <1>2, <1>5, CallsKeepInvites DEF SameIdentities
<1>8. "op" \in DOMAIN r /\ Held(a.db, r)
    BY <1>2, <1>5, Created, <1>3, IdleHeld DEF InSession, Held, HeldUser, HeldToken, HeldPat,
       HeldInvite, MemberOps
<1> QED BY <1>4, <1>6, <1>7, <1>8, CallMoves

\* Logging in with a password.
LEMMA LoginAccounts ==
    ASSUME AccountInv, NEW t \in Threads, NEW e \in Emails, Login(t, e)
    PROVE  AccountInv'
<1>1. PICK r : r = InSession(StoreUserByEmail(idStore, e).id, NoIdentity, 0) OBVIOUS
<1>2. Read(t, "idle", r) /\ logins' = logins /\ StoreUserByEmail(idStore, e) # NotFound
    BY <1>1 DEF Login, SigninRest
<1>3. StoreUserByEmail(idStore, e).id \in DOMAIN idStore.users BY <1>2, FoundUser DEF AccountInv
<1>4. "op" \in DOMAIN r /\ Held(idStore, r)
    BY <1>1, <1>3 DEF InSession, Held, HeldUser, HeldToken, HeldPat, HeldInvite, MemberOps
<1> QED BY <1>2, <1>4, ReadMoves

\* A one-time code leads to a lookup, which holds nothing.
LEMMA CodeAccounts ==
    ASSUME AccountInv, NEW t \in Threads, NEW c \in codes,
           ControlOIDCSession(t, c) \/ ControlCLISession(t, c)
    PROVE  AccountInv'
<1>1. PICK r : /\ r = [op |-> "oidc identity", identity |-> c.identity, email |-> c.email]
                    \/ r = [op |-> "user", user |-> c.user, token |-> 0]
               /\ TakeCode(t, c, r)
    BY DEF ControlOIDCSession, ControlCLISession
<1>2. PICK w : w = IF c.expires > idNow THEN r ELSE NoReq OBVIOUS
<1>3. Read(t, "idle", w) /\ logins' = logins BY <1>1, <1>2 DEF TakeCode, SigninRest
<1>4. "op" \in DOMAIN r /\ r.op \in Plain
    <2>1. CASE r = [op |-> "oidc identity", identity |-> c.identity, email |-> c.email] BY <2>1 DEF Plain
    <2>2. CASE r = [op |-> "user", user |-> c.user, token |-> 0] BY <2>2 DEF Plain
    <2> QED BY <1>1, <2>1, <2>2
<1>5. "op" \in DOMAIN w /\ Held(idStore, w) BY <1>4, PlainHeld, IdleHeld, <1>2
<1> QED BY <1>3, <1>5, ReadMoves

\* The callback of the OpenID provider, from the code to the account it is linked to.
LEMMA OIDCAccounts ==
    ASSUME AccountInv, NEW t \in Threads, LoginOIDC(t) \/ LoginOIDCByEmail(t) \/ LoginOIDCWinner(t)
    PROVE  AccountInv'
<1> USE DEF Held, HeldUser, HeldToken, HeldPat, HeldInvite, MemberOps
<1>1. "op" \in DOMAIN idReq[t] /\ Held(idStore, idReq[t]) /\ SameIdentities(idStore, idPg)
    BY DEF AccountInv, Requests
<1>2. CASE LoginOIDC(t)
    <2>1. PICK u : u = StoreUserByOIDCIdentity(idStore, idReq[t].identity) OBVIOUS
    <2>2. PICK r : r = IF u # NotFound THEN InSession(u.id, [identity |-> idReq[t].identity], 0)
                       ELSE [idReq[t] EXCEPT !.op = "oidc email"]
        OBVIOUS
    <2>3. Read(t, "oidc identity", r) /\ logins' = logins BY <1>2, <2>1, <2>2 DEF LoginOIDC, SigninRest
    <2>4. "op" \in DOMAIN r /\ Held(idStore, r)
        BY <1>1, <2>1, FoundUser, <2>2, PlainHeld DEF InSession, Plain
    <2> QED BY <2>3, <2>4, ReadMoves
<1>3. CASE LoginOIDCByEmail(t)
    <2>1. PICK u : u = StoreUserByEmail(idStore, idReq[t].email) OBVIOUS
    <2>2. PICK r : r = IF u # NotFound THEN Linking(idReq[t], u.id) ELSE [idReq[t] EXCEPT !.op = "oidc create"]
        OBVIOUS
    <2>3. Read(t, "oidc email", r) /\ logins' = logins BY <1>3, <2>1, <2>2 DEF LoginOIDCByEmail, SigninRest
    <2>4. "op" \in DOMAIN r /\ Held(idStore, r)
        BY <1>1, <2>1, FoundUser, <2>2, PlainHeld DEF Linking, Plain
    <2> QED BY <2>3, <2>4, ReadMoves
<1>4. CASE LoginOIDCWinner(t)
    BY <1>4, <1>1, FoundUser, ReadMoves DEF LoginOIDCWinner, SigninRest, Read, Is, LinkedUser,
       InSession
<1> QED BY <1>2, <1>3, <1>4

\* A first login creates the account, unless another request has.
LEMMA OIDCCreateAccounts ==
    ASSUME AccountInv, NEW t \in Threads, LoginOIDCCreate(t)
    PROVE  AccountInv'
<1>1. PICK u : u = FreshUser(idReq[t].email) OBVIOUS
<1>2. PICK a : a = StoreCreateUser(idStore, u) OBVIOUS
<1>3. PICK r : r = IF a.out = "ok" THEN Linking(idReq[t], u.id) ELSE [idReq[t] EXCEPT !.op = "oidc email"]
    OBVIOUS
<1>4. IdCall(a, PgCreateUser(idPg, u)) /\ Goto(t, r) /\ logins' = logins
    BY <1>1, <1>2, <1>3 DEF LoginOIDCCreate, SigninRest
<1>5. SameIdentities(idStore, idPg) BY DEF AccountInv
<1>6. Answered(idStore, idPg, a, PgCreateUser(idPg, u)) BY <1>2, <1>5, UserCalls
<1>7. DOMAIN a.db.invites = DOMAIN idStore.invites BY <1>2, <1>5, CallsKeepInvites DEF SameIdentities
<1>8. "op" \in DOMAIN r /\ Held(a.db, r)
    <2>1. CASE a.out = "ok"
        BY <1>2, <1>5, <2>1, Created, <1>3 DEF Linking, Held, HeldUser, HeldToken, HeldPat,
           HeldInvite, MemberOps
    <2>2. CASE a.out # "ok"
        <3>1. r = [idReq[t] EXCEPT !.op = "oidc email"] BY <1>3, <2>2
        <3>2. "op" \in DOMAIN r /\ r.op \in Plain BY <3>1 DEF AccountInv, Requests, Plain
        <3> QED BY <3>2, PlainHeld
    <2> QED BY <2>1, <2>2
<1> QED BY <1>4, <1>6, <1>7, <1>8, CallMoves

\* It then links the identity, or finds it linked meanwhile.
LEMMA OIDCLinkAccounts ==
    ASSUME AccountInv, NEW t \in Threads, LoginOIDCLink(t)
    PROVE  AccountInv'
<1>1. PICK i : i = idReq[t].identity OBVIOUS
<1>2. PICK u : u = idReq[t].user OBVIOUS
<1>3. PICK a : a = StoreCreateOIDCIdentity(idStore, i, u) OBVIOUS
<1>4. PICK r : r = IF a.out = "ok" THEN InSession(u, [identity |-> i], 0)
                   ELSE [op |-> "oidc winner", identity |-> i, user |-> u]
    OBVIOUS
<1>5. /\ IdCall(a, PgCreateOIDCIdentity(idPg, i, u)) /\ Goto(t, r) /\ logins' = logins
      /\ idReq[t].op = "oidc link"
    BY <1>1, <1>2, <1>3, <1>4 DEF LoginOIDCLink, SigninRest, Is
<1>6. SameIdentities(idStore, idPg) /\ u \in DOMAIN idStore.users
    BY <1>2, <1>5 DEF AccountInv, Held, HeldUser
<1>7. Answered(idStore, idPg, a, PgCreateOIDCIdentity(idPg, i, u)) BY <1>3, <1>6, UserCalls
<1>8. DOMAIN a.db.invites = DOMAIN idStore.invites BY <1>3, <1>6, CallsKeepInvites DEF SameIdentities
<1>9. u \in DOMAIN a.db.users BY <1>6, <1>7 DEF Answered, Grows
<1>10. "op" \in DOMAIN r /\ Held(a.db, r)
    BY <1>3, <1>6, Created, <1>4, <1>9 DEF InSession, Held, HeldUser, HeldToken, HeldPat,
       HeldInvite, MemberOps
<1> QED BY <1>5, <1>7, <1>8, <1>10, CallMoves

\* Refreshing holds a copy of the token, then revokes it.
LEMMA RefreshAccounts ==
    ASSUME AccountInv, NEW t \in Threads, NEW k \in DOMAIN idStore.controlRefresh, Refresh(t, k)
    PROVE  AccountInv'
<1>1. PICK c : c = idStore.controlRefresh[k] OBVIOUS
<1>2. StoreControlRefreshToken(idStore, k) = c BY <1>1 DEF StoreControlRefreshToken, At
<1>3. PICK r : r = [op |-> "refresh", token |-> c] OBVIOUS
<1>4. Read(t, "idle", r) /\ logins' = logins BY <1>2, <1>3 DEF Refresh, SigninRest
<1>5. Token(c) /\ c.hash = k BY <1>1 DEF AccountInv, SameIdentities, TokenTable
<1>6. "op" \in DOMAIN r /\ Held(idStore, r)
    BY <1>1, <1>3, <1>5 DEF Held, HeldUser, HeldToken, HeldPat, HeldInvite, MemberOps
<1> QED BY <1>4, <1>6, ReadMoves

\* Logging out and rotating a refresh token.
LEMMA RevokeAccounts ==
    ASSUME AccountInv, NEW t \in Threads, RefreshRevoke(t)
    PROVE  AccountInv'
<1>1. PICK k : k = Voided(idReq[t].token) OBVIOUS
<1>2. PICK a : a = StoreUpdateControlRefreshToken(idStore, k) OBVIOUS
<1>3. PICK r : r = IF a.out = "ok" THEN [op |-> "user", user |-> k.user, token |-> k.hash] ELSE NoReq
    OBVIOUS
<1>4. /\ IdCall(a, PgUpdateControlRefreshToken(idPg, k)) /\ Goto(t, r) /\ logins' = logins
      /\ idReq[t].op = "refresh"
    BY <1>1, <1>2, <1>3 DEF RefreshRevoke, SigninRest, Is, Voided
<1>5. PICK c : c = idReq[t].token OBVIOUS
<1>6. Token(c) /\ c.hash \in DOMAIN idStore.controlRefresh /\ Voided(c) = Voided(idStore.controlRefresh[c.hash])
    BY <1>4, <1>5 DEF AccountInv, Held, HeldToken
<1>7. Token(k) /\ k.hash = c.hash BY <1>1, <1>5, <1>6 DEF Token, Voided
<1>8. SameIdentities(idStore, idPg) BY DEF AccountInv
<1>9. k = Voided(idStore.controlRefresh[k.hash]) BY <1>1, <1>5, <1>6, <1>7
<1>10. Answered(idStore, idPg, a, PgUpdateControlRefreshToken(idPg, k))
    BY <1>2, <1>6, <1>7, <1>8, <1>9, TokenCalls
<1>11. DOMAIN a.db.invites = DOMAIN idStore.invites BY <1>2, <1>8, CallsKeepInvites DEF SameIdentities
<1>12. "op" \in DOMAIN r /\ r.op \in Plain BY <1>3 DEF NoReq, Plain
<1> QED BY <1>4, <1>10, <1>11, <1>12, PlainHeld, CallMoves

\* Creating an organization for a user.
LEMMA UserAccounts ==
    ASSUME AccountInv, NEW t \in Threads, SessionForUserID(t)
    PROVE  AccountInv'
<1>1. PICK r : r = InSession(idReq[t].user, NoIdentity, idReq[t].token) OBVIOUS
<1>2. Read(t, "user", r) /\ logins' = logins /\ StoreUserByID(idStore, idReq[t].user) # NotFound
    BY <1>1 DEF SessionForUserID, SigninRest
<1>3. idReq[t].user \in DOMAIN idStore.users BY <1>2, FoundUser DEF AccountInv
<1>4. "op" \in DOMAIN r /\ Held(idStore, r)
    BY <1>1, <1>3 DEF InSession, Held, HeldUser, HeldToken, HeldPat, HeldInvite, MemberOps
<1> QED BY <1>2, <1>4, ReadMoves

\* A session is opened for the account its identity is linked to.
LEMMA SessionAccounts ==
    ASSUME AccountInv, RefreshInv, NEW t \in Threads, SessionForUser(t)
    PROVE  AccountInv'
<1>1. PICK n \in Nat : DOMAIN idStore.controlRefresh = 1..n BY DEF RefreshInv, TokensIssued
<1>2. Cardinality(DOMAIN idStore.controlRefresh) = n /\ n + 1 \notin DOMAIN idStore.controlRefresh
    BY <1>1, FS_Interval
<1>3. PICK k : k = [hash |-> n + 1, user |-> idReq[t].user, expires |-> idNow + 1, revoked |-> FALSE]
    OBVIOUS
<1>4. PICK a : a = StoreCreateControlRefreshToken(idStore, k) OBVIOUS
<1>5. PICK b : b = PgCreateControlRefreshToken(idPg, k) OBVIOUS
<1>6. /\ IdCall(a, b) /\ Goto(t, NoReq) /\ idReq[t].op = "session"
      /\ logins' = IF idReq[t].via = NoIdentity THEN logins
                   ELSE logins \cup {<<idReq[t].via.identity, idReq[t].user>>}
    BY <1>2, <1>3, <1>4, <1>5 DEF SessionForUser, Finish, Is
<1>7. Token(k) /\ k.hash = n + 1 /\ k.user = idReq[t].user BY <1>3 DEF Token
<1>8. /\ SameIdentities(idStore, idPg) /\ idReq[t].user \in DOMAIN idStore.users
      /\ idReq[t].via # NoIdentity => Links(idStore, idReq[t].via.identity, idReq[t].user)
    BY <1>6 DEF AccountInv, Held, HeldUser
<1>9. Answered(idStore, idPg, a, b) BY <1>2, <1>4, <1>5, <1>7, <1>8, TokenCalls
<1>10. DOMAIN a.db.invites = DOMAIN idStore.invites BY <1>4, <1>8, CallsKeepInvites DEF SameIdentities
<1>11. Kept BY <1>6, <1>9, <1>10, KeptCalling
<1>12. idReq' = [idReq EXCEPT ![t] = NoReq] /\ idReq'[t] = NoReq BY <1>6 DEF Goto, AccountInv, Requests
<1>13. Moved(t) BY <1>12, IdleHeld DEF Moved
<1>14. \A x \in logins' : x \in logins \/ Links(idStore', x[1], x[2])
    BY <1>6, <1>8, <1>11 DEF Kept, Grows, Links
<1> QED BY <1>11, <1>13, <1>14, AccountMoves

\* A membership is of a known user in a known organization.
LEMMA KnownMember ==
    ASSUME NEW s, NEW p, SameIdentities(s, p), NEW u, NEW o, StoreOrganizationMembership(s, u, o) # NotFound
    PROVE  u \in DOMAIN s.users /\ o \in DOMAIN s.organizations
BY DEF StoreOrganizationMembership, At, SameIdentities, MemberTable

\* Accepting or revoking an invitation settles it the same way.
LEMMA SettledEither ==
    ASSUME NEW v, InviteRow(v), NEW w, w = [v EXCEPT !.accepted = TRUE] \/ w = [v EXCEPT !.revoked = TRUE]
    PROVE  InviteRow(w) /\ w.hash = v.hash /\ Settled(w) = Settled(v)
<1> USE DEF InviteRow, InviteFields
<1>1. CASE w = [v EXCEPT !.accepted = TRUE] BY <1>1 DEF Settled
<1>2. CASE w = [v EXCEPT !.revoked = TRUE] BY <1>2 DEF Settled
<1> QED BY <1>1, <1>2

\* Checking that the caller is a member with the right role.
LEMMA AuthenticateAccounts ==
    ASSUME AccountInv, NEW t \in Threads, NEW user, NEW org, AuthenticateControlRequest(t, user, org)
    PROVE  AccountInv'
<1>1. PICK r : r = [op |-> "authenticated", user |-> user, org |-> org, scopes |-> Role(user, org).scopes]
    OBVIOUS
<1>2. Read(t, "idle", r) /\ logins' = logins /\ Role(user, org) # NotFound
    BY <1>1 DEF AuthenticateControlRequest, MembersRest, SigninRest
<1>3. user \in DOMAIN idStore.users /\ org \in DOMAIN idStore.organizations
    BY <1>2, KnownMember DEF AccountInv, Role
<1>4. "op" \in DOMAIN r /\ Held(idStore, r)
    BY <1>1, <1>3 DEF Held, HeldUser, HeldToken, HeldPat, HeldInvite, MemberOps
<1> QED BY <1>2, <1>4, ReadMoves

\* Writing an organization and its first owner.
LEMMA OrganizationAccounts ==
    ASSUME AccountInv, NEW t \in Threads, NEW user, CreateOrganization(t, user)
    PROVE  AccountInv'
<1>1. PICK o : o = [id |-> 1, usage |-> "default"] OBVIOUS
<1>2. PICK a : a = StoreCreateOrganization(idStore, o) OBVIOUS
<1>3. PICK r : r = [op |-> "first owner", user |-> user, org |-> 1] OBVIOUS
<1>4. /\ IdCall(a, PgCreateOrganization(idPg, o)) /\ Goto(t, r) /\ logins' = logins
      /\ user \in DOMAIN idStore.users
    BY <1>1, <1>2, <1>3 DEF CreateOrganization, MembersRest, SigninRest
<1>5. SameIdentities(idStore, idPg) BY DEF AccountInv
<1>6. Answered(idStore, idPg, a, PgCreateOrganization(idPg, o)) BY <1>2, <1>5, OrganizationCalls
<1>7. DOMAIN a.db.invites = DOMAIN idStore.invites BY <1>2, <1>5, CallsKeepInvites DEF SameIdentities
<1>8. 1 \in DOMAIN a.db.organizations BY <1>2, <1>5, OrgCreated, <1>1 DEF SameIdentities
<1>9. user \in DOMAIN a.db.users BY <1>4, <1>6 DEF Answered, Grows
<1>10. "op" \in DOMAIN r /\ Held(a.db, r)
    BY <1>3, <1>8, <1>9 DEF Held, HeldUser, HeldToken, HeldPat, HeldInvite, MemberOps
<1> QED BY <1>4, <1>6, <1>7, <1>10, CallMoves

\* Writing a membership of a known user in a known organization.
LEMMA UpsertAccounts ==
    ASSUME AccountInv, NEW t \in Threads, NEW m, NEW r, Upsert(m), Goto(t, r), logins' = logins,
           m.user \in DOMAIN idStore.users, m.org \in DOMAIN idStore.organizations,
           "op" \in DOMAIN r, Held(idStore, r)
    PROVE  AccountInv'
<1>1. PICK a : a = StoreUpsertOrganizationMembership(idStore, m) OBVIOUS
<1>2. IdCall(a, PgUpsertOrganizationMembership(idPg, m)) BY <1>1 DEF Upsert
<1>3. SameIdentities(idStore, idPg) BY DEF AccountInv
<1>4. Answered(idStore, idPg, a, PgUpsertOrganizationMembership(idPg, m)) BY <1>1, <1>3, OrganizationCalls
<1>5. DOMAIN a.db.invites = DOMAIN idStore.invites BY <1>1, <1>3, CallsKeepInvites DEF SameIdentities
<1>6. Held(a.db, r) BY <1>4, HeldGrows DEF Answered
<1> QED BY <1>2, <1>4, <1>5, <1>6, CallMoves

\* Changing and removing members under the check that one owner stays.
LEMMA OwnerAccounts ==
    ASSUME AccountInv, NEW t \in Threads, CreateOrganizationOwner(t) \/ UpdateMembership(t)
    PROVE  AccountInv'
<1>1. PICK role : role = IF idReq[t].op = "first owner" THEN "owner" ELSE idReq[t].role OBVIOUS
<1>2. PICK m : m = Membership(idReq[t].user, idReq[t].org, role) OBVIOUS
<1>3. /\ Upsert(m) /\ Goto(t, NoReq) /\ logins' = logins /\ idReq[t].op \in MemberOps
    BY <1>1, <1>2 DEF CreateOrganizationOwner, UpdateMembership, Is, Finish, MembersRest, SigninRest, MemberOps
<1>4. m.user = idReq[t].user /\ m.org = idReq[t].org BY <1>2 DEF Membership
<1>5. idReq[t].user \in DOMAIN idStore.users /\ idReq[t].org \in DOMAIN idStore.organizations
    BY <1>3 DEF AccountInv, Held, HeldUser
<1> QED BY <1>3, <1>4, <1>5, IdleHeld, UpsertAccounts

\* Removing a member.
LEMMA DeleteAccounts ==
    ASSUME AccountInv, NEW t \in Threads, DeleteMembership(t)
    PROVE  AccountInv'
<1>1. PICK u : u = idReq[t].user OBVIOUS
<1>2. PICK o : o = idReq[t].org OBVIOUS
<1>3. PICK a : a = StoreDeleteOrganizationMembership(idStore, u, o) OBVIOUS
<1>4. IdCall(a, PgDeleteOrganizationMembership(idPg, u, o)) /\ Goto(t, NoReq) /\ logins' = logins
    BY <1>1, <1>2, <1>3 DEF DeleteMembership, Finish, MembersRest, SigninRest
<1>5. SameIdentities(idStore, idPg) BY DEF AccountInv
<1>6. Answered(idStore, idPg, a, PgDeleteOrganizationMembership(idPg, u, o)) BY <1>3, <1>5, OrganizationCalls
<1>7. DOMAIN a.db.invites = DOMAIN idStore.invites BY <1>3, <1>5, CallsKeepInvites DEF SameIdentities
<1> QED BY <1>4, <1>6, <1>7, IdleHeld, CallMoves

\* Changing a member goes on with the same member of the same organization.
LEMMA MemberAccounts ==
    ASSUME AccountInv, NEW t \in Threads,
           \/ \E user, role : UpdateOrganizationMember(t, user, role)
           \/ ReadMembership(t) \/ KeepsAnOwner(t)
    PROVE  AccountInv'
<1> USE DEF Held, HeldUser, HeldToken, HeldPat, HeldInvite, MemberOps
<1>1. "op" \in DOMAIN idReq[t] /\ Held(idStore, idReq[t]) /\ SameIdentities(idStore, idPg)
    BY DEF AccountInv, Requests
<1>2. ASSUME NEW user, NEW role, UpdateOrganizationMember(t, user, role) PROVE AccountInv'
    <2>1. PICK r : r = [op |-> "change member", user |-> user, org |-> idReq[t].org, role |-> role] OBVIOUS
    <2>2. /\ Read(t, "authenticated", r) /\ logins' = logins
          /\ Role(user, idReq[t].org) # NotFound
        BY <1>2, <2>1 DEF UpdateOrganizationMember, MembersRest, SigninRest
    <2>3. user \in DOMAIN idStore.users /\ idReq[t].org \in DOMAIN idStore.organizations
        BY <1>1, <2>2, KnownMember DEF Role
    <2>4. "op" \in DOMAIN r /\ Held(idStore, r) BY <2>1, <2>3
    <2> QED BY <2>2, <2>4, ReadMoves
<1>3. ASSUME NEW op \in MemberOps, idReq[t].op \in MemberOps
      PROVE  "op" \in DOMAIN [idReq[t] EXCEPT !.op = op] /\ Held(idStore, [idReq[t] EXCEPT !.op = op])
    BY <1>1, <1>3
<1>4. CASE ReadMembership(t)
    BY <1>4, IdleHeld, <1>3, ReadMoves DEF ReadMembership, MembersRest, SigninRest, Read, Is
<1>5. CASE KeepsAnOwner(t)
    BY <1>5, IdleHeld, <1>3, ReadMoves DEF KeepsAnOwner, MembersRest, SigninRest, Read, Is
<1> QED BY <1>2, <1>4, <1>5

\* Invitations.
LEMMA InviteAccounts ==
    ASSUME AccountInv, NEW t \in Threads, NEW e, NEW role, CreateOrganizationInvite(t, e, role)
    PROVE  AccountInv'
<1>1. PICK n \in Nat : DOMAIN idStore.invites = 1..n BY DEF AccountInv, InvitesNumbered
<1>2. Cardinality(DOMAIN idStore.invites) = n /\ n + 1 \notin DOMAIN idStore.invites
    BY <1>1, FS_Interval
<1>3. PICK v : v = [id |-> n + 1, hash |-> n + 1, org |-> idReq[t].org, email |-> e, role |-> role,
                    inviter |-> idReq[t].user, expires |-> idNow + 1, accepted |-> FALSE,
                    revoked |-> FALSE]
    OBVIOUS
<1>4. PICK a : a = StoreCreateOrganizationInvite(idStore, v) OBVIOUS
<1>5. PICK b : b = PgCreateOrganizationInvite(idPg, v) OBVIOUS
<1>6. IdCall(a, b) /\ Goto(t, NoReq) /\ logins' = logins /\ idReq[t].op = "authenticated"
    BY <1>2, <1>3, <1>4, <1>5 DEF CreateOrganizationInvite, Finish, Is, MembersRest, SigninRest
<1>7. InviteRow(v) BY <1>3 DEF InviteFields, InviteRow
<1>8. v.hash = n + 1 /\ v.org = idReq[t].org /\ v.inviter = idReq[t].user BY <1>3
<1>9. /\ SameIdentities(idStore, idPg) /\ v.inviter \in DOMAIN idStore.users
      /\ v.org \in DOMAIN idStore.organizations
    BY <1>6, <1>8 DEF AccountInv, Held, HeldUser, MemberOps
<1>10. Answered(idStore, idPg, a, b) BY <1>2, <1>4, <1>5, <1>7, <1>8, <1>9, InviteCalls
<1>11. InvitesNumbered(a.db)
    <2>1. PICK s : s = a.db OBVIOUS
    <2>2. PICK p : p = b.db OBVIOUS
    <2>3. \E r \in idPg.organizations : r.id = v.org BY <1>9, KnownRows
    <2>4. DOMAIN s.invites = DOMAIN idStore.invites \cup {v.hash}
        BY <1>2, <1>4, <1>5, <1>7, <1>8, <1>9, <2>1, <2>2, <2>3, InviteCreated DEF SameIdentities
    <2>5. DOMAIN s.invites = 1..(n + 1) BY <1>1, <1>8, <2>4
    <2> QED BY <2>1, <2>5 DEF InvitesNumbered
<1>12. Kept BY <1>6, <1>10, <1>11 DEF IdCall, AccountInv, Answered, Kept
<1>13. idReq' = [idReq EXCEPT ![t] = NoReq] /\ idReq'[t] = NoReq BY <1>6 DEF Goto, AccountInv, Requests
<1>14. Moved(t) BY <1>13, IdleHeld DEF Moved
<1> QED BY <1>6, <1>12, <1>14, AccountMoves

\* Revoking an invitation.
LEMMA RevokeInviteAccounts ==
    ASSUME AccountInv, NEW t \in Threads, NEW id, RevokeInvite(t, id)
    PROVE  AccountInv'
<1>1. PICK rows : rows = {idStore.invites[h] : h \in {x \in DOMAIN idStore.invites :
            idStore.invites[x].org = idReq[t].org /\ idStore.invites[x].id = id}}
    OBVIOUS
<1>2. StoreOrganizationInviteByID(idStore, idReq[t].org, id) = One(rows)
    BY <1>1 DEF StoreOrganizationInviteByID
<1>3. PICK v : v = One(rows) OBVIOUS
<1>4. PICK w : w = IF v.accepted \/ v.revoked THEN NoReq
                   ELSE [op |-> "invite", invite |-> [v EXCEPT !.revoked = TRUE]]
    OBVIOUS
<1>5. v # NotFound /\ Read(t, "authenticated", w) /\ logins' = logins
    BY <1>2, <1>3, <1>4 DEF RevokeInvite, MembersRest, SigninRest
<1>6. v \in rows BY <1>3, <1>5 DEF One
<1>7. PICK h \in DOMAIN idStore.invites : v = idStore.invites[h] BY <1>1, <1>6
<1>8. InviteRow(v) /\ v.hash = h BY <1>7 DEF AccountInv, SameIdentities, InviteTable
<1>9. "op" \in DOMAIN w /\ Held(idStore, w)
    <2>1. CASE w = NoReq BY <2>1, IdleHeld
    <2>2. CASE w = [op |-> "invite", invite |-> [v EXCEPT !.revoked = TRUE]]
        BY <1>8, SettledEither, <2>2, <1>7 DEF Held, HeldUser, HeldToken, HeldPat, HeldInvite,
           MemberOps
    <2> QED BY <1>4, <2>1, <2>2
<1> QED BY <1>5, <1>9, ReadMoves

\* Reading the invitation that a user accepts.
LEMMA AcceptAccounts ==
    ASSUME AccountInv, NEW t \in Threads, NEW h \in DOMAIN idStore.invites, AcceptInvite(t, h)
    PROVE  AccountInv'
<1>1. PICK v : v = idStore.invites[h] OBVIOUS
<1>2. StoreOrganizationInviteByTokenHash(idStore, h) = v BY <1>1 DEF StoreOrganizationInviteByTokenHash, At
<1>3. PICK u : u = StoreUserByEmail(idStore, v.email).id OBVIOUS
<1>4. PICK r : r = [op |-> "accept", invite |-> v, user |-> u] OBVIOUS
<1>5. Read(t, "idle", r) /\ logins' = logins /\ StoreUserByEmail(idStore, v.email) # NotFound
    BY <1>2, <1>3, <1>4 DEF AcceptInvite, MembersRest, SigninRest
<1>6. u \in DOMAIN idStore.users BY <1>3, <1>5, FoundUser DEF AccountInv
<1>7. InviteRow(v) /\ v.hash = h BY <1>1 DEF AccountInv, SameIdentities, InviteTable
<1>8. "op" \in DOMAIN r /\ Held(idStore, r)
    BY <1>1, <1>4, <1>6, <1>7 DEF Held, HeldUser, HeldToken, HeldPat, HeldInvite, MemberOps
<1> QED BY <1>5, <1>8, ReadMoves

\* Joining the organization of an invitation.
LEMMA JoinAccounts ==
    ASSUME AccountInv, NEW t \in Threads, AcceptInviteJoin(t)
    PROVE  AccountInv'
<1>1. PICK v : v = idReq[t].invite OBVIOUS
<1>2. PICK w : w = [v EXCEPT !.accepted = TRUE] OBVIOUS
<1>3. PICK r : r = [op |-> "invite", invite |-> w] OBVIOUS
<1>4. PICK m : m = Membership(idReq[t].user, v.org, v.role) OBVIOUS
<1>5. Upsert(m) /\ Goto(t, r) /\ logins' = logins /\ idReq[t].op = "accept"
    BY <1>1, <1>2, <1>3, <1>4 DEF AcceptInviteJoin, Is, MembersRest, SigninRest
<1>6. /\ InviteRow(v) /\ v.hash \in DOMAIN idStore.invites /\ Settled(v) = Settled(idStore.invites[v.hash])
      /\ idReq[t].user \in DOMAIN idStore.users
    BY <1>1, <1>5 DEF AccountInv, Held, HeldInvite, HeldUser
<1>7. PICK c : c = idStore.invites[v.hash] OBVIOUS
<1>8. InviteRow(c) /\ c.org \in DOMAIN idStore.organizations
    BY <1>6, <1>7 DEF AccountInv, SameIdentities, InviteTable
<1>9. v.org = c.org BY <1>6, <1>7, <1>8, SettledSame
<1>10. m.user = idReq[t].user /\ m.org = v.org BY <1>4 DEF Membership
<1>11. InviteRow(w) /\ w.hash = v.hash /\ Settled(w) = Settled(v) BY <1>2, <1>6, SettledEither
<1>12. "op" \in DOMAIN r /\ Held(idStore, r)
    BY <1>3, <1>6, <1>11 DEF Held, HeldUser, HeldToken, HeldPat, HeldInvite, MemberOps
<1> QED BY <1>5, <1>6, <1>8, <1>9, <1>10, <1>12, UpsertAccounts

\* Writing the invitation back as accepted or revoked.
LEMMA UpdateInviteAccounts ==
    ASSUME AccountInv, NEW t \in Threads, UpdateInvite(t)
    PROVE  AccountInv'
<1>1. PICK v : v = idReq[t].invite OBVIOUS
<1>2. PICK a : a = StoreUpdateOrganizationInvite(idStore, v) OBVIOUS
<1>3. PICK b : b = PgUpdateOrganizationInvite(idPg, v) OBVIOUS
<1>4. IdCall(a, b) /\ Goto(t, NoReq) /\ logins' = logins /\ idReq[t].op = "invite"
    BY <1>1, <1>2, <1>3 DEF UpdateInvite, Finish, Is, MembersRest, SigninRest
<1>5. /\ InviteRow(v) /\ v.hash \in DOMAIN idStore.invites /\ Settled(v) = Settled(idStore.invites[v.hash])
      /\ SameIdentities(idStore, idPg)
    BY <1>1, <1>4 DEF AccountInv, Held, HeldInvite
<1>6. Answered(idStore, idPg, a, b) BY <1>2, <1>3, <1>5, InviteCalls
<1>7. DOMAIN a.db.invites = DOMAIN idStore.invites
    BY <1>2, <1>3, <1>5, InviteUpdated DEF SameIdentities
<1> QED BY <1>4, <1>6, <1>7, IdleHeld, CallMoves

\* A copy of a token, with its user's changes to it.
LEMMA PatHeld ==
    ASSUME NEW s, NEW p, SameIdentities(s, p), NEW id \in DOMAIN s.pats, NEW w,
           w = s.pats[id] \/ w = [s.pats[id] EXCEPT !.used = TRUE] \/ w = [s.pats[id] EXCEPT !.revoked = TRUE]
    PROVE  DOMAIN w = PatFields /\ w.id \in DOMAIN s.pats /\ s.pats[w.id].hash = w.hash
<1>1. PICK c : c = s.pats[id] OBVIOUS
<1>2. c.id = id /\ DOMAIN c = PatFields BY <1>1 DEF SameIdentities, PatTable
<1>3. CASE w = c BY <1>1, <1>2, <1>3
<1>4. CASE w = [c EXCEPT !.used = TRUE] BY <1>1, <1>2, <1>4 DEF PatFields
<1>5. CASE w = [c EXCEPT !.revoked = TRUE] BY <1>1, <1>2, <1>5 DEF PatFields
<1> QED BY <1>1, <1>3, <1>4, <1>5

\* Creating a token, keeping a code, or time passing leave every request alone.
LEMMA AsideAccounts ==
    ASSUME AccountInv,
           \/ \E t \in Threads, user \in Users : \E org, scopes : CreatePersonalAccessToken(t, user, org, scopes)
           \/ \E i, e : ControlOIDCCallback(i, e)
           \/ \E user : ControlCLICode(user)
           \/ TimePasses
    PROVE  AccountInv'
<1>1. ASSUME NEW t, NEW user \in Users, NEW org, NEW scopes, CreatePersonalAccessToken(t, user, org, scopes)
      PROVE  AccountInv'
    <2>1. PICK n : n = Cardinality(DOMAIN idStore.pats) + 1 OBVIOUS
    <2>2. PICK k : k = [id |-> n, hash |-> n, user |-> user, org |-> org, scopes |-> scopes,
                        expires |-> idNow + 1, used |-> FALSE, revoked |-> FALSE]
        OBVIOUS
    <2>3. PICK a : a = StoreCreatePersonalAccessToken(idStore, k) OBVIOUS
    <2>4. IdCall(a, PgCreatePersonalAccessToken(idPg, k)) /\ idReq' = idReq /\ logins' = logins
        BY <1>1, <2>1, <2>2, <2>3 DEF CreatePersonalAccessToken, MembersRest, SigninRest
    <2>5. SameIdentities(idStore, idPg) BY DEF AccountInv
    <2>6. DOMAIN k = PatFields /\ k.user = user BY <2>2 DEF PatFields
    <2>7. Answered(idStore, idPg, a, PgCreatePersonalAccessToken(idPg, k))
        BY <2>3, <2>5, <2>6, PatCalls DEF Users
    <2>8. DOMAIN a.db.invites = DOMAIN idStore.invites BY <2>3, <2>5, CallsKeepInvites DEF SameIdentities
    <2>9. Kept BY <2>4, <2>7, <2>8, KeptCalling
    <2> QED BY <2>4, <2>9, AccountStays
<1>2. ASSUME idStore' = idStore, idPg' = idPg, idAgreed' = idAgreed, idReq' = idReq, logins' = logins
      PROVE  AccountInv'
    BY <1>2, KeptReading, AccountStays
<1>3. ASSUME NEW c, KeepCode(c) PROVE AccountInv' BY <1>2, <1>3 DEF KeepCode, SigninRest
<1>4. CASE TimePasses BY <1>2, <1>4 DEF TimePasses
<1> QED BY <1>1, <1>3, <1>4 DEF ControlOIDCCallback, ControlCLICode

\* Creating, reading and revoking personal access tokens.
LEMMA PatAccounts ==
    ASSUME AccountInv, NEW t \in Threads,
           \/ \E user, id : RevokePersonalAccessToken(t, user, id)
           \/ \E hash : SessionForPersonalAccessToken(t, hash)
           \/ \E hash, org : ValidatePersonalAccessToken(t, hash, org)
           \/ ValidateScopes(t)
    PROVE  AccountInv'
<1> USE DEF Held, HeldUser, HeldToken, HeldPat, HeldInvite, MemberOps
<1>1. SameIdentities(idStore, idPg) BY DEF AccountInv
<1>2. ASSUME NEW op, NEW w, Read(t, op, [op |-> "pat", pat |-> w]), logins' = logins,
             DOMAIN w = PatFields, w.id \in DOMAIN idStore.pats, idStore.pats[w.id].hash = w.hash
      PROVE  AccountInv' BY <1>2, ReadMoves
<1>3. ASSUME NEW hash, StorePersonalAccessTokenByHash(idStore, hash) # NotFound
      PROVE  \E id \in DOMAIN idStore.pats : StorePersonalAccessTokenByHash(idStore, hash) = idStore.pats[id]
    BY <1>1, <1>3 DEF SameIdentities, PatTable, StorePersonalAccessTokenByHash, At
<1>4. ASSUME NEW user, NEW id, RevokePersonalAccessToken(t, user, id) PROVE AccountInv'
    BY <1>4, <1>1, PatHeld, <1>2 DEF RevokePersonalAccessToken, StorePersonalAccessTokensByUser,
       MembersRest, SigninRest
<1>5. ASSUME NEW hash, SessionForPersonalAccessToken(t, hash) PROVE AccountInv'
    BY <1>5, <1>3, <1>1, PatHeld, <1>2 DEF SessionForPersonalAccessToken, MembersRest, SigninRest
<1>6. ASSUME NEW hash, NEW org, ValidatePersonalAccessToken(t, hash, org) PROVE AccountInv'
    <2>1. PICK p : p = StorePersonalAccessTokenByHash(idStore, hash) OBVIOUS
    <2>2. PICK r : r = [op |-> "validate pat", pat |-> p, org |-> org] OBVIOUS
    <2>3. p # NotFound /\ Read(t, "idle", r) /\ logins' = logins
        BY <1>6, <2>1, <2>2 DEF ValidatePersonalAccessToken, MembersRest, SigninRest
    <2>4. PICK n \in DOMAIN idStore.pats : p = idStore.pats[n] BY <1>3, <2>1, <2>3
    <2>5. DOMAIN p = PatFields /\ p.id \in DOMAIN idStore.pats /\ idStore.pats[p.id].hash = p.hash
        BY <1>1, <2>4, PatHeld
    <2>6. "op" \in DOMAIN r /\ Held(idStore, r) BY <2>2, <2>5
    <2> QED BY <2>3, <2>6, ReadMoves
<1>7. CASE ValidateScopes(t)
    <2>1. PICK p : p = idReq[t].pat OBVIOUS
    <2>2. PICK w : w = [p EXCEPT !.used = TRUE] OBVIOUS
    <2>3. PICK r : r \in {NoReq, [op |-> "pat", pat |-> w]} /\ Read(t, "validate pat", r)
        BY <1>7, <2>1, <2>2 DEF ValidateScopes
    <2>4. logins' = logins /\ idReq[t].op = "validate pat"
        BY <1>7 DEF ValidateScopes, MembersRest, SigninRest, Is
    <2>5. DOMAIN p = PatFields /\ p.id \in DOMAIN idStore.pats /\ idStore.pats[p.id].hash = p.hash
        BY <2>1, <2>4 DEF AccountInv
    <2>6. DOMAIN w = PatFields /\ w.id = p.id /\ w.hash = p.hash BY <2>2, <2>5 DEF PatFields
    <2>7. CASE r = NoReq BY <2>3, <2>4, <2>7, IdleHeld, ReadMoves
    <2>8. CASE r = [op |-> "pat", pat |-> w] BY <1>2, <2>3, <2>4, <2>5, <2>6, <2>8
    <2> QED BY <2>3, <2>7, <2>8
<1> QED BY <1>4, <1>5, <1>6, <1>7

\* Writing a personal access token back.
LEMMA UpdatePatAccounts ==
    ASSUME AccountInv, NEW t \in Threads, UpdatePersonalAccessToken(t)
    PROVE  AccountInv'
<1>1. PICK k : k = idReq[t].pat OBVIOUS
<1>2. PICK a : a = StoreUpdatePersonalAccessToken(idStore, k) OBVIOUS
<1>3. IdCall(a, PgUpdatePersonalAccessToken(idPg, k)) /\ Goto(t, NoReq) /\ logins' = logins /\ idReq[t].op = "pat"
    BY <1>1, <1>2 DEF UpdatePersonalAccessToken, Finish, Is, MembersRest, SigninRest
<1>4. DOMAIN k = PatFields /\ k.id \in DOMAIN idStore.pats /\ idStore.pats[k.id].hash = k.hash
    BY <1>1, <1>3 DEF AccountInv, Held, HeldPat
<1>5. SameIdentities(idStore, idPg) BY DEF AccountInv
<1>6. Answered(idStore, idPg, a, PgUpdatePersonalAccessToken(idPg, k)) BY <1>2, <1>4, <1>5, PatCalls
<1>7. DOMAIN a.db.invites = DOMAIN idStore.invites BY <1>2, <1>5, CallsKeepInvites DEF SameIdentities
<1> QED BY <1>3, <1>6, <1>7, IdleHeld, CallMoves

\* Every step of accounts keeps the invariant.
LEMMA AccountSteps ==
    ASSUME AccountInv, RefreshInv, AccountsNext
    PROVE  AccountInv'
<1>1. CASE SigninNext
    BY <1>1, SignupAccounts, CodeAccounts, OIDCAccounts, OIDCCreateAccounts, OIDCLinkAccounts, SessionAccounts,
       AsideAccounts DEF SigninNext
<1>2. CASE SessionNext
    BY <1>2, LoginAccounts, CodeAccounts, RefreshAccounts, RevokeAccounts, UserAccounts, SessionAccounts,
       AsideAccounts DEF SessionNext
<1>3. CASE MembersNext
    BY <1>3, OrganizationAccounts, AuthenticateAccounts, MemberAccounts, InviteAccounts, RevokeInviteAccounts,
       AcceptAccounts, OwnerAccounts, JoinAccounts, UpdateInviteAccounts, DeleteAccounts, AsideAccounts
       DEF MembersNext
<1>4. CASE PatsNext
    BY <1>4, AsideAccounts, PatAccounts, UpdatePatAccounts DEF PatsNext
<1> QED BY <1>1, <1>2, <1>3, <1>4 DEF AccountsNext

\* A table with nothing in it.
LEMMA NoRows == DOMAIN None = {} /\ Rows(None) = {}
BY DEF None, Rows

\* The accounts a flow starts from are the same in both repositories.
LEMMA SeededUsers ==
    ASSUME NEW n \in Nat, NEW people, DOMAIN people = 1..n, \A a, b \in 1..n : people[a] = people[b] => a = b,
           NEW users, users = [k \in DOMAIN people |-> [id |-> k, email |-> people[k]]],
           NEW byEmail, byEmail = [e \in {people[k] : k \in DOMAIN people} |-> CHOOSE k \in DOMAIN people : people[k] = e]
    PROVE  UserTable(users, byEmail, None, {[id |-> k, email |-> people[k]] : k \in DOMAIN people}, {})
<1>1. DOMAIN people = 1..n OBVIOUS
<1>2. DOMAIN users = 1..n /\ \A k \in 1..n : users[k] = [id |-> k, email |-> people[k]] BY <1>1
<1>3. DOMAIN byEmail = {people[k] : k \in 1..n} BY <1>1
<1>4. ASSUME NEW k \in 1..n PROVE people[k] \in DOMAIN byEmail /\ byEmail[people[k]] = k
    BY <1>3, <1>1
<1>5. \A e \in DOMAIN byEmail : byEmail[e] \in DOMAIN users /\ users[byEmail[e]].email = e
    BY <1>3, <1>2, <1>4
<1>6. \A k \in DOMAIN users : /\ users[k].id = k /\ users[k].email \in DOMAIN byEmail
                              /\ byEmail[users[k].email] = k
    BY <1>2, <1>4
<1>7. {[id |-> k, email |-> people[k]] : k \in DOMAIN people} = Rows(users) BY <1>1, <1>2 DEF Rows
<1>8. IsFiniteSet(DOMAIN users) BY FS_Interval, <1>2
<1>9. {} = {[identity |-> i, user |-> None[i]] : i \in DOMAIN None} BY NoRows
<1> QED BY <1>5, <1>6, <1>7, <1>8, <1>9, NoRows DEF UserTable

ByKey(members) ==
    [k \in {<<m.user, m.org>> : m \in members} |-> CHOOSE m \in members : <<m.user, m.org>> = k]

\* The owner and the viewer of an organization that is there at first.
LEMMA SeededMembers ==
    ASSUME NEW users, IsFiniteSet(users), 1 \in users, 2 \in users, NEW members,
           members = {Membership(1, 1, "owner"), Membership(2, 1, "viewer")},
           NEW mem, mem = ByKey(members)
    PROVE  MemberTable(mem, members, users, {1})
<1>1. PICK a : a = Membership(1, 1, "owner") OBVIOUS
<1>2. PICK b : b = Membership(2, 1, "viewer") OBVIOUS
<1> USE DEF ByKey
<1>3. a.user = 1 /\ a.org = 1 /\ b.user = 2 /\ b.org = 1 BY <1>1, <1>2 DEF Membership
<1>4. members = {a, b} BY <1>1, <1>2
<1>5. DOMAIN mem = {<<1, 1>>, <<2, 1>>} BY <1>3, <1>4
<1>6. <<1, 1>> # <<2, 1>> OBVIOUS
<1>7. mem[<<1, 1>>] = a BY <1>5, <1>3, <1>4, <1>6
<1>8. mem[<<2, 1>>] = b BY <1>5, <1>3, <1>4, <1>6
<1>9. members = Rows(mem) BY <1>4, <1>5, <1>7, <1>8 DEF Rows
<1>10. IsFiniteSet(DOMAIN mem)
    <2>1. IsFiniteSet({}) BY FS_EmptySet
    <2>2. IsFiniteSet({} \cup {<<1, 1>>}) BY <2>1, FS_AddElement, Zenon
    <2>3. IsFiniteSet(({} \cup {<<1, 1>>}) \cup {<<2, 1>>}) BY <2>2, FS_AddElement, Zenon
    <2>4. ({} \cup {<<1, 1>>}) \cup {<<2, 1>>} = DOMAIN mem BY <1>5
    <2> QED BY <2>3, <2>4
<1>11. \A k \in DOMAIN mem : k = <<mem[k].user, mem[k].org>> /\ mem[k].user \in users /\ mem[k].org \in {1}
    BY <1>3, <1>5, <1>7, <1>8
<1> QED BY <1>9, <1>10, <1>11 DEF MemberTable

\* The invariant holds when a flow starts.
LEMMA AccountsAtFirst == ASSUME AccountsStart PROVE AccountInv
<1>1. PICK n \in Nat, owner \in BOOLEAN : \E people :
          /\ DOMAIN people = 1..n
          /\ \A a, b \in 1..n : people[a] = people[b] => a = b
          /\ owner => n >= 2
          /\ Seeded(people, owner)
    BY DEF AccountsStart
<1>2. PICK people :
          /\ DOMAIN people = 1..n
          /\ \A a, b \in 1..n : people[a] = people[b] => a = b
          /\ owner => n >= 2
          /\ Seeded(people, owner)
    BY <1>1
<1>3. PICK users : users = [k \in DOMAIN people |-> [id |-> k, email |-> people[k]]] OBVIOUS
<1>4. PICK byEmail : byEmail = [e \in {people[k] : k \in DOMAIN people} |-> CHOOSE k \in DOMAIN people : people[k] = e]
    OBVIOUS
<1>5. PICK members : members = IF owner THEN {Membership(1, 1, "owner"), Membership(2, 1, "viewer")} ELSE {}
    OBVIOUS
<1>6. PICK mem : mem = ByKey(members) OBVIOUS
<1>7. PICK orgs : orgs = [o \in (IF owner THEN {1} ELSE {}) |-> [id |-> 1, usage |-> "default"]] OBVIOUS
<1>8. PICK orgRows : orgRows = IF owner THEN {[id |-> 1, usage |-> "default"]} ELSE {} OBVIOUS
<1>9. PICK rows : rows = {[id |-> k, email |-> people[k]] : k \in DOMAIN people} OBVIOUS
<1>10. /\ idStore = [StoreIdentity EXCEPT !.users = users, !.usersByEmail = byEmail,
                                          !.organizations = orgs, !.memberships = mem]
       /\ idPg = [PgIdentity EXCEPT !.users = rows, !.organizations = orgRows, !.user_organizations = members]
    BY <1>2, <1>3, <1>4, <1>5, <1>6, <1>7, <1>8, <1>9 DEF Seeded, ByKey
<1>11. /\ DOMAIN idStore = StoreFields /\ idStore.users = users /\ idStore.usersByEmail = byEmail
       /\ idStore.organizations = orgs /\ idStore.memberships = mem
       /\ idStore.oidcIdentities = None /\ idStore.controlRefresh = None /\ idStore.pats = None
       /\ idStore.patsByHash = None /\ idStore.invites = None
    BY <1>10 DEF StoreIdentity, StoreFields
<1>12. /\ DOMAIN idPg = PgFields /\ idPg.users = rows /\ idPg.organizations = orgRows
       /\ idPg.user_organizations = members /\ idPg.user_oidc_identities = {}
       /\ idPg.control_refresh_tokens = {} /\ idPg.personal_access_tokens = {}
       /\ idPg.organization_invites = {}
    BY <1>10 DEF PgIdentity, PgFields
<1>13. UserTable(users, byEmail, None, rows, {}) BY <1>2, <1>3, <1>4, <1>9, SeededUsers
<1>14. DOMAIN users = 1..n BY <1>2, <1>3
<1>15. OrgTable(orgs, orgRows) BY <1>7, <1>8 DEF OrgTable, Rows
<1>16. MemberTable(mem, members, DOMAIN users, DOMAIN orgs)
    <2>1. CASE owner BY <1>2, <1>14, <2>1, <1>7, <1>5, <1>13, <1>6, SeededMembers DEF UserTable
    <2>2. CASE ~owner BY <1>5, <2>2, <1>6, FS_EmptySet DEF ByKey, MemberTable, Rows
    <2> QED BY <2>1, <2>2
<1>17. /\ TokenTable(None, {}) /\ PatTable(None, None, {})
       /\ InviteTable(None, {}, DOMAIN users, DOMAIN orgs)
    BY NoRows DEF TokenTable, PatTable, InviteTable
<1>18. SameIdentities(idStore, idPg) BY <1>11, <1>12, <1>13, <1>15, <1>16, <1>17 DEF SameIdentities
<1>19. InvitesNumbered(idStore)
    <2>1. DOMAIN idStore.invites = 1..0 BY <1>11, NoRows
    <2> QED BY <2>1 DEF InvitesNumbered
<1>20. Requests(idReq) /\ idAgreed = TRUE /\ logins = {} /\ \A t \in Threads : idReq[t] = NoReq
    BY DEF AccountsStart, AccountsInit, Requests, NoReq
<1> QED BY <1>18, <1>19, <1>20, IdleHeld DEF AccountInv

\* The inductive invariant of accounts: both repositories hold the same rows, every
\* request holds what is in them, and every completed login went to the account its
\* identity is linked to.
THEOREM AccountInvariant == AccountsSpec => []AccountInv
<1>1. AccountsStart => AccountInv BY AccountsAtFirst
<1>2. AccountInv /\ RefreshInv /\ [AccountsNext]_accountsVars => AccountInv'
    BY AccountSteps, KeptReading, AccountStays DEF accountsVars
<1> QED BY <1>1, <1>2, RefreshInvariant, PTL DEF AccountsSpec

\* Whatever address the provider reports and whoever else is signing in, an identity
\* always opens sessions of the account it is linked to, and no address has two.
THEOREM OneAccount == AccountsSpec => []OneAccountPerIdentity
<1>1. ASSUME AccountInv PROVE OneAccountPerIdentity
    <2>1. \A x \in logins : Links(idStore, x[1], x[2]) /\ SameIdentities(idStore, idPg) BY <1>1 DEF AccountInv
    <2>2. \A x, y \in logins : x[1] = y[1] => x[2] = y[2] BY <2>1 DEF Links
    <2>3. \A x \in logins : StoreUserByOIDCIdentity(idStore, x[1]).id = x[2]
        BY <2>1, FoundUser DEF Links
    <2>4. UserTable(idStore.users, idStore.usersByEmail, idStore.oidcIdentities, idPg.users,
                    idPg.user_oidc_identities)
        BY <1>1 DEF AccountInv, SameIdentities
    <2>5. \A x, y \in Users : idStore.users[x].email = idStore.users[y].email => x = y
        BY <2>4 DEF UserTable, Users
    <2> QED BY <2>2, <2>3, <2>5 DEF OneAccountPerIdentity
<1> QED BY <1>1, AccountInvariant, PTL

\* Every lookup and listing answers the same from the store and from PostgreSQL, and
\* every write was accepted or refused by both.
THEOREM IdentitiesAgree == AccountsSpec => []IdentityBackendsAgree
<1>1. ASSUME AccountInv PROVE IdentityBackendsAgree
    <2>1. /\ UserTable(idStore.users, idStore.usersByEmail, idStore.oidcIdentities, idPg.users,
                       idPg.user_oidc_identities)
          /\ TokenTable(idStore.controlRefresh, idPg.control_refresh_tokens)
          /\ PatTable(idStore.pats, idStore.patsByHash, idPg.personal_access_tokens)
          /\ OrgTable(idStore.organizations, idPg.organizations)
          /\ MemberTable(idStore.memberships, idPg.user_organizations, DOMAIN idStore.users,
                         DOMAIN idStore.organizations)
          /\ InviteTable(idStore.invites, idPg.organization_invites, DOMAIN idStore.users,
                         DOMAIN idStore.organizations)
        BY <1>1 DEF AccountInv, SameIdentities
    <2>2. /\ StoreUserCount(idStore) = PgUserCount(idPg)
          /\ \A e : StoreUserByEmail(idStore, e) = PgUserByEmail(idPg, e)
          /\ \A u : StoreUserByID(idStore, u) = PgUserByID(idPg, u)
          /\ \A i : StoreUserByOIDCIdentity(idStore, i) = PgUserByOIDCIdentity(idPg, i)
        BY <2>1, UserLookups
    <2>3. \A k : StoreControlRefreshToken(idStore, k) = PgControlRefreshToken(idPg, k)
        BY <2>1, TokenLookups
    <2>4. /\ \A h : StorePersonalAccessTokenByHash(idStore, h) = PgPersonalAccessTokenByHash(idPg, h)
          /\ \A u : StorePersonalAccessTokensByUser(idStore, u) = PgPersonalAccessTokensByUser(idPg, u)
        BY <2>1, PatLookups
    <2>5. /\ StoreListOrganizations(idStore) = PgListOrganizations(idPg)
          /\ \A o : StoreGetOrganization(idStore, o) = PgGetOrganization(idPg, o)
        BY <2>1, OrgLookups
    <2>6. /\ \A u, o : /\ StoreOrganizationMembership(idStore, u, o) = PgOrganizationMembership(idPg, u, o)
                       /\ StoreUserBelongsToOrganization(idStore, u, o)
                            = PgUserBelongsToOrganization(idPg, u, o)
          /\ \A o : /\ StoreListOrganizationMembers(idStore, o) = PgListOrganizationMembers(idPg, o)
                    /\ StoreOwnerCount(idStore, o) = PgOwnerCount(idPg, o)
          /\ \A u : /\ StoreCountOwnedOrganizationsByUser(idStore, u) = PgCountOwnedOrganizationsByUser(idPg, u)
                    /\ StoreListOrganizationsForUser(idStore, u) = PgListOrganizationsForUser(idPg, u)
        BY <2>1, MemberLookups
    <2>7. /\ \A h : StoreOrganizationInviteByTokenHash(idStore, h) = PgOrganizationInviteByTokenHash(idPg, h)
          /\ \A o, id : StoreOrganizationInviteByID(idStore, o, id) = PgOrganizationInviteByID(idPg, o, id)
          /\ \A o : StoreOrganizationInvitesByOrg(idStore, o) = PgOrganizationInvitesByOrg(idPg, o)
        BY <2>1, InviteLookups
    <2> QED BY <1>1, <2>2, <2>3, <2>4, <2>5, <2>6, <2>7 DEF AccountInv, IdentityBackendsAgree
<1> QED BY <1>1, AccountInvariant, PTL

-----------------------------------------------------------------------------
(* The OAuth server's tables.                                              *)

OAFields == {"oauthClients", "oauthCodes", "oauthTokens", "oauthRefresh", "partnerIntegrations",
             "partnerConnections", "partnerByExternal", "organizations", "users"}
OAPgFields == {"oauth_clients", "oauth_authorization_codes", "oauth_tokens", "partner_integrations",
               "partner_connections", "organizations", "users"}
OAKeeps(s, n, fields) == DOMAIN n = OAFields /\ \A f \in OAFields \ fields : n[f] = s[f]
OAPgKeeps(p, q, fields) == DOMAIN q = OAPgFields /\ \A f \in OAPgFields \ fields : q[f] = p[f]

Numbered(f) == \E n \in Nat : DOMAIN f = 1..n

ClientTable(clients, rows) ==
    /\ rows = Rows(clients) /\ IsFiniteSet(DOMAIN clients)
    /\ \A id \in DOMAIN clients : clients[id].id = id /\ "id" \in DOMAIN clients[id]

CodeFields == {"hash", "client", "user", "org", "scopes", "expires", "used"}
Used(a) == [a EXCEPT !.used = TRUE]
CodeTable(made, rows, users, orgs) ==
    /\ rows = Rows(made) /\ Numbered(made)
    /\ \A h \in DOMAIN made : /\ made[h].hash = h /\ DOMAIN made[h] = CodeFields
                              /\ made[h].user \in users /\ made[h].org \in orgs

\* The token of a connection has no user, which is written 0.
GrantFields == {"hash", "refresh", "client", "user", "connection", "org", "scopes", "expires", "created",
                "revoked"}
GrantTable(tokens, refresh, rows, users, orgs) ==
    /\ rows = Rows(tokens) /\ Numbered(tokens)
    /\ \A h \in DOMAIN tokens : /\ tokens[h].hash = h /\ tokens[h].refresh = h /\ DOMAIN tokens[h] = GrantFields
                                /\ tokens[h].user \in users \cup {0} /\ tokens[h].org \in orgs
    /\ refresh = [h \in DOMAIN tokens |-> h]

IntegrationTable(made, rows) ==
    rows = Rows(made) /\ \A id \in DOMAIN made : made[id].id = id /\ "id" \in DOMAIN made[id]

\* A connection has the number of the organization made for it; the index leads to
\* the connection of an external account.
ConnectionFields == {"id", "integration", "external", "org", "status"}
ConnectionTable(conns, byExternal, rows, orgs) ==
    /\ rows = Rows(conns)
    /\ \A id \in DOMAIN conns : /\ conns[id].id = id /\ DOMAIN conns[id] = ConnectionFields
                                /\ conns[id].org \in orgs /\ conns[id].integration = Integration
                                /\ <<Integration, conns[id].external>> \in DOMAIN byExternal
                                /\ byExternal[<<Integration, conns[id].external>>] = id
    /\ \A key \in DOMAIN byExternal : /\ byExternal[key] \in DOMAIN conns
                                      /\ key = <<Integration, conns[byExternal[key]].external>>
    /\ \E n \in Nat : n >= 1 /\ orgs = 1..n /\ DOMAIN conns = 2..n

KnownTable(known, rows) == rows = Rows(known) /\ \A id \in DOMAIN known : known[id].id = id

SameOAuth(s, p) ==
    /\ DOMAIN s = OAFields /\ DOMAIN p = OAPgFields
    /\ KnownTable(s.users, p.users) /\ OAuthUser \in DOMAIN s.users
    /\ KnownTable(s.organizations, p.organizations)
    /\ ClientTable(s.oauthClients, p.oauth_clients)
    /\ CodeTable(s.oauthCodes, p.oauth_authorization_codes, DOMAIN s.users, DOMAIN s.organizations)
    /\ GrantTable(s.oauthTokens, s.oauthRefresh, p.oauth_tokens, DOMAIN s.users, DOMAIN s.organizations)
    /\ IntegrationTable(s.partnerIntegrations, p.partner_integrations)
    /\ ConnectionTable(s.partnerConnections, s.partnerByExternal, p.partner_connections,
                       DOMAIN s.organizations)

\* A lookup by the key of a table.
LEMMA KeyLookup ==
    ASSUME NEW f, NEW rows, rows = Rows(f)
    PROVE  /\ (\A k \in DOMAIN f : f[k].id = k) => \A id : One({r \in rows : r.id = id}) = At(f, id)
           /\ (\A k \in DOMAIN f : f[k].hash = k) => \A h : One({r \in rows : r.hash = h}) = At(f, h)
BY RowAt DEF Rows

\* OAuth clients are found, counted and listed alike.
LEMMA ClientLookups ==
    ASSUME NEW s, NEW p, ClientTable(s.oauthClients, p.oauth_clients)
    PROVE  /\ \A id : StoreOAuthClient(s, id) = PgOAuthClient(p, id)
           /\ \A o : /\ StoreCountOAuthClientsByOwnerOrg(s, o) = PgCountOAuthClientsByOwnerOrg(p, o)
                     /\ StoreOAuthClientsByOwnerOrg(s, o) = PgOAuthClientsByOwnerOrg(p, o)
<1>1. \A id : StoreOAuthClient(s, id) = PgOAuthClient(p, id)
    BY KeyLookup DEF ClientTable, StoreOAuthClient, PgOAuthClient
<1>2. ASSUME NEW o
      PROVE  {s.oauthClients[id] : id \in {i \in DOMAIN s.oauthClients : s.oauthClients[i].owner = o}}
                = {r \in p.oauth_clients : r.owner = o}
    BY DEF ClientTable, Rows
<1>3. ASSUME NEW o PROVE StoreCountOAuthClientsByOwnerOrg(s, o) = PgCountOAuthClientsByOwnerOrg(p, o)
    <2>1. PICK c : c = s.oauthClients OBVIOUS
    <2>2. PICK D : D = {i \in DOMAIN c : c[i].owner = o} OBVIOUS
    <2>3. IsFiniteSet(DOMAIN c) /\ D \subseteq DOMAIN c BY <2>1, <2>2 DEF ClientTable
    <2>4. IsFiniteSet(D) BY <2>3, FS_Subset
    <2>5. \A j, k \in D : c[j] = c[k] => j = k BY <2>1, <2>2 DEF ClientTable
    <2>6. Cardinality({c[k] : k \in D}) = Cardinality(D) BY <2>3, <2>4, <2>5, RowsCounted
    <2>7. {c[k] : k \in D} = {r \in p.oauth_clients : r.owner = o} BY <1>2, <2>1, <2>2
    <2> QED BY <2>1, <2>2, <2>6, <2>7 DEF StoreCountOAuthClientsByOwnerOrg, PgCountOAuthClientsByOwnerOrg
<1> QED BY <1>1, <1>2, <1>3 DEF StoreOAuthClientsByOwnerOrg, PgOAuthClientsByOwnerOrg

\* So are authorization codes and tokens, grouped by client and by user too: the store folds
\* over its map where PostgreSQL takes the first row of each group.
LEMMA GrantLookups ==
    ASSUME NEW s, NEW p, SameOAuth(s, p)
    PROVE  /\ \A h : /\ StoreOAuthAuthorizationCode(s, h) = PgOAuthAuthorizationCode(p, h)
                     /\ StoreOAuthAccessToken(s, h) = PgOAuthAccessToken(p, h)
                     /\ StoreOAuthRefreshToken(s, h) = PgOAuthRefreshToken(p, h)
           /\ \A u, o : StoreOAuthConnections(s, u, o) = PgOAuthConnections(p, u, o)
           /\ \A c : StoreOAuthClientConnections(s, c) = PgOAuthClientConnections(p, c)
<1> USE DEF SameOAuth
<1>1. \A h : StoreOAuthAuthorizationCode(s, h) = PgOAuthAuthorizationCode(p, h)
    BY KeyLookup DEF CodeTable, StoreOAuthAuthorizationCode, PgOAuthAuthorizationCode
<1>2. \A h : StoreOAuthAccessToken(s, h) = PgOAuthAccessToken(p, h)
    BY KeyLookup DEF GrantTable, StoreOAuthAccessToken, PgOAuthAccessToken
<1>3. ASSUME NEW h PROVE StoreOAuthRefreshToken(s, h) = PgOAuthRefreshToken(p, h)
    BY <1>2 DEF GrantTable, Rows, StoreOAuthRefreshToken, At, PgOAuthRefreshToken,
       PgOAuthAccessToken, StoreOAuthAccessToken
<1>4. \A k \in p.oauth_tokens : \E h \in DOMAIN s.oauthTokens : k = s.oauthTokens[h] BY DEF GrantTable, Rows
<1>5. \A h \in DOMAIN s.oauthTokens : s.oauthTokens[h] \in p.oauth_tokens BY DEF GrantTable, Rows
<1>6. \A id : id \in DOMAIN s.oauthClients <=> \E c \in p.oauth_clients : c.id = id BY DEF ClientTable, Rows
<1>7. \A id : id \in DOMAIN s.users <=> \E u \in p.users : u.id = id BY DEF KnownTable, Rows
<1>8. \A id : id \in DOMAIN s.organizations <=> \E o \in p.organizations : o.id = id BY DEF KnownTable, Rows
<1>9. \A ks : Oldest(ks) = PgFirstOfGroup(ks) BY DEF Oldest, PgFirstOfGroup
<1>10. ASSUME NEW u, NEW o PROVE StoreOAuthConnections(s, u, o) = PgOAuthConnections(p, u, o)
    <2>1. PICK live : live = {s.oauthTokens[h] : h \in {x \in DOMAIN s.oauthTokens :
                /\ s.oauthTokens[x].user = u /\ s.oauthTokens[x].org = o /\ ~s.oauthTokens[x].revoked
                /\ s.oauthTokens[x].client \in DOMAIN s.oauthClients}}
        OBVIOUS
    <2>2. live = {k \in p.oauth_tokens : /\ \E c \in p.oauth_clients : c.id = k.client
                                         /\ k.user = u /\ k.org = o /\ ~k.revoked}
        BY <1>4, <1>5, <1>6, <2>1
    <2>3. StoreOAuthConnections(s, u, o)
             = {[client |-> c, scopes |-> Oldest({x \in live : x.client = c}).scopes] : c \in {k.client : k \in live}}
        BY <2>1 DEF StoreOAuthConnections
    <2>4. PgOAuthConnections(p, u, o)
             = {[client |-> c, scopes |-> PgFirstOfGroup({x \in live : x.client = c}).scopes] :
                   c \in {k.client : k \in live}}
        BY <2>2 DEF PgOAuthConnections
    <2> QED BY <1>9, <2>3, <2>4
<1>11. ASSUME NEW c PROVE StoreOAuthClientConnections(s, c) = PgOAuthClientConnections(p, c)
    <2>1. PICK live : live = {s.oauthTokens[h] : h \in {x \in DOMAIN s.oauthTokens :
                /\ s.oauthTokens[x].client = c /\ ~s.oauthTokens[x].revoked
                /\ s.oauthTokens[x].user \in DOMAIN s.users /\ s.oauthTokens[x].org \in DOMAIN s.organizations}}
        OBVIOUS
    <2>2. live = {k \in p.oauth_tokens : /\ \E u \in p.users : u.id = k.user
                                         /\ \E o \in p.organizations : o.id = k.org
                                         /\ k.client = c /\ ~k.revoked}
        BY <1>4, <1>5, <1>7, <1>8, <2>1
    <2>3. StoreOAuthClientConnections(s, c)
             = {<<g, Oldest({x \in live : <<x.user, x.org>> = g}).scopes>> : g \in {<<k.user, k.org>> : k \in live}}
        BY <2>1 DEF StoreOAuthClientConnections
    <2>4. PgOAuthClientConnections(p, c)
             = {<<g, PgFirstOfGroup({x \in live : <<x.user, x.org>> = g}).scopes>> :
                   g \in {<<k.user, k.org>> : k \in live}}
        BY <2>2 DEF PgOAuthClientConnections
    <2> QED BY ZenonT(60), <1>9, <2>3, <2>4
<1> QED BY <1>1, <1>2, <1>3, <1>10, <1>11

\* So are partner integrations and connections.
LEMMA PartnerLookups ==
    ASSUME NEW s, NEW p, SameOAuth(s, p)
    PROVE  /\ \A id : /\ StorePartnerIntegration(s, id) = PgPartnerIntegration(p, id)
                      /\ StorePartnerConnection(s, id) = PgPartnerConnection(p, id)
           /\ \A o : StorePartnerIntegrationsByOwnerOrg(s, o) = PgPartnerIntegrationsByOwnerOrg(p, o)
           /\ \A n : StorePartnerConnectionsByIntegration(s, n) = PgPartnerConnectionsByIntegration(p, n)
<1> USE DEF SameOAuth
<1>1. \A id : StorePartnerIntegration(s, id) = PgPartnerIntegration(p, id)
    BY KeyLookup DEF IntegrationTable, StorePartnerIntegration, PgPartnerIntegration
<1>2. \A id : StorePartnerConnection(s, id) = PgPartnerConnection(p, id)
    <2>1. /\ p.partner_connections = Rows(s.partnerConnections)
          /\ \A k \in DOMAIN s.partnerConnections : s.partnerConnections[k].id = k
        BY DEF ConnectionTable
    <2> QED BY <2>1, KeyLookup DEF StorePartnerConnection, PgPartnerConnection
<1>3. \A o : StorePartnerIntegrationsByOwnerOrg(s, o) = PgPartnerIntegrationsByOwnerOrg(p, o)
    BY DEF IntegrationTable, Rows, StorePartnerIntegrationsByOwnerOrg, PgPartnerIntegrationsByOwnerOrg
<1>4. \A n : StorePartnerConnectionsByIntegration(s, n) = PgPartnerConnectionsByIntegration(p, n)
    BY DEF ConnectionTable, Rows, StorePartnerConnectionsByIntegration, PgPartnerConnectionsByIntegration
<1> QED BY <1>1, <1>2, <1>3, <1>4

\* What a call on these tables never takes back.
OAGrows(s, n) ==
    /\ DOMAIN s.users \subseteq DOMAIN n.users /\ DOMAIN s.organizations \subseteq DOMAIN n.organizations
    /\ DOMAIN s.oauthClients \subseteq DOMAIN n.oauthClients
    /\ DOMAIN s.partnerIntegrations \subseteq DOMAIN n.partnerIntegrations
    /\ DOMAIN s.partnerConnections \subseteq DOMAIN n.partnerConnections
    /\ \A h \in DOMAIN s.oauthCodes : h \in DOMAIN n.oauthCodes /\ Used(n.oauthCodes[h]) = Used(s.oauthCodes[h])
    /\ \A h \in DOMAIN s.oauthTokens : /\ h \in DOMAIN n.oauthTokens
                                       /\ Voided(n.oauthTokens[h]) = Voided(s.oauthTokens[h])

\* Calls that write one table keep the others.
LEMMA ClientsChanged ==
    ASSUME NEW s, NEW p, SameOAuth(s, p), NEW n, NEW q, OAKeeps(s, n, {"oauthClients"}),
           OAPgKeeps(p, q, {"oauth_clients"}), ClientTable(n.oauthClients, q.oauth_clients),
           DOMAIN s.oauthClients \subseteq DOMAIN n.oauthClients
    PROVE  SameOAuth(n, q) /\ OAGrows(s, n)
BY DEF OAKeeps, OAFields, OAPgKeeps, OAPgFields, SameOAuth, OAGrows

\* Writing authorization codes keeps the other tables.
LEMMA CodesChanged ==
    ASSUME NEW s, NEW p, SameOAuth(s, p), NEW n, NEW q, OAKeeps(s, n, {"oauthCodes"}),
           OAPgKeeps(p, q, {"oauth_authorization_codes"}),
           CodeTable(n.oauthCodes, q.oauth_authorization_codes, DOMAIN s.users, DOMAIN s.organizations),
           \A h \in DOMAIN s.oauthCodes : h \in DOMAIN n.oauthCodes /\ Used(n.oauthCodes[h]) = Used(s.oauthCodes[h])
    PROVE  SameOAuth(n, q) /\ OAGrows(s, n)
BY DEF OAKeeps, OAFields, OAPgKeeps, OAPgFields, SameOAuth, OAGrows

\* Writing tokens keeps the other tables.
LEMMA TokensChanged ==
    ASSUME NEW s, NEW p, SameOAuth(s, p), NEW n, NEW q, OAKeeps(s, n, {"oauthTokens", "oauthRefresh"}),
           OAPgKeeps(p, q, {"oauth_tokens"}),
           GrantTable(n.oauthTokens, n.oauthRefresh, q.oauth_tokens, DOMAIN s.users, DOMAIN s.organizations),
           \A h \in DOMAIN s.oauthTokens : /\ h \in DOMAIN n.oauthTokens
                                           /\ Voided(n.oauthTokens[h]) = Voided(s.oauthTokens[h])
    PROVE  SameOAuth(n, q) /\ OAGrows(s, n)
BY DEF OAKeeps, OAFields, OAPgKeeps, OAPgFields, SameOAuth, OAGrows

\* Writing integrations keeps the other tables.
LEMMA IntegrationsChanged ==
    ASSUME NEW s, NEW p, SameOAuth(s, p), NEW n, NEW q, OAKeeps(s, n, {"partnerIntegrations"}),
           OAPgKeeps(p, q, {"partner_integrations"}),
           IntegrationTable(n.partnerIntegrations, q.partner_integrations),
           DOMAIN s.partnerIntegrations \subseteq DOMAIN n.partnerIntegrations
    PROVE  SameOAuth(n, q) /\ OAGrows(s, n)
BY DEF OAKeeps, OAFields, OAPgKeeps, OAPgFields, SameOAuth, OAGrows

\* Creating an OAuth client and writing it back answer alike.
LEMMA ClientCalls ==
    ASSUME NEW s, NEW p, SameOAuth(s, p), NEW c, "id" \in DOMAIN c
    PROVE  /\ /\ StoreCreateOAuthClient(s, c).out = PgCreateOAuthClient(p, c).out
              /\ SameOAuth(StoreCreateOAuthClient(s, c).db, PgCreateOAuthClient(p, c).db)
              /\ OAGrows(s, StoreCreateOAuthClient(s, c).db)
           /\ c.id \in DOMAIN s.oauthClients =>
                 /\ StoreUpdateOAuthClient(s, c).out = PgUpdateOAuthClient(p, c).out
                 /\ SameOAuth(StoreUpdateOAuthClient(s, c).db, PgUpdateOAuthClient(p, c).db)
                 /\ OAGrows(s, StoreUpdateOAuthClient(s, c).db)
<1>1. PICK f : f = s.oauthClients OBVIOUS
<1>2. /\ p.oauth_clients = Rows(f) /\ IsFiniteSet(DOMAIN f) /\ \A id \in DOMAIN f : f[id].id = id /\ "id" \in DOMAIN f[id]
      /\ DOMAIN s = OAFields /\ DOMAIN p = OAPgFields
    BY <1>1 DEF SameOAuth, ClientTable
<1>3. c.id \in DOMAIN f <=> \E r \in p.oauth_clients : r.id = c.id BY <1>2 DEF Rows
<1>4. CASE c.id \notin DOMAIN f
    <2>1. StoreCreateOAuthClient(s, c) = Done([s EXCEPT !.oauthClients = Put(@, c.id, c)])
        BY <1>1, <1>4 DEF StoreCreateOAuthClient
    <2>2. PgCreateOAuthClient(p, c) = Done([p EXCEPT !.oauth_clients = @ \cup {c}])
        BY <1>3, <1>4 DEF PgCreateOAuthClient
    <2>3. PICK n : n = StoreCreateOAuthClient(s, c).db OBVIOUS
    <2>4. PICK q : q = PgCreateOAuthClient(p, c).db OBVIOUS
    <2>5. OAKeeps(s, n, {"oauthClients"}) /\ n.oauthClients = Put(f, c.id, c)
        BY <1>1, <1>2, <2>1, <2>3, Accepted DEF OAKeeps, OAFields
    <2>6. OAPgKeeps(p, q, {"oauth_clients"}) /\ q.oauth_clients = p.oauth_clients \cup {c}
        BY <1>2, <2>2, <2>4, Accepted DEF OAPgKeeps, OAPgFields
    <2>7. q.oauth_clients = Rows(n.oauthClients) BY <1>2, <1>4, <2>5, <2>6, RowsOfNew
    <2>8. DOMAIN n.oauthClients = DOMAIN f \cup {c.id} BY <2>5 DEF Put
    <2>9. IsFiniteSet(DOMAIN n.oauthClients) BY <1>2, FS_AddElement, <2>8
    <2>10. \A id \in DOMAIN n.oauthClients : n.oauthClients[id].id = id /\ "id" \in DOMAIN n.oauthClients[id]
        BY <1>2, <2>5, <2>8 DEF Put
    <2>11. SameOAuth(n, q) /\ OAGrows(s, n)
        BY <1>1, <2>5, <2>6, <2>7, <2>8, <2>9, <2>10, ClientsChanged DEF ClientTable
    <2>12. StoreCreateOAuthClient(s, c).out = "ok" /\ PgCreateOAuthClient(p, c).out = "ok"
        BY <2>1, <2>2, Accepted
    <2> QED BY <1>1, <1>4, <2>3, <2>4, <2>11, <2>12
<1>5. CASE c.id \in DOMAIN f
    <2>1. StoreCreateOAuthClient(s, c) = Refused(s, "client exists") BY <1>1, <1>5 DEF StoreCreateOAuthClient
    <2>2. PgCreateOAuthClient(p, c) = Refused(p, "client exists") BY <1>3, <1>5 DEF PgCreateOAuthClient
    <2>3. /\ StoreCreateOAuthClient(s, c).out = PgCreateOAuthClient(p, c).out
          /\ StoreCreateOAuthClient(s, c).db = s /\ PgCreateOAuthClient(p, c).db = p
        <3>1. Refused(s, "client exists").db = s /\ Refused(s, "client exists").out = "client exists" BY DEF Refused
        <3>2. Refused(p, "client exists").db = p /\ Refused(p, "client exists").out = "client exists" BY DEF Refused
        <3> QED BY <2>1, <2>2, <3>1, <3>2
    <2>4. OAGrows(s, s) BY DEF OAGrows
    <2>5. StoreUpdateOAuthClient(s, c) = Done([s EXCEPT !.oauthClients = Put(@, c.id, c)])
        BY <1>1, <1>5 DEF StoreUpdateOAuthClient
    <2>6. PICK rows : rows = {r \in p.oauth_clients : r.id = c.id} OBVIOUS
    <2>7. rows = {f[c.id]} BY <1>2, <1>5, <2>6 DEF Rows
    <2>8. PgUpdateOAuthClient(p, c) = Done([p EXCEPT !.oauth_clients = Replace(@, rows, {c})])
        BY <2>6, <2>7 DEF PgUpdateOAuthClient, UpdateRows
    <2>9. PICK n : n = StoreUpdateOAuthClient(s, c).db OBVIOUS
    <2>10. PICK q : q = PgUpdateOAuthClient(p, c).db OBVIOUS
    <2>11. OAKeeps(s, n, {"oauthClients"}) /\ n.oauthClients = Put(f, c.id, c)
        BY <1>1, <1>2, <2>5, <2>9, Accepted DEF OAKeeps, OAFields
    <2>12. OAPgKeeps(p, q, {"oauth_clients"}) /\ q.oauth_clients = Replace(p.oauth_clients, {f[c.id]}, {c})
        BY <1>2, <2>7, <2>8, <2>10, Accepted DEF OAPgKeeps, OAPgFields
    <2>13. \A j \in DOMAIN f \ {c.id} : f[j] # f[c.id] BY <1>2, <1>5
    <2>14. q.oauth_clients = Rows(n.oauthClients) BY <1>2, <1>5, <2>11, <2>12, <2>13, RowsOfChanged
    <2>15. DOMAIN n.oauthClients = DOMAIN f BY <1>5, <2>11 DEF Put
    <2>16. \A id \in DOMAIN n.oauthClients : n.oauthClients[id].id = id /\ "id" \in DOMAIN n.oauthClients[id]
        BY <1>2, <2>11, <2>15 DEF Put
    <2>17. SameOAuth(n, q) /\ OAGrows(s, n)
        BY <1>1, <1>2, <2>11, <2>12, <2>14, <2>15, <2>16, ClientsChanged DEF ClientTable
    <2>18. StoreUpdateOAuthClient(s, c).out = "ok" /\ PgUpdateOAuthClient(p, c).out = "ok"
        BY <2>5, <2>8, Accepted
    <2> QED BY <2>3, <2>4, <2>9, <2>10, <2>17, <2>18
<1> QED BY <1>4, <1>5

\* A call both repositories answer alike, after which they still agree.
OAAnswered(s, p, a, b) == a.out = b.out /\ SameOAuth(a.db, b.db) /\ OAGrows(s, a.db)

\* A new entry under the next number, and a changed one.
LEMMA NextNumbered ==
    ASSUME NEW f, NEW n \in Nat, DOMAIN f = 1..n, NEW v
    PROVE  /\ n + 1 \notin DOMAIN f /\ Numbered(Put(f, n + 1, v))
           /\ DOMAIN Put(f, n + 1, v) = DOMAIN f \cup {n + 1}
BY DEF Put, Numbered

\* CreateOAuthAuthorizationCode adds a code under the next hash, for a known client.
LEMMA CodeCreated ==
    ASSUME NEW s, NEW p, SameOAuth(s, p), NEW a, DOMAIN a = CodeFields, NEW k \in Nat,
           DOMAIN s.oauthCodes = 1..k, a.hash = k + 1, a.client \in DOMAIN s.oauthClients,
           a.user \in DOMAIN s.users, a.org \in DOMAIN s.organizations
    PROVE  OAAnswered(s, p, StoreCreateOAuthAuthorizationCode(s, a), PgCreateOAuthAuthorizationCode(p, a))
<1>1. PICK f : f = s.oauthCodes OBVIOUS
<1>2. /\ p.oauth_authorization_codes = Rows(f) /\ DOMAIN s = OAFields /\ DOMAIN p = OAPgFields
      /\ \A h \in DOMAIN f : /\ f[h].hash = h /\ DOMAIN f[h] = CodeFields
                             /\ f[h].user \in DOMAIN s.users /\ f[h].org \in DOMAIN s.organizations
    BY <1>1 DEF SameOAuth, CodeTable
<1>3. \E r \in p.oauth_clients : r.id = a.client BY DEF SameOAuth, ClientTable, Rows
<1>4. StoreCreateOAuthAuthorizationCode(s, a) = Done([s EXCEPT !.oauthCodes = Put(@, a.hash, a)])
    BY DEF StoreCreateOAuthAuthorizationCode
<1>5. PgCreateOAuthAuthorizationCode(p, a) = Done([p EXCEPT !.oauth_authorization_codes = @ \cup {a}])
    BY <1>3 DEF PgCreateOAuthAuthorizationCode
<1>6. PICK n : n = StoreCreateOAuthAuthorizationCode(s, a).db OBVIOUS
<1>7. PICK q : q = PgCreateOAuthAuthorizationCode(p, a).db OBVIOUS
<1>8. OAKeeps(s, n, {"oauthCodes"}) /\ n.oauthCodes = Put(f, k + 1, a)
    BY <1>1, <1>2, <1>4, <1>6, Accepted DEF OAKeeps, OAFields
<1>9. /\ OAPgKeeps(p, q, {"oauth_authorization_codes"})
      /\ q.oauth_authorization_codes = p.oauth_authorization_codes \cup {a}
    BY <1>2, <1>5, <1>7, Accepted DEF OAPgKeeps, OAPgFields
<1>10. k + 1 \notin DOMAIN f /\ Numbered(n.oauthCodes) /\ DOMAIN n.oauthCodes = DOMAIN f \cup {k + 1}
    <2>1. DOMAIN f = 1..k BY <1>1
    <2>2. /\ k + 1 \notin DOMAIN f /\ Numbered(Put(f, k + 1, a))
          /\ DOMAIN Put(f, k + 1, a) = DOMAIN f \cup {k + 1}
        BY <2>1, NextNumbered
    <2> QED BY <1>8, <2>2
<1>11. q.oauth_authorization_codes = Rows(n.oauthCodes) BY <1>2, <1>8, <1>9, <1>10, RowsOfNew
<1>12. n.oauthCodes[k + 1] = a /\ \A h \in DOMAIN f : n.oauthCodes[h] = f[h] BY <1>8, <1>10 DEF Put
<1>13. CodeTable(n.oauthCodes, q.oauth_authorization_codes, DOMAIN s.users, DOMAIN s.organizations)
    BY <1>2, <1>10, <1>11, <1>12 DEF CodeTable
<1>14. SameOAuth(n, q) /\ OAGrows(s, n) BY <1>1, <1>8, <1>9, <1>10, <1>12, <1>13, CodesChanged
<1>15. StoreCreateOAuthAuthorizationCode(s, a).out = "ok" /\ PgCreateOAuthAuthorizationCode(p, a).out = "ok"
    BY <1>4, <1>5, Accepted
<1> QED BY <1>6, <1>7, <1>14, <1>15 DEF OAAnswered

\* Using a code marks it, whether it was used meanwhile or not.
LEMMA CodeUsed ==
    ASSUME NEW s, NEW p, SameOAuth(s, p), NEW a, a.hash \in DOMAIN s.oauthCodes, a = Used(s.oauthCodes[a.hash])
    PROVE  OAAnswered(s, p, StoreUpdateOAuthAuthorizationCode(s, a), PgUpdateOAuthAuthorizationCode(p, a))
<1>1. PICK f : f = s.oauthCodes OBVIOUS
<1>2. PICK h : h = a.hash OBVIOUS
<1>3. /\ p.oauth_authorization_codes = Rows(f) /\ DOMAIN s = OAFields /\ DOMAIN p = OAPgFields /\ Numbered(f)
      /\ h \in DOMAIN f /\ a = Used(f[h])
      /\ \A j \in DOMAIN f : /\ f[j].hash = j /\ DOMAIN f[j] = CodeFields
                             /\ f[j].user \in DOMAIN s.users /\ f[j].org \in DOMAIN s.organizations
    BY <1>1, <1>2 DEF SameOAuth, CodeTable
<1>4. /\ a.used = TRUE /\ DOMAIN a = CodeFields /\ a.hash = h /\ a.user = f[h].user /\ a.org = f[h].org
      /\ Used(a) = Used(f[h])
    BY <1>3 DEF Used, CodeFields
<1>5. StoreUpdateOAuthAuthorizationCode(s, a) = Done([s EXCEPT !.oauthCodes = Put(@, h, a)])
    BY <1>1, <1>2, <1>3 DEF StoreUpdateOAuthAuthorizationCode
<1>6. PICK rows : rows = {r \in p.oauth_authorization_codes : r.hash = a.hash} OBVIOUS
<1>7. rows = {f[h]} BY <1>2, <1>3, <1>6 DEF Rows
<1>8. {[r EXCEPT !.used = a.used] : r \in rows} = {a} BY <1>3, <1>4, <1>7 DEF Used
<1>9. PgUpdateOAuthAuthorizationCode(p, a) = Done([p EXCEPT !.oauth_authorization_codes = Replace(@, rows, {a})])
    BY <1>6, <1>7, <1>8 DEF PgUpdateOAuthAuthorizationCode, UpdateRows
<1>10. PICK n : n = StoreUpdateOAuthAuthorizationCode(s, a).db OBVIOUS
<1>11. PICK q : q = PgUpdateOAuthAuthorizationCode(p, a).db OBVIOUS
<1>12. OAKeeps(s, n, {"oauthCodes"}) /\ n.oauthCodes = Put(f, h, a)
    BY <1>1, <1>3, <1>5, <1>10, Accepted DEF OAKeeps, OAFields
<1>13. /\ OAPgKeeps(p, q, {"oauth_authorization_codes"})
       /\ q.oauth_authorization_codes = Replace(p.oauth_authorization_codes, {f[h]}, {a})
    BY <1>3, <1>7, <1>9, <1>11, Accepted DEF OAPgKeeps, OAPgFields
<1>14. \A j \in DOMAIN f \ {h} : f[j] # f[h] BY <1>3
<1>15. q.oauth_authorization_codes = Rows(n.oauthCodes) BY <1>3, <1>12, <1>13, <1>14, RowsOfChanged
<1>16. DOMAIN n.oauthCodes = DOMAIN f /\ n.oauthCodes[h] = a /\ \A j \in DOMAIN f \ {h} : n.oauthCodes[j] = f[j]
    BY <1>3, <1>12 DEF Put
<1>17. CodeTable(n.oauthCodes, q.oauth_authorization_codes, DOMAIN s.users, DOMAIN s.organizations)
    BY <1>3, <1>4, <1>15, <1>16 DEF CodeTable, Numbered
<1>18. \A j \in DOMAIN f : j \in DOMAIN n.oauthCodes /\ Used(n.oauthCodes[j]) = Used(f[j])
    BY <1>3, <1>4, <1>16
<1>19. SameOAuth(n, q) /\ OAGrows(s, n) BY <1>1, <1>12, <1>13, <1>17, <1>18, CodesChanged
<1>20. StoreUpdateOAuthAuthorizationCode(s, a).out = "ok" /\ PgUpdateOAuthAuthorizationCode(p, a).out = "ok"
    BY <1>5, <1>9, Accepted
<1> QED BY <1>10, <1>11, <1>19, <1>20 DEF OAAnswered

\* CreateOAuthToken adds a token under the next hash: its user and organization are known, so no
\* constraint of the table refuses it.
LEMMA GrantCreated ==
    ASSUME NEW s, NEW p, SameOAuth(s, p), NEW k, DOMAIN k = GrantFields, NEW m \in Nat,
           DOMAIN s.oauthTokens = 1..m, k.hash = m + 1, k.refresh = m + 1,
           k.user \in DOMAIN s.users \cup {0}, k.org \in DOMAIN s.organizations
    PROVE  OAAnswered(s, p, StoreCreateOAuthToken(s, k), PgCreateOAuthToken(p, k))
<1>1. PICK f : f = s.oauthTokens OBVIOUS
<1>2. PICK g : g = s.oauthRefresh OBVIOUS
<1>3. /\ p.oauth_tokens = Rows(f) /\ DOMAIN s = OAFields /\ DOMAIN p = OAPgFields
      /\ \A h \in DOMAIN f : /\ f[h].hash = h /\ f[h].refresh = h /\ DOMAIN f[h] = GrantFields
                             /\ f[h].user \in DOMAIN s.users \cup {0} /\ f[h].org \in DOMAIN s.organizations
      /\ g = [h \in DOMAIN f |-> h]
    BY <1>1, <1>2 DEF SameOAuth, GrantTable
<1>4. /\ k.user # 0 => \E r \in p.users : r.id = k.user
      /\ \E r \in p.organizations : r.id = k.org
    BY DEF SameOAuth, KnownTable, Rows
<1>5. m + 1 \notin DOMAIN f /\ DOMAIN f = 1..m BY <1>1
<1>6. ~\E r \in p.oauth_tokens : r.hash = k.hash \/ r.refresh = k.refresh BY <1>3, <1>5 DEF Rows
<1>7. StoreCreateOAuthToken(s, k) = Done([s EXCEPT !.oauthTokens = Put(@, k.hash, k),
                                                   !.oauthRefresh = Put(@, k.refresh, k.hash)])
    BY DEF StoreCreateOAuthToken
<1>8. PgCreateOAuthToken(p, k) = Done([p EXCEPT !.oauth_tokens = @ \cup {k}])
    BY <1>4, <1>6 DEF PgCreateOAuthToken
<1>9. PICK n : n = StoreCreateOAuthToken(s, k).db OBVIOUS
<1>10. PICK q : q = PgCreateOAuthToken(p, k).db OBVIOUS
<1>11. /\ OAKeeps(s, n, {"oauthTokens", "oauthRefresh"}) /\ n.oauthTokens = Put(f, m + 1, k)
       /\ n.oauthRefresh = Put(g, m + 1, m + 1)
    <2>1. PICK w : w = [s EXCEPT !.oauthTokens = Put(f, m + 1, k), !.oauthRefresh = Put(g, m + 1, m + 1)] OBVIOUS
    <2>2. n = w BY <1>1, <1>2, <1>7, <1>9, <2>1, Accepted
    <2> QED BY <1>3, <2>1, <2>2 DEF OAKeeps, OAFields
<1>12. OAPgKeeps(p, q, {"oauth_tokens"}) /\ q.oauth_tokens = p.oauth_tokens \cup {k}
    BY <1>3, <1>8, <1>10, Accepted DEF OAPgKeeps, OAPgFields
<1>13. Numbered(n.oauthTokens) /\ DOMAIN n.oauthTokens = DOMAIN f \cup {m + 1}
    <2>1. Numbered(Put(f, m + 1, k)) /\ DOMAIN Put(f, m + 1, k) = DOMAIN f \cup {m + 1} BY <1>5, NextNumbered
    <2> QED BY <1>11, <2>1
<1>14. q.oauth_tokens = Rows(n.oauthTokens) BY <1>3, <1>5, <1>11, <1>12, RowsOfNew
<1>15. n.oauthTokens[m + 1] = k /\ \A h \in DOMAIN f : n.oauthTokens[h] = f[h] BY <1>5, <1>11, <1>13 DEF Put
<1>16. n.oauthRefresh = [h \in DOMAIN n.oauthTokens |-> h] BY <1>3, <1>11, <1>13 DEF Put
<1>17. GrantTable(n.oauthTokens, n.oauthRefresh, q.oauth_tokens, DOMAIN s.users, DOMAIN s.organizations)
    BY <1>3, <1>13, <1>14, <1>15, <1>16 DEF GrantTable
<1>18. SameOAuth(n, q) /\ OAGrows(s, n) BY ZenonT(60), <1>1, <1>11, <1>12, <1>13, <1>15, <1>17, TokensChanged
<1>19. StoreCreateOAuthToken(s, k).out = "ok" /\ PgCreateOAuthToken(p, k).out = "ok" BY <1>7, <1>8, Accepted
<1> QED BY <1>9, <1>10, <1>18, <1>19 DEF OAAnswered

\* Some tokens of the table revoked, in the map and in the rows.
EndedSome(f, hit) == [h \in DOMAIN f |-> IF h \in hit THEN Voided(f[h]) ELSE f[h]]
EndedRows(rows, f, hit) == Replace(rows, {f[h] : h \in hit}, {Voided(f[h]) : h \in hit})

\* Revoking some tokens of the table, as one update of it.
LEMMA TokensRevoked ==
    ASSUME NEW s, NEW p, SameOAuth(s, p), NEW hit, hit \subseteq DOMAIN s.oauthTokens,
           NEW n, OAKeeps(s, n, {"oauthTokens"}),
           n.oauthTokens = EndedSome(s.oauthTokens, hit),
           NEW q, OAPgKeeps(p, q, {"oauth_tokens"}),
           q.oauth_tokens = EndedRows(p.oauth_tokens, s.oauthTokens, hit)
    PROVE  SameOAuth(n, q) /\ OAGrows(s, n)
<1>1. PICK f : f = s.oauthTokens OBVIOUS
<1>2. /\ p.oauth_tokens = Rows(f) /\ DOMAIN s = OAFields /\ DOMAIN p = OAPgFields /\ Numbered(f)
      /\ \A h \in DOMAIN f : /\ f[h].hash = h /\ f[h].refresh = h /\ DOMAIN f[h] = GrantFields
                             /\ f[h].user \in DOMAIN s.users \cup {0} /\ f[h].org \in DOMAIN s.organizations
      /\ s.oauthRefresh = [h \in DOMAIN f |-> h]
    BY <1>1 DEF SameOAuth, GrantTable
<1>3. PICK t : t = [h \in DOMAIN f |-> IF h \in hit THEN Voided(f[h]) ELSE f[h]] OBVIOUS
<1>4. OAKeeps(s, n, {"oauthTokens", "oauthRefresh"}) /\ n.oauthTokens = t /\ n.oauthRefresh = s.oauthRefresh
    BY <1>1, <1>2, <1>3 DEF OAKeeps, OAFields, EndedSome
<1>5. /\ OAPgKeeps(p, q, {"oauth_tokens"})
      /\ q.oauth_tokens = Replace(Rows(f), {f[h] : h \in hit}, {Voided(f[h]) : h \in hit})
    BY <1>1, <1>2 DEF OAPgKeeps, OAPgFields, EndedRows
<1>6. \A h \in DOMAIN f : /\ DOMAIN Voided(f[h]) = GrantFields /\ Voided(f[h]).hash = h /\ Voided(f[h]).refresh = h
                          /\ Voided(f[h]).user = f[h].user /\ Voided(f[h]).org = f[h].org
                          /\ Voided(Voided(f[h])) = Voided(f[h])
    <2>1. ASSUME NEW c, DOMAIN c = GrantFields
          PROVE  /\ DOMAIN Voided(c) = GrantFields /\ Voided(c).hash = c.hash /\ Voided(c).refresh = c.refresh
                 /\ Voided(c).user = c.user /\ Voided(c).org = c.org
        BY <2>1 DEF Voided, GrantFields
    <2>2. \A c : Voided(Voided(c)) = Voided(c) BY DEF Voided
    <2> QED BY <1>2, <2>1, <2>2
<1>7. DOMAIN t = DOMAIN f /\ \A h \in DOMAIN f : t[h] = IF h \in hit THEN Voided(f[h]) ELSE f[h] BY <1>3
<1>8. hit \subseteq DOMAIN f BY <1>1
<1>9. q.oauth_tokens = Rows(t) BY <1>7, <1>5, <1>2, <1>8 DEF Rows, Replace
<1>10. GrantTable(t, s.oauthRefresh, q.oauth_tokens, DOMAIN s.users, DOMAIN s.organizations)
    BY <1>2, <1>6, <1>7, <1>9 DEF GrantTable, Numbered
<1>11. \A h \in DOMAIN f : h \in DOMAIN t /\ Voided(t[h]) = Voided(f[h]) BY <1>6, <1>7
<1> QED BY <1>1, <1>4, <1>5, <1>10, <1>11, TokensChanged

\* Revoking a token a request has a copy of.
LEMMA GrantEnded ==
    ASSUME NEW s, NEW p, SameOAuth(s, p), NEW k, k.hash \in DOMAIN s.oauthTokens, k = Voided(s.oauthTokens[k.hash])
    PROVE  OAAnswered(s, p, StoreUpdateOAuthToken(s, k), PgUpdateOAuthToken(p, k))
<1>1. PICK f : f = s.oauthTokens OBVIOUS
<1>2. PICK h : h = k.hash OBVIOUS
<1>3. /\ p.oauth_tokens = Rows(f) /\ DOMAIN s = OAFields /\ DOMAIN p = OAPgFields /\ h \in DOMAIN f
      /\ \A j \in DOMAIN f : f[j].hash = j /\ f[j].refresh = j /\ DOMAIN f[j] = GrantFields
      /\ s.oauthRefresh = [j \in DOMAIN f |-> j]
    BY <1>1, <1>2 DEF SameOAuth, GrantTable
<1>4. k = Voided(f[h]) /\ k.revoked = TRUE /\ k.refresh = h BY <1>1, <1>2, <1>3 DEF Voided, GrantFields
<1>5. PICK t : t = [j \in DOMAIN f |-> IF j \in {h} THEN Voided(f[j]) ELSE f[j]] OBVIOUS
<1>6. Put(f, h, k) = t BY <1>3, <1>4, <1>5 DEF Put
<1>7. Put(s.oauthRefresh, h, h) = s.oauthRefresh BY <1>3 DEF Put
<1>8. PICK n : n = StoreUpdateOAuthToken(s, k).db OBVIOUS
<1>9. StoreUpdateOAuthToken(s, k) = Done([s EXCEPT !.oauthTokens = Put(@, h, k), !.oauthRefresh = Put(@, h, h)])
    BY <1>1, <1>2, <1>3, <1>4 DEF StoreUpdateOAuthToken
<1>10. OAKeeps(s, n, {"oauthTokens"}) /\ n.oauthTokens = t
    <2>1. PICK w : w = [s EXCEPT !.oauthTokens = t, !.oauthRefresh = s.oauthRefresh] OBVIOUS
    <2>2. n = w BY <1>1, <1>6, <1>7, <1>8, <1>9, <2>1, Accepted
    <2> QED BY <1>3, <2>1, <2>2 DEF OAKeeps, OAFields
<1>11. PICK rows : rows = {r \in p.oauth_tokens : r.hash = k.hash} OBVIOUS
<1>12. rows = {f[h]} BY <1>2, <1>3, <1>11 DEF Rows
<1>13. {[r EXCEPT !.revoked = k.revoked] : r \in rows} = {Voided(f[h])} BY <1>4, <1>12 DEF Voided
<1>14. PgUpdateOAuthToken(p, k) = Done([p EXCEPT !.oauth_tokens = Replace(@, rows, {Voided(f[h])})])
    BY <1>11, <1>12, <1>13 DEF PgUpdateOAuthToken, UpdateRows
<1>15. PICK q : q = PgUpdateOAuthToken(p, k).db OBVIOUS
<1>16. OAPgKeeps(p, q, {"oauth_tokens"}) /\ q.oauth_tokens = Replace(p.oauth_tokens, rows, {Voided(f[h])})
    BY <1>3, <1>14, <1>15, Accepted DEF OAPgKeeps, OAPgFields
<1>17. {f[j] : j \in {h}} = rows /\ {Voided(f[j]) : j \in {h}} = {Voided(f[h])} /\ {h} \subseteq DOMAIN f
    BY <1>3, <1>12
<1>18. SameOAuth(n, q) /\ OAGrows(s, n)
    <2>1. PICK hit : hit = {h} OBVIOUS
    <2>2. n.oauthTokens = EndedSome(s.oauthTokens, hit) BY <1>1, <1>5, <1>10, <2>1 DEF EndedSome
    <2>3. q.oauth_tokens = EndedRows(p.oauth_tokens, s.oauthTokens, hit)
        BY <1>1, <1>16, <1>17, <2>1 DEF EndedRows
    <2>4. hit \subseteq DOMAIN s.oauthTokens BY <1>1, <1>3, <2>1
    <2>5. OAKeeps(s, n, {"oauthTokens"}) /\ OAPgKeeps(p, q, {"oauth_tokens"}) BY <1>10, <1>16
    <2> QED BY <2>2, <2>3, <2>4, <2>5, TokensRevoked
<1>19. StoreUpdateOAuthToken(s, k).out = "ok" /\ PgUpdateOAuthToken(p, k).out = "ok" BY <1>9, <1>14, Accepted
<1> QED BY <1>8, <1>15, <1>18, <1>19 DEF OAAnswered

\* Revoking the live tokens of a set, which is what each bulk call comes to.
EndAll(s, hit) ==
    Done([s EXCEPT !.oauthTokens = [h \in DOMAIN s.oauthTokens |->
                                        IF h \in hit THEN Voided(s.oauthTokens[h]) ELSE s.oauthTokens[h]]])
PgEndAll(p, rows) == Done([p EXCEPT !.oauth_tokens = Replace(p.oauth_tokens, rows, {Voided(r) : r \in rows})])

\* Revoking the tokens of a set gives the same answer and the same tables.
LEMMA GrantsEnded ==
    ASSUME NEW s, NEW p, SameOAuth(s, p), NEW hit, hit \subseteq DOMAIN s.oauthTokens,
           NEW rows, rows = {s.oauthTokens[h] : h \in hit}
    PROVE  OAAnswered(s, p, EndAll(s, hit), PgEndAll(p, rows))
<1>1. DOMAIN s = OAFields /\ DOMAIN p = OAPgFields BY DEF SameOAuth
<1>2. PICK n : n = EndAll(s, hit).db OBVIOUS
<1>3. PICK q : q = PgEndAll(p, rows).db OBVIOUS
<1>4. /\ OAKeeps(s, n, {"oauthTokens"})
      /\ n.oauthTokens = [h \in DOMAIN s.oauthTokens |-> IF h \in hit THEN Voided(s.oauthTokens[h])
                                                        ELSE s.oauthTokens[h]]
    BY <1>1, <1>2, Accepted DEF EndAll, OAKeeps, OAFields
<1>5. /\ OAPgKeeps(p, q, {"oauth_tokens"})
      /\ q.oauth_tokens = Replace(p.oauth_tokens, rows, {Voided(r) : r \in rows})
    BY <1>1, <1>3, Accepted DEF PgEndAll, OAPgKeeps, OAPgFields
<1>6. {Voided(r) : r \in rows} = {Voided(s.oauthTokens[h]) : h \in hit} OBVIOUS
<1>7. SameOAuth(n, q) /\ OAGrows(s, n)
    <2>1. n.oauthTokens = EndedSome(s.oauthTokens, hit) BY <1>4 DEF EndedSome
    <2>2. q.oauth_tokens = EndedRows(p.oauth_tokens, s.oauthTokens, hit) BY <1>5, <1>6 DEF EndedRows
    <2>3. OAKeeps(s, n, {"oauthTokens"}) /\ OAPgKeeps(p, q, {"oauth_tokens"}) BY <1>4, <1>5
    <2> QED BY <2>1, <2>2, <2>3, TokensRevoked
<1>8. EndAll(s, hit).out = "ok" /\ PgEndAll(p, rows).out = "ok" BY Accepted DEF EndAll, PgEndAll
<1> QED BY <1>2, <1>3, <1>7, <1>8 DEF OAAnswered

\* The three bulk revocations, by user and client, by client and by connection.
LEMMA RevokeCalls ==
    ASSUME NEW s, NEW p, SameOAuth(s, p)
    PROVE  /\ \A u, o, c : OAAnswered(s, p, StoreRevokeOAuthClientTokens(s, u, o, c),
                                      PgRevokeOAuthClientTokens(p, u, o, c))
           /\ \A c : OAAnswered(s, p, StoreRevokeAllOAuthClientTokens(s, c), PgRevokeAllOAuthClientTokens(p, c))
           /\ \A c : OAAnswered(s, p, StoreRevokePartnerConnectionTokens(s, c),
                                PgRevokePartnerConnectionTokens(p, c))
<1>1. PICK f : f = s.oauthTokens OBVIOUS
<1>2. p.oauth_tokens = Rows(f) BY <1>1 DEF SameOAuth, GrantTable
<1>3. ASSUME NEW u, NEW o, NEW c
      PROVE  OAAnswered(s, p, StoreRevokeOAuthClientTokens(s, u, o, c), PgRevokeOAuthClientTokens(p, u, o, c))
    <2>1. PICK hit : hit = {h \in DOMAIN f : f[h].user = u /\ f[h].org = o /\ f[h].client = c /\ ~f[h].revoked}
        OBVIOUS
    <2>2. PICK rows : rows = {f[h] : h \in hit} OBVIOUS
    <2>3. rows = {r \in p.oauth_tokens : (r.user = u /\ r.org = o /\ r.client = c) /\ ~r.revoked}
        BY <1>2, <2>1, <2>2 DEF Rows
    <2>4. StoreRevokeOAuthClientTokens(s, u, o, c) = EndAll(s, hit)
        BY <1>1, <2>1 DEF StoreRevokeOAuthClientTokens, StoreRevokeWhere, EndAll, Voided
    <2>5. PgRevokeOAuthClientTokens(p, u, o, c) = PgEndAll(p, rows)
        BY <2>3 DEF PgRevokeOAuthClientTokens, PgRevokeWhere, PgEndAll, Voided
    <2> QED BY <1>1, <2>1, <2>2, <2>4, <2>5, GrantsEnded
<1>4. ASSUME NEW c
      PROVE  OAAnswered(s, p, StoreRevokeAllOAuthClientTokens(s, c), PgRevokeAllOAuthClientTokens(p, c))
    <2>1. PICK hit : hit = {h \in DOMAIN f : f[h].client = c /\ ~f[h].revoked} OBVIOUS
    <2>2. PICK rows : rows = {f[h] : h \in hit} OBVIOUS
    <2>3. rows = {r \in p.oauth_tokens : r.client = c /\ ~r.revoked} BY <1>2, <2>1, <2>2 DEF Rows
    <2>4. StoreRevokeAllOAuthClientTokens(s, c) = EndAll(s, hit)
        BY <1>1, <2>1 DEF StoreRevokeAllOAuthClientTokens, StoreRevokeWhere, EndAll, Voided
    <2>5. PgRevokeAllOAuthClientTokens(p, c) = PgEndAll(p, rows)
        BY <2>3 DEF PgRevokeAllOAuthClientTokens, PgRevokeWhere, PgEndAll, Voided
    <2> QED BY <1>1, <2>1, <2>2, <2>4, <2>5, GrantsEnded
<1>5. ASSUME NEW c
      PROVE  OAAnswered(s, p, StoreRevokePartnerConnectionTokens(s, c), PgRevokePartnerConnectionTokens(p, c))
    <2>1. PICK hit : hit = {h \in DOMAIN f : f[h].connection = c /\ ~f[h].revoked} OBVIOUS
    <2>2. PICK rows : rows = {f[h] : h \in hit} OBVIOUS
    <2>3. rows = {r \in p.oauth_tokens : r.connection = c /\ ~r.revoked} BY <1>2, <2>1, <2>2 DEF Rows
    <2>4. StoreRevokePartnerConnectionTokens(s, c) = EndAll(s, hit)
        BY <1>1, <2>1 DEF StoreRevokePartnerConnectionTokens, StoreRevokeWhere, EndAll, Voided
    <2>5. PgRevokePartnerConnectionTokens(p, c) = PgEndAll(p, rows)
        BY <2>3 DEF PgRevokePartnerConnectionTokens, PgRevokeWhere, PgEndAll, Voided
    <2> QED BY <1>1, <2>1, <2>2, <2>4, <2>5, GrantsEnded
<1> QED BY <1>3, <1>4, <1>5

\* Creating a partner integration and writing it back.
LEMMA IntegrationCalls ==
    ASSUME NEW s, NEW p, SameOAuth(s, p), NEW c, "id" \in DOMAIN c
    PROVE  /\ /\ StoreCreatePartnerIntegration(s, c).out = PgCreatePartnerIntegration(p, c).out
              /\ SameOAuth(StoreCreatePartnerIntegration(s, c).db, PgCreatePartnerIntegration(p, c).db)
              /\ OAGrows(s, StoreCreatePartnerIntegration(s, c).db)
           /\ c.id \in DOMAIN s.partnerIntegrations =>
                 /\ StoreUpdatePartnerIntegration(s, c).out = PgUpdatePartnerIntegration(p, c).out
                 /\ SameOAuth(StoreUpdatePartnerIntegration(s, c).db, PgUpdatePartnerIntegration(p, c).db)
                 /\ OAGrows(s, StoreUpdatePartnerIntegration(s, c).db)
<1>1. PICK f : f = s.partnerIntegrations OBVIOUS
<1>2. /\ p.partner_integrations = Rows(f) /\ \A id \in DOMAIN f : f[id].id = id /\ "id" \in DOMAIN f[id]
      /\ DOMAIN s = OAFields /\ DOMAIN p = OAPgFields
    BY <1>1 DEF SameOAuth, IntegrationTable
<1>3. c.id \in DOMAIN f <=> \E r \in p.partner_integrations : r.id = c.id BY <1>2 DEF Rows
<1>4. CASE c.id \notin DOMAIN f
    <2>1. StoreCreatePartnerIntegration(s, c) = Done([s EXCEPT !.partnerIntegrations = Put(@, c.id, c)])
        BY <1>1, <1>4 DEF StoreCreatePartnerIntegration
    <2>2. PgCreatePartnerIntegration(p, c) = Done([p EXCEPT !.partner_integrations = @ \cup {c}])
        BY <1>3, <1>4 DEF PgCreatePartnerIntegration
    <2>3. PICK n : n = StoreCreatePartnerIntegration(s, c).db OBVIOUS
    <2>4. PICK q : q = PgCreatePartnerIntegration(p, c).db OBVIOUS
    <2>5. OAKeeps(s, n, {"partnerIntegrations"}) /\ n.partnerIntegrations = Put(f, c.id, c)
        BY <1>1, <1>2, <2>1, <2>3, Accepted DEF OAKeeps, OAFields
    <2>6. OAPgKeeps(p, q, {"partner_integrations"}) /\ q.partner_integrations = p.partner_integrations \cup {c}
        BY <1>2, <2>2, <2>4, Accepted DEF OAPgKeeps, OAPgFields
    <2>7. q.partner_integrations = Rows(n.partnerIntegrations) BY <1>2, <1>4, <2>5, <2>6, RowsOfNew
    <2>8. DOMAIN n.partnerIntegrations = DOMAIN f \cup {c.id} BY <2>5 DEF Put
    <2>10. \A id \in DOMAIN n.partnerIntegrations : n.partnerIntegrations[id].id = id /\ "id" \in DOMAIN n.partnerIntegrations[id]
        BY <1>2, <2>5, <2>8 DEF Put
    <2>11. SameOAuth(n, q) /\ OAGrows(s, n)
        BY <1>1, <2>5, <2>6, <2>7, <2>8, <2>10, IntegrationsChanged DEF IntegrationTable
    <2>12. StoreCreatePartnerIntegration(s, c).out = "ok" /\ PgCreatePartnerIntegration(p, c).out = "ok"
        BY <2>1, <2>2, Accepted
    <2> QED BY <1>1, <1>4, <2>3, <2>4, <2>11, <2>12
<1>5. CASE c.id \in DOMAIN f
    <2>1. StoreCreatePartnerIntegration(s, c) = Refused(s, "integration exists") BY <1>1, <1>5 DEF StoreCreatePartnerIntegration
    <2>2. PgCreatePartnerIntegration(p, c) = Refused(p, "integration exists") BY <1>3, <1>5 DEF PgCreatePartnerIntegration
    <2>3. /\ StoreCreatePartnerIntegration(s, c).out = PgCreatePartnerIntegration(p, c).out
          /\ StoreCreatePartnerIntegration(s, c).db = s /\ PgCreatePartnerIntegration(p, c).db = p
        <3>1. Refused(s, "integration exists").db = s /\ Refused(s, "integration exists").out = "integration exists" BY DEF Refused
        <3>2. Refused(p, "integration exists").db = p /\ Refused(p, "integration exists").out = "integration exists" BY DEF Refused
        <3> QED BY <2>1, <2>2, <3>1, <3>2
    <2>4. OAGrows(s, s) BY DEF OAGrows
    <2>5. StoreUpdatePartnerIntegration(s, c) = Done([s EXCEPT !.partnerIntegrations = Put(@, c.id, c)])
        BY <1>1, <1>5 DEF StoreUpdatePartnerIntegration
    <2>6. PICK rows : rows = {r \in p.partner_integrations : r.id = c.id} OBVIOUS
    <2>7. rows = {f[c.id]} BY <1>2, <1>5, <2>6 DEF Rows
    <2>8. PgUpdatePartnerIntegration(p, c) = Done([p EXCEPT !.partner_integrations = Replace(@, rows, {c})])
        BY <2>6, <2>7 DEF PgUpdatePartnerIntegration, UpdateRows
    <2>9. PICK n : n = StoreUpdatePartnerIntegration(s, c).db OBVIOUS
    <2>10. PICK q : q = PgUpdatePartnerIntegration(p, c).db OBVIOUS
    <2>11. OAKeeps(s, n, {"partnerIntegrations"}) /\ n.partnerIntegrations = Put(f, c.id, c)
        BY <1>1, <1>2, <2>5, <2>9, Accepted DEF OAKeeps, OAFields
    <2>12. OAPgKeeps(p, q, {"partner_integrations"}) /\ q.partner_integrations = Replace(p.partner_integrations, {f[c.id]}, {c})
        BY <1>2, <2>7, <2>8, <2>10, Accepted DEF OAPgKeeps, OAPgFields
    <2>13. \A j \in DOMAIN f \ {c.id} : f[j] # f[c.id] BY <1>2, <1>5
    <2>14. q.partner_integrations = Rows(n.partnerIntegrations) BY <1>2, <1>5, <2>11, <2>12, <2>13, RowsOfChanged
    <2>15. DOMAIN n.partnerIntegrations = DOMAIN f BY <1>5, <2>11 DEF Put
    <2>16. \A id \in DOMAIN n.partnerIntegrations : n.partnerIntegrations[id].id = id /\ "id" \in DOMAIN n.partnerIntegrations[id]
        BY <1>2, <2>11, <2>15 DEF Put
    <2>17. SameOAuth(n, q) /\ OAGrows(s, n)
        BY <1>1, <1>2, <2>11, <2>12, <2>14, <2>15, <2>16, IntegrationsChanged DEF IntegrationTable
    <2>18. StoreUpdatePartnerIntegration(s, c).out = "ok" /\ PgUpdatePartnerIntegration(p, c).out = "ok"
        BY <2>5, <2>8, Accepted
    <2> QED BY <2>3, <2>4, <2>9, <2>10, <2>17, <2>18
<1> QED BY <1>4, <1>5

\* A call that changes the connections keeps the rest.
LEMMA ConnectionsChanged ==
    ASSUME NEW s, NEW p, SameOAuth(s, p), NEW n, NEW q,
           OAKeeps(s, n, {"partnerConnections", "partnerByExternal", "organizations"}),
           OAPgKeeps(p, q, {"partner_connections", "organizations"}),
           KnownTable(n.organizations, q.organizations),
           ConnectionTable(n.partnerConnections, n.partnerByExternal, q.partner_connections,
                           DOMAIN n.organizations),
           DOMAIN s.partnerConnections \subseteq DOMAIN n.partnerConnections,
           DOMAIN s.organizations \subseteq DOMAIN n.organizations
    PROVE  SameOAuth(n, q) /\ OAGrows(s, n)
BY DEF OAKeeps, OAFields, OAPgKeeps, OAPgFields, SameOAuth, CodeTable, GrantTable, OAGrows

\* Revoking and restoring a connection set its status.
Status(c, status) == [c EXCEPT !.status = status]
SetStatus(s, id, status) ==
    IF id \notin DOMAIN s.partnerConnections THEN Refused(s, "connection not found")
    ELSE Done([s EXCEPT !.partnerConnections = Put(s.partnerConnections, id, Status(s.partnerConnections[id], status))])
PgSetStatus(p, id, status) ==
    IF {r \in p.partner_connections : r.id = id} = {} THEN Refused(p, "connection not found")
    ELSE Done([p EXCEPT !.partner_connections =
                   Replace(p.partner_connections, {r \in p.partner_connections : r.id = id},
                           {Status(r, status) : r \in {x \in p.partner_connections : x.id = id}})])

\* Setting the status of a connection changes the same row of both, or is refused by both.
LEMMA StatusSet ==
    ASSUME NEW s, NEW p, SameOAuth(s, p), NEW id, NEW status
    PROVE  OAAnswered(s, p, SetStatus(s, id, status), PgSetStatus(p, id, status))
<1>1. PICK f : f = s.partnerConnections OBVIOUS
<1>2. PICK g : g = s.partnerByExternal OBVIOUS
<1>3. PICK orgs : orgs = DOMAIN s.organizations OBVIOUS
<1>4. ConnectionTable(f, g, p.partner_connections, orgs) BY <1>1, <1>2, <1>3 DEF SameOAuth
<1>5. DOMAIN s = OAFields /\ DOMAIN p = OAPgFields BY DEF SameOAuth
<1>6. PICK rows : rows = {r \in p.partner_connections : r.id = id} OBVIOUS
<1>7. p.partner_connections = Rows(f) /\ \A j \in DOMAIN f : f[j].id = j BY <1>4 DEF ConnectionTable
<1>8. CASE id \notin DOMAIN f
    <2>1. SetStatus(s, id, status) = Refused(s, "connection not found") BY <1>1, <1>8 DEF SetStatus
    <2>2. rows = {} BY <1>6, <1>7, <1>8 DEF Rows
    <2>3. PgSetStatus(p, id, status) = Refused(p, "connection not found") BY <1>6, <2>2 DEF PgSetStatus
    <2>4. /\ Refused(s, "connection not found").db = s
          /\ Refused(s, "connection not found").out = "connection not found"
        BY DEF Refused
    <2>5. /\ Refused(p, "connection not found").db = p
          /\ Refused(p, "connection not found").out = "connection not found"
        BY DEF Refused
    <2>6. OAGrows(s, s) BY DEF OAGrows
    <2> QED BY <2>1, <2>3, <2>4, <2>5, <2>6 DEF OAAnswered
<1>9. CASE id \in DOMAIN f
    <2>1. PICK v : v = Status(f[id], status) OBVIOUS
    <2>2. /\ v.id = id /\ DOMAIN v = ConnectionFields /\ v.org = f[id].org /\ v.integration = f[id].integration
          /\ v.external = f[id].external
        BY <1>4, <1>9, <2>1 DEF ConnectionTable, Status, ConnectionFields
    <2>3. rows = {f[id]} BY <1>6, <1>7, <1>9 DEF Rows
    <2>4. {Status(r, status) : r \in {x \in p.partner_connections : x.id = id}} = {v} BY <1>6, <2>1, <2>3
    <2>5. SetStatus(s, id, status) = Done([s EXCEPT !.partnerConnections = Put(f, id, v)])
        BY <1>1, <1>9, <2>1 DEF SetStatus
    <2>6. PgSetStatus(p, id, status)
             = Done([p EXCEPT !.partner_connections = Replace(p.partner_connections, {f[id]}, {v})])
        BY <1>6, <2>3, <2>4 DEF PgSetStatus
    <2>7. PICK n : n = SetStatus(s, id, status).db OBVIOUS
    <2>8. PICK q : q = PgSetStatus(p, id, status).db OBVIOUS
    <2>9. /\ OAKeeps(s, n, {"partnerConnections", "partnerByExternal", "organizations"})
          /\ n.partnerConnections = Put(f, id, v) /\ n.partnerByExternal = g
          /\ n.organizations = s.organizations
        BY <1>2, <1>5, <2>5, <2>7, Accepted DEF OAKeeps, OAFields
    <2>10. /\ OAPgKeeps(p, q, {"partner_connections", "organizations"})
           /\ q.partner_connections = Replace(p.partner_connections, {f[id]}, {v})
           /\ q.organizations = p.organizations
        BY <1>5, <2>6, <2>8, Accepted DEF OAPgKeeps, OAPgFields
    <2>11. \A j \in DOMAIN f \ {id} : f[j] # f[id] BY <1>7, <1>9
    <2>12. q.partner_connections = Rows(n.partnerConnections)
        BY <1>7, <1>9, <2>9, <2>10, <2>11, RowsOfChanged
    <2>13. /\ DOMAIN n.partnerConnections = DOMAIN f /\ n.partnerConnections[id] = v
           /\ \A j \in DOMAIN f \ {id} : n.partnerConnections[j] = f[j]
        BY <1>9, <2>9 DEF Put
    <2>14. ConnectionTable(n.partnerConnections, g, q.partner_connections, orgs)
        <3>1. \A j \in DOMAIN f : /\ n.partnerConnections[j].id = f[j].id
                                  /\ DOMAIN n.partnerConnections[j] = ConnectionFields
                                  /\ n.partnerConnections[j].org = f[j].org
                                  /\ n.partnerConnections[j].integration = f[j].integration
                                  /\ n.partnerConnections[j].external = f[j].external
            BY ZenonT(60), <1>4, <1>7, <1>9, <2>2, <2>13 DEF ConnectionTable
        <3> QED BY <1>4, <2>12, <2>13, <3>1 DEF ConnectionTable
    <2>15. KnownTable(n.organizations, q.organizations) BY <2>9, <2>10 DEF SameOAuth
    <2>16. ConnectionTable(n.partnerConnections, n.partnerByExternal, q.partner_connections,
                           DOMAIN n.organizations)
        BY <1>3, <2>9, <2>14
    <2>17. SameOAuth(n, q) /\ OAGrows(s, n)
        BY <1>1, <2>9, <2>10, <2>13, <2>15, <2>16, ConnectionsChanged
    <2>18. SetStatus(s, id, status).out = "ok" /\ PgSetStatus(p, id, status).out = "ok"
        BY <2>5, <2>6, Accepted
    <2> QED BY <2>7, <2>8, <2>17, <2>18 DEF OAAnswered
<1> QED BY <1>8, <1>9

\* RevokePartnerConnection and RestorePartnerConnection set the status.
LEMMA StatusCalls ==
    ASSUME NEW s, NEW p, SameOAuth(s, p), NEW id
    PROVE  /\ OAAnswered(s, p, StoreRevokePartnerConnection(s, id), PgRevokePartnerConnection(p, id))
           /\ OAAnswered(s, p, StoreRestorePartnerConnection(s, id), PgRestorePartnerConnection(p, id))
<1>1. PICK rows : rows = {r \in p.partner_connections : r.id = id} OBVIOUS
<1>2. DOMAIN s = OAFields BY DEF SameOAuth
<1>3. StoreRevokePartnerConnection(s, id) = SetStatus(s, id, "revoked")
    BY <1>2 DEF StoreRevokePartnerConnection, SetStatus, Status, OAFields
<1>4. StoreRestorePartnerConnection(s, id) = SetStatus(s, id, "active")
    BY <1>2 DEF StoreRestorePartnerConnection, SetStatus, Status, OAFields
<1>5. PgRevokePartnerConnection(p, id) = PgSetStatus(p, id, "revoked")
    BY DEF PgRevokePartnerConnection, UpdateRows, PgSetStatus, Status
<1>6. PgRestorePartnerConnection(p, id) = PgSetStatus(p, id, "active")
    BY DEF PgRestorePartnerConnection, UpdateRows, PgSetStatus, Status
<1> QED BY <1>3, <1>4, <1>5, <1>6, StatusSet

\* A connection c and an organization o with the next free number, in backends that agree.
NextFree(s, p, k, o, c) ==
    /\ SameOAuth(s, p) /\ k \in Nat /\ k >= 1 /\ DOMAIN s.organizations = 1..k
    /\ o.id = k + 1 /\ c.id = k + 1 /\ c.org = k + 1
    /\ DOMAIN c = ConnectionFields /\ c.integration = Integration

\* What the Store's call a and PostgreSQL's insert b leave, when its SELECT finds rows.
ProvisionAgreed(s, p, rows, a, b) ==
    /\ SameOAuth(a.db, b.db) /\ OAGrows(s, a.db) /\ a.out.org \in DOMAIN a.db.organizations
    /\ rows # {} => OAAnswered(s, p, a, Refused(p, One(rows))) /\ b.out = UniqueViolation(a.out)
    /\ rows = {} => b.out = a.out

\* Provisioning for an external account finds its connection, over which PostgreSQL refuses
\* a late insert, or makes one with an organization of the same number.
LEMMA ProvisionCall ==
    ASSUME NEW s, NEW p, NEW k, NEW o, NEW c, NextFree(s, p, k, o, c)
    PROVE  ProvisionAgreed(s, p, PgExternalConnection(p, c.integration, c.external),
                           StoreProvisionPartnerConnection(s, o, c), PgInsertPartnerConnection(p, o, c))
<1> SUFFICES ASSUME SameOAuth(s, p), k \in Nat, k >= 1, DOMAIN s.organizations = 1..k,
                    o.id = k + 1, DOMAIN c = ConnectionFields, c.id = k + 1, c.org = k + 1,
                    c.integration = Integration
             PROVE  LET rows == PgExternalConnection(p, c.integration, c.external)
                        a == StoreProvisionPartnerConnection(s, o, c)
                        b == PgInsertPartnerConnection(p, o, c)
                    IN  /\ SameOAuth(a.db, b.db) /\ OAGrows(s, a.db) /\ a.out.org \in DOMAIN a.db.organizations
                        /\ rows # {} => OAAnswered(s, p, a, Refused(p, One(rows))) /\ b.out = UniqueViolation(a.out)
                        /\ rows = {} => b.out = a.out
    BY Zenon DEF NextFree, ProvisionAgreed
<1>1. PICK f : f = s.partnerConnections OBVIOUS
<1>2. PICK g : g = s.partnerByExternal OBVIOUS
<1>3. PICK orgs : orgs = DOMAIN s.organizations OBVIOUS
<1>4. ConnectionTable(f, g, p.partner_connections, orgs) BY <1>1, <1>2, <1>3 DEF SameOAuth
<1>5. DOMAIN s = OAFields /\ DOMAIN p = OAPgFields BY DEF SameOAuth
<1>6. PICK key : key = <<c.integration, c.external>> OBVIOUS
<1>7. PICK rows : /\ rows = PgExternalConnection(p, c.integration, c.external)
                  /\ rows = {r \in p.partner_connections : r.integration = c.integration /\ r.external = c.external}
    BY DEF PgExternalConnection
<1>8. /\ p.partner_connections = Rows(f)
      /\ \A j \in DOMAIN f : /\ f[j].id = j /\ f[j].integration = Integration /\ f[j].org \in orgs
                             /\ <<Integration, f[j].external>> \in DOMAIN g
                             /\ g[<<Integration, f[j].external>>] = j
      /\ \A x \in DOMAIN g : g[x] \in DOMAIN f /\ x = <<Integration, f[g[x]].external>>
    BY <1>4 DEF ConnectionTable
<1>9. \A j \in DOMAIN f : f[j] \in rows <=> (key \in DOMAIN g /\ j = g[key])
    BY <1>7, <1>8, <1>6 DEF Rows
<1>10. rows \subseteq Rows(f) BY <1>7, <1>8
<1>11. CASE key \in DOMAIN g
    <2>1. PICK e : e = f[g[key]] OBVIOUS
    <2>2. g[key] \in DOMAIN f /\ e.id = g[key] /\ e.org \in orgs BY <1>8, <1>11, <2>1
    <2>3. rows = {e} BY <1>9, <1>10, <1>11, <2>1, <2>2 DEF Rows
    <2>4. One(rows) = e BY <2>3 DEF One
    <2>5. StoreProvisionPartnerConnection(s, o, c) = Refused(s, e)
        BY <1>1, <1>2, <1>6, <1>11, <2>1 DEF StoreProvisionPartnerConnection
    <2>6. PgInsertPartnerConnection(p, o, c) = Refused(p, UniqueViolation(e))
        BY <1>7, <2>3, <2>4 DEF PgInsertPartnerConnection
    <2>7. Refused(s, e).db = s /\ Refused(s, e).out = e BY DEF Refused
    <2>8. /\ Refused(p, e).db = p /\ Refused(p, e).out = e
          /\ Refused(p, UniqueViolation(e)).db = p
          /\ Refused(p, UniqueViolation(e)).out = UniqueViolation(e)
        BY DEF Refused
    <2>9. OAGrows(s, s) /\ rows # {} BY <2>3 DEF OAGrows
    <2>10. OAAnswered(s, p, Refused(s, e), Refused(p, e)) BY <2>7, <2>8, <2>9 DEF OAAnswered
    <2> HIDE DEF OAAnswered
    <2> QED BY <1>3, <1>7, <2>2, <2>4, <2>5, <2>6, <2>7, <2>8, <2>9, <2>10
<1>12. CASE key \notin DOMAIN g
    <2>1. rows = {} BY <1>9, <1>10, <1>12 DEF Rows
    <2>2. PICK n : n = StoreProvisionPartnerConnection(s, o, c).db OBVIOUS
    <2>3. PICK q : q = PgInsertPartnerConnection(p, o, c).db OBVIOUS
    <2>4. PICK w : w = [s EXCEPT !.organizations = Put(s.organizations, k + 1, o),
                                 !.partnerConnections = Put(f, k + 1, c), !.partnerByExternal = Put(g, key, k + 1)]
        OBVIOUS
    <2>5. StoreProvisionPartnerConnection(s, o, c) = [db |-> w, out |-> c]
        BY <1>1, <1>2, <1>6, <1>12, <2>4 DEF StoreProvisionPartnerConnection
    <2>6. PICK z : z = [p EXCEPT !.organizations = p.organizations \cup {o},
                                 !.partner_connections = p.partner_connections \cup {c}]
        OBVIOUS
    <2>7. PgInsertPartnerConnection(p, o, c) = [db |-> z, out |-> c]
        BY <1>7, <2>1, <2>6 DEF PgInsertPartnerConnection
    <2>8. n = w /\ q = z BY <2>2, <2>3, <2>5, <2>7
    <2>9. /\ OAKeeps(s, n, {"partnerConnections", "partnerByExternal", "organizations"})
          /\ n.partnerConnections = Put(f, k + 1, c) /\ n.partnerByExternal = Put(g, key, k + 1)
          /\ n.organizations = Put(s.organizations, k + 1, o)
        BY <1>5, <2>4, <2>8 DEF OAKeeps, OAFields
    <2>10. /\ OAPgKeeps(p, q, {"partner_connections", "organizations"})
           /\ q.partner_connections = p.partner_connections \cup {c}
           /\ q.organizations = p.organizations \cup {o}
        BY <1>5, <2>6, <2>8 DEF OAPgKeeps, OAPgFields
    <2>11. DOMAIN f = 2..k BY <1>4, <1>3 DEF ConnectionTable
    <2>12. /\ k + 1 \notin DOMAIN f /\ k + 1 \notin DOMAIN s.organizations
           /\ DOMAIN s.organizations \cup {k + 1} = 1..(k + 1) /\ DOMAIN f \cup {k + 1} = 2..(k + 1)
        BY <2>11
    <2>13. DOMAIN n.organizations = 1..(k + 1) /\ DOMAIN n.partnerConnections = 2..(k + 1)
           /\ DOMAIN n.partnerByExternal = DOMAIN g \cup {key}
        BY <2>9, <2>12 DEF Put
    <2>14. /\ n.partnerConnections[k + 1] = c /\ \A j \in DOMAIN f : n.partnerConnections[j] = f[j]
           /\ n.partnerByExternal[key] = k + 1 /\ \A x \in DOMAIN g : n.partnerByExternal[x] = g[x]
           /\ n.organizations[k + 1] = o /\ \A j \in DOMAIN s.organizations : n.organizations[j] = s.organizations[j]
        BY <1>12, <2>9, <2>12 DEF Put
    <2>15. KnownTable(n.organizations, q.organizations)
        <3>1. KnownTable(s.organizations, p.organizations) BY DEF SameOAuth
        <3>2. q.organizations = Rows(n.organizations)
            BY <2>9, <2>10, <2>12, <3>1, RowsOfNew DEF KnownTable
        <3>3. \A id \in DOMAIN n.organizations : n.organizations[id].id = id
            BY <2>9, <2>12, <2>14, <3>1 DEF KnownTable, Put
        <3> QED BY <3>2, <3>3 DEF KnownTable
    <2>16. q.partner_connections = Rows(n.partnerConnections) BY <1>8, <2>9, <2>10, <2>12, RowsOfNew
    <2>17. \A j \in DOMAIN f : <<Integration, f[j].external>> # key BY <1>8, <1>12
    <2>18. \A id \in DOMAIN n.partnerConnections :
              /\ n.partnerConnections[id].id = id /\ DOMAIN n.partnerConnections[id] = ConnectionFields
              /\ n.partnerConnections[id].org \in DOMAIN n.organizations
              /\ n.partnerConnections[id].integration = Integration
              /\ <<Integration, n.partnerConnections[id].external>> \in DOMAIN n.partnerByExternal
              /\ n.partnerByExternal[<<Integration, n.partnerConnections[id].external>>] = id
        <3>1. ASSUME NEW id \in DOMAIN f PROVE n.partnerConnections[id].org \in DOMAIN n.organizations
            <4>1. f[id].org \in 1..k BY <1>3, <1>8
            <4>2. 1..k \subseteq 1..(k + 1) OBVIOUS
            <4> QED BY <2>13, <2>14, <4>1, <4>2
        <3>2. ASSUME NEW id \in DOMAIN f
              PROVE  /\ n.partnerConnections[id].id = id /\ DOMAIN n.partnerConnections[id] = ConnectionFields
                     /\ n.partnerConnections[id].integration = Integration
                     /\ <<Integration, n.partnerConnections[id].external>> \in DOMAIN n.partnerByExternal
                     /\ n.partnerByExternal[<<Integration, n.partnerConnections[id].external>>] = id
            BY <1>8, <2>14, <1>4, <2>13 DEF ConnectionTable
        <3>3. key = <<Integration, c.external>> BY <1>6
        <3>4. k + 1 \in 1..(k + 1) OBVIOUS
        <3>5. n.partnerConnections[k + 1].org \in DOMAIN n.organizations BY <2>13, <2>14, <3>4
        <3>6. \A id \in DOMAIN n.partnerConnections : id \in DOMAIN f \/ id = k + 1 BY <2>12, <2>13
        <3> QED BY <2>13, <2>14, <3>1, <3>2, <3>3, <3>5, <3>6
    <2>19. \A x \in DOMAIN n.partnerByExternal :
              /\ n.partnerByExternal[x] \in DOMAIN n.partnerConnections
              /\ x = <<Integration, n.partnerConnections[n.partnerByExternal[x]].external>>
        <3>1. ASSUME NEW x \in DOMAIN g
              PROVE  /\ n.partnerByExternal[x] \in DOMAIN n.partnerConnections
                     /\ x = <<Integration, n.partnerConnections[n.partnerByExternal[x]].external>>
            BY <1>8, <2>12, <2>13, <2>14
        <3>2. key = <<Integration, c.external>> BY <1>6
        <3>3. k + 1 \in DOMAIN n.partnerConnections BY <2>12, <2>13
        <3> QED BY <2>13, <2>14, <3>1, <3>2, <3>3
    <2>20. ConnectionTable(n.partnerConnections, n.partnerByExternal, q.partner_connections,
                           DOMAIN n.organizations)
        BY <2>13, <2>16, <2>18, <2>19 DEF ConnectionTable
    <2>21. /\ DOMAIN f \subseteq DOMAIN n.partnerConnections
           /\ DOMAIN s.organizations \subseteq DOMAIN n.organizations
        BY <2>12, <2>13
    <2>22. SameOAuth(n, q) /\ OAGrows(s, n)
        BY <1>1, <2>9, <2>10, <2>15, <2>20, <2>21, ConnectionsChanged
    <2>23. StoreProvisionPartnerConnection(s, o, c).out = c /\ PgInsertPartnerConnection(p, o, c).out = c
        BY <2>5, <2>7
    <2>24. k + 1 \in DOMAIN n.partnerConnections /\ k + 1 \in DOMAIN n.organizations BY <2>12, <2>13
    <2>25. c.org \in DOMAIN n.organizations BY <2>24
    <2> QED BY <1>7, <2>1, <2>2, <2>3, <2>22, <2>23, <2>25
<1> QED BY <1>11, <1>12

\* What a suspended request holds of the tables.
IssueHeld(s, r) ==
    r.op = "issue" => r.user \in DOMAIN s.users \cup {0} /\ r.org \in DOMAIN s.organizations
Onward(r) == r.op \in {"idle", "issue"}
TokenHeld(s, k) == k.hash \in DOMAIN s.oauthTokens /\ Voided(k) = Voided(s.oauthTokens[k.hash])
OAHeld(s, r) ==
    /\ r.op = "write client" => r.client.id \in DOMAIN s.oauthClients /\ "id" \in DOMAIN r.client
    /\ r.op = "create code" => r.client \in DOMAIN s.oauthClients
    /\ r.op = "exchange" => r.hash \in DOMAIN s.oauthCodes
    /\ r.op = "use code" => r.code.hash \in DOMAIN s.oauthCodes /\ r.code = Used(s.oauthCodes[r.code.hash])
    /\ IssueHeld(s, r)
    /\ r.op = "refresh" => r.hash \in DOMAIN s.oauthTokens
    /\ r.op = "revoke token" => /\ TokenHeld(s, r.token) /\ r.token = Voided(r.token)
                                /\ Onward(r.next) /\ IssueHeld(s, r.next)
    /\ r.op = "write integration" => /\ r.integration.id \in DOMAIN s.partnerIntegrations
                                     /\ "id" \in DOMAIN r.integration
    /\ r.op = "restore" => r.connection.org \in DOMAIN s.organizations
    /\ r.op = "revoke connection" => "op" \in DOMAIN r
    /\ r.op = "refresh partner" => TokenHeld(s, r.token)

OAuthInv ==
    /\ oaReq = [t \in OAuthThreads |-> oaReq[t]]
    /\ SameOAuth(oaStore, oaPg) /\ oaAgreed = TRUE
    /\ \A t \in OAuthThreads : OAHeld(oaStore, oaReq[t])

\* What a request holds of the OAuth tables it still holds after a call of another.
LEMMA StillHeld == ASSUME NEW s, NEW n, OAGrows(s, n), NEW r, OAHeld(s, r) PROVE OAHeld(n, r)
BY ZenonT(60) DEF OAGrows, OAHeld, IssueHeld, TokenHeld

\* Requests that hold nothing.
Bare(r) == r.op \in {"idle", "create client", "revoke client", "provision", "insert connection",
                    "revoke connection tokens"}

\* Requests that hold nothing stay so in any repository.
LEMMA NothingHeld == ASSUME NEW s, NEW r, Bare(r) PROVE OAHeld(s, r)
BY DEF Bare, OAHeld, IssueHeld

\* An idle request is one of them.
LEMMA IdleBare == Bare(OAIdle)
BY DEF Bare, OAIdle

\* A call, and what its request does next.
LEMMA Called ==
    ASSUME OAuthInv, NEW t \in OAuthThreads, NEW r, oaReq' = [oaReq EXCEPT ![t] = r], NEW a, NEW b,
           OAAnswered(oaStore, oaPg, a, b), OACall(a, b), OAHeld(a.db, r)
    PROVE  OAuthInv'
BY StillHeld DEF OACall, OAAnswered, OAuthInv

\* A call that is a request of its own.
LEMMA CalledAlone ==
    ASSUME OAuthInv, NEW a, NEW b, OAAnswered(oaStore, oaPg, a, b), OACall(a, b), oaReq' = oaReq
    PROVE  OAuthInv'
BY StillHeld DEF OACall, OAAnswered, OAuthInv

\* A query, and what its request does next.
LEMMA ReadOn ==
    ASSUME OAuthInv, NEW t \in OAuthThreads, NEW r, oaReq' = [oaReq EXCEPT ![t] = r],
           UNCHANGED <<oaStore, oaPg, oaAgreed, oaNow>>, OAHeld(oaStore, r)
    PROVE  OAuthInv'
BY DEF OAuthInv

\* How many entries a numbered table has.
LEMMA CountNumbered ==
    ASSUME NEW f, NEW n \in Nat, DOMAIN f = 1..n PROVE Cardinality(DOMAIN f) = n
BY FS_Interval

\* The user and the organization are known, and codes, tokens and organizations are numbered
\* from one, so that the next number is new.
LEMMA OAKnown ==
    ASSUME OAuthInv
    PROVE  /\ OAuthUser \in DOMAIN oaStore.users /\ OAuthOrg \in DOMAIN oaStore.organizations
           /\ Cardinality(DOMAIN oaStore.oauthCodes) \in Nat
           /\ DOMAIN oaStore.oauthCodes = 1..Cardinality(DOMAIN oaStore.oauthCodes)
           /\ Cardinality(DOMAIN oaStore.oauthTokens) \in Nat
           /\ DOMAIN oaStore.oauthTokens = 1..Cardinality(DOMAIN oaStore.oauthTokens)
           /\ Cardinality(DOMAIN oaStore.organizations) \in Nat
           /\ Cardinality(DOMAIN oaStore.organizations) >= 1
           /\ DOMAIN oaStore.organizations = 1..Cardinality(DOMAIN oaStore.organizations)
BY CountNumbered DEF OAuthInv, SameOAuth, CodeTable, Numbered, GrantTable, ConnectionTable,
   OAuthOrg

\* A token read from the table, and the same token revoked.
LEMMA TokenRead ==
    ASSUME NEW s, NEW p, SameOAuth(s, p), NEW h \in DOMAIN s.oauthTokens, NEW k, k = s.oauthTokens[h]
    PROVE  /\ k.hash = h /\ TokenHeld(s, k) /\ TokenHeld(s, Voided(k)) /\ Voided(k) = Voided(Voided(k))
           /\ k.user \in DOMAIN s.users \cup {0} /\ k.org \in DOMAIN s.organizations
<1>1. /\ k.hash = h /\ DOMAIN k = GrantFields /\ k.user \in DOMAIN s.users \cup {0}
      /\ k.org \in DOMAIN s.organizations
    BY DEF SameOAuth, GrantTable
<1>2. Voided(k).hash = k.hash BY <1>1 DEF Voided, GrantFields
<1>3. Voided(k) = Voided(Voided(k)) BY DEF Voided
<1> QED BY <1>1, <1>2, <1>3 DEF TokenHeld

\* A client that was found is in the table under its id.
LEMMA ClientRead ==
    ASSUME NEW s, NEW p, SameOAuth(s, p), NEW id, NEW c, c = StoreOAuthClient(s, id), c # NotFound
    PROVE  id \in DOMAIN s.oauthClients /\ c.id = id /\ "id" \in DOMAIN c
BY DEF StoreOAuthClient, At, SameOAuth, ClientTable

\* Clients.
LEMMA ClientActions ==
    ASSUME OAuthInv, NEW t \in OAuthThreads
    PROVE  /\ EnforceClientLimit(t) \/ CreateClient(t) \/ WriteClient(t) \/ DisableClientTokens(t) => OAuthInv'
           /\ \A id : RotateClientSecret(t, id) \/ DisableClient(t, id) \/ RestoreClient(t, id) => OAuthInv'
           /\ \A id, scopes : UpdateClient(t, id, scopes) => OAuthInv'
<1>1. SameOAuth(oaStore, oaPg) /\ OAHeld(oaStore, oaReq[t]) BY DEF OAuthInv
<1>2. ASSUME EnforceClientLimit(t) PROVE OAuthInv'
    <2>1. PICK r : r = [op |-> "create client"] OBVIOUS
    <2>2. OAHeld(oaStore, r)
        <3>1. Bare(r) BY <2>1 DEF Bare
        <3> QED BY <3>1, NothingHeld
    <2>3. oaReq' = [oaReq EXCEPT ![t] = r] /\ UNCHANGED <<oaStore, oaPg, oaAgreed, oaNow>>
        BY <1>2, <2>1 DEF EnforceClientLimit, OARead, OAGoto
    <2> QED BY <2>2, <2>3, ReadOn
<1>3. ASSUME CreateClient(t) PROVE OAuthInv'
    BY <1>3, <1>1, ClientCalls, NothingHeld, IdleBare, Called DEF CreateClient, OAGoto,
       NewClient, OAAnswered
<1>4. ASSUME WriteClient(t) PROVE OAuthInv'
    <2>1. PICK c : c = oaReq[t].client OBVIOUS
    <2>2. PICK r : r = IF oaReq[t].then = "revoke" THEN [op |-> "revoke client", client |-> c.id] ELSE OAIdle
        OBVIOUS
    <2>3. PICK a : a = StoreUpdateOAuthClient(oaStore, c) OBVIOUS
    <2>4. PICK b : b = PgUpdateOAuthClient(oaPg, c) OBVIOUS
    <2>5. OACall(a, b) /\ oaReq' = [oaReq EXCEPT ![t] = r] /\ oaReq[t].op = "write client"
        BY <1>4, <2>1, <2>2, <2>3, <2>4 DEF WriteClient, OAGoto, OADoing
    <2>6. c.id \in DOMAIN oaStore.oauthClients /\ "id" \in DOMAIN c BY <1>1, <2>1, <2>5 DEF OAHeld
    <2>7. OAAnswered(oaStore, oaPg, a, b) BY <1>1, <2>3, <2>4, <2>6, ClientCalls DEF OAAnswered
    <2>8. Bare(r) BY <2>2, IdleBare DEF Bare
    <2>9. OAHeld(a.db, r) BY <2>8, NothingHeld
    <2> QED BY <2>5, <2>7, <2>9, Called
<1>5. ASSUME DisableClientTokens(t) PROVE OAuthInv'
    BY <1>5, <1>1, RevokeCalls, NothingHeld, IdleBare, Called DEF DisableClientTokens, OAGoto
<1>6. ASSUME NEW id, NEW c, c = StoreOAuthClient(oaStore, id), NEW d, d.id = c.id, "id" \in DOMAIN c => "id" \in DOMAIN d,
             NEW then, ManageClient(t, c, d, then)
      PROVE  OAuthInv'
    <2>1. PICK r : r = [op |-> "write client", client |-> d, then |-> then] OBVIOUS
    <2>2. /\ c # NotFound /\ oaReq' = [oaReq EXCEPT ![t] = r]
          /\ UNCHANGED <<oaStore, oaPg, oaAgreed, oaNow>>
        BY <1>6, <2>1 DEF ManageClient, OARead, OAGoto
    <2>3. id \in DOMAIN oaStore.oauthClients /\ c.id = id /\ "id" \in DOMAIN c BY <1>1, <1>6, <2>2, ClientRead
    <2>4. OAHeld(oaStore, r) BY <1>6, <2>1, <2>3 DEF OAHeld, IssueHeld
    <2> QED BY <2>2, <2>4, ReadOn
<1>7. ASSUME NEW id, RotateClientSecret(t, id) \/ DisableClient(t, id) \/ RestoreClient(t, id) PROVE OAuthInv'
    <2>1. PICK c : c = StoreOAuthClient(oaStore, id) OBVIOUS
    <2>2. \/ ManageClient(t, c, [c EXCEPT !.secret = 1 - @], "done")
          \/ ManageClient(t, c, [c EXCEPT !.disabled = TRUE], "revoke")
          \/ ManageClient(t, c, [c EXCEPT !.disabled = FALSE], "done")
        BY <1>7, <2>1 DEF RotateClientSecret, DisableClient, RestoreClient
    <2>3. PICK d, then : ManageClient(t, c, d, then) /\ \/ d = [c EXCEPT !.secret = 1 - @]
                                                        \/ d = [c EXCEPT !.disabled = TRUE]
                                                        \/ d = [c EXCEPT !.disabled = FALSE]
        BY <2>2
    <2>4. c # NotFound BY <2>3 DEF ManageClient
    <2>5. "id" \in DOMAIN c BY <1>1, <2>1, <2>4, ClientRead
    <2>6. d.id = c.id /\ "id" \in DOMAIN d BY <2>3, <2>5
    <2> QED BY <1>6, <2>1, <2>3, <2>6
<1>8. ASSUME NEW id, NEW scopes, UpdateClient(t, id, scopes) PROVE OAuthInv'
    <2>1. PICK c : c = StoreOAuthClient(oaStore, id) OBVIOUS
    <2>2. PICK d : d = [c EXCEPT !.scopes = scopes] OBVIOUS
    <2>3. ManageClient(t, c, d, "done") BY <1>8, <2>1, <2>2 DEF UpdateClient
    <2>4. c # NotFound BY <2>3 DEF ManageClient
    <2>5. "id" \in DOMAIN c BY <1>1, <2>1, <2>4, ClientRead
    <2>6. d.id = c.id /\ "id" \in DOMAIN d BY <2>2, <2>5
    <2> QED BY <1>6, <2>1, <2>3, <2>6
<1> QED BY <1>2, <1>3, <1>4, <1>5, <1>7, <1>8

\* What a request that will issue tokens holds.
LEMMA ToIssue ==
    ASSUME NEW s, NEW client, NEW user, NEW connection, NEW org, NEW scopes,
           user \in DOMAIN s.users \cup {0}, org \in DOMAIN s.organizations
    PROVE  /\ Onward(Issue(client, user, connection, org, scopes))
           /\ IssueHeld(s, Issue(client, user, connection, org, scopes))
           /\ OAHeld(s, Issue(client, user, connection, org, scopes))
BY DEF Issue, IssueHeld, OAHeld, Onward

\* What a request that will revoke a token holds.
LEMMA ToRevoke ==
    ASSUME NEW s, NEW k, TokenHeld(s, k), k = Voided(k), NEW next, Onward(next),
           IssueHeld(s, next), NEW r, r.op = "revoke token", r.token = k, r.next = next
    PROVE  OAHeld(s, r)
BY DEF OAHeld, IssueHeld

\* Authorization codes.
LEMMA CodeActions ==
    ASSUME OAuthInv, NEW t \in OAuthThreads
    PROVE  /\ \A id, scopes : Authorize(t, id, scopes) => OAuthInv'
           /\ CreateCode(t) \/ ExchangeAuthorizationCode(t) \/ UseCode(t) => OAuthInv'
           /\ \A id, secret : \A h \in DOMAIN oaStore.oauthCodes :
                 OAuthToken(t, id, secret, "exchange", h) => OAuthInv'
<1>1. SameOAuth(oaStore, oaPg) /\ OAHeld(oaStore, oaReq[t]) BY DEF OAuthInv
<1>2. ASSUME NEW id, NEW scopes, Authorize(t, id, scopes) PROVE OAuthInv'
    <2>1. PICK r : r = [op |-> "create code", client |-> id, scopes |-> scopes] OBVIOUS
    <2>2. PICK c : c = StoreOAuthClient(oaStore, id) OBVIOUS
    <2>3. /\ c # NotFound /\ oaReq' = [oaReq EXCEPT ![t] = r]
          /\ UNCHANGED <<oaStore, oaPg, oaAgreed, oaNow>>
        BY <1>2, <2>1, <2>2 DEF Authorize, ValidClientRequest, OARead, OAGoto
    <2>4. id \in DOMAIN oaStore.oauthClients BY <1>1, <2>2, <2>3, ClientRead
    <2>5. OAHeld(oaStore, r) BY <2>1, <2>4 DEF OAHeld, IssueHeld
    <2> QED BY <2>3, <2>5, ReadOn
<1>3. ASSUME CreateCode(t) PROVE OAuthInv'
    <2>1. PICK m : m = Cardinality(DOMAIN oaStore.oauthCodes) OBVIOUS
    <2>2. PICK k : k = [hash |-> m + 1, client |-> oaReq[t].client, user |-> OAuthUser, org |-> OAuthOrg,
                        scopes |-> oaReq[t].scopes, expires |-> oaNow + 1, used |-> FALSE]
        OBVIOUS
    <2>3. PICK a : a = StoreCreateOAuthAuthorizationCode(oaStore, k) OBVIOUS
    <2>4. PICK b : b = PgCreateOAuthAuthorizationCode(oaPg, k) OBVIOUS
    <2>5. OACall(a, b) /\ oaReq' = [oaReq EXCEPT ![t] = OAIdle] /\ oaReq[t].op = "create code"
        BY <1>3, <2>1, <2>2, <2>3, <2>4 DEF CreateCode, OAGoto, OADoing
    <2>6. DOMAIN k = CodeFields /\ k.hash = m + 1 /\ k.client = oaReq[t].client /\ k.user = OAuthUser
          /\ k.org = OAuthOrg
        BY <2>2 DEF CodeFields
    <2>7. m \in Nat /\ DOMAIN oaStore.oauthCodes = 1..m BY <2>1, OAKnown
    <2>8. k.client \in DOMAIN oaStore.oauthClients BY <1>1, <2>5, <2>6 DEF OAHeld
    <2>9. k.user \in DOMAIN oaStore.users /\ k.org \in DOMAIN oaStore.organizations BY <2>6, OAKnown
    <2>10. OAAnswered(oaStore, oaPg, a, b) BY <1>1, <2>3, <2>4, <2>6, <2>7, <2>8, <2>9, CodeCreated
    <2>11. OAHeld(a.db, OAIdle) BY NothingHeld, IdleBare
    <2> QED BY <2>5, <2>10, <2>11, Called
<1>4. ASSUME NEW id, NEW secret, NEW h \in DOMAIN oaStore.oauthCodes, OAuthToken(t, id, secret, "exchange", h)
      PROVE  OAuthInv' BY <1>4, ReadOn DEF OAuthToken, OARead, OAGoto, OAHeld, IssueHeld
<1>5. ASSUME ExchangeAuthorizationCode(t) PROVE OAuthInv'
    <2>1. PICK h : h = oaReq[t].hash OBVIOUS
    <2>2. PICK k : k = StoreOAuthAuthorizationCode(oaStore, h) OBVIOUS
    <2>3. PICK r : r = IF k.client # oaReq[t].client \/ k.used \/ k.expires <= oaNow THEN OAIdle
                       ELSE [op |-> "use code", code |-> Used(k)]
        OBVIOUS
    <2>4. /\ oaReq[t].op = "exchange" /\ oaReq' = [oaReq EXCEPT ![t] = r]
          /\ UNCHANGED <<oaStore, oaPg, oaAgreed, oaNow>>
        BY <1>5, <2>1, <2>2, <2>3 DEF ExchangeAuthorizationCode, OARead, OAGoto, OADoing, Used
    <2>5. h \in DOMAIN oaStore.oauthCodes /\ k = oaStore.oauthCodes[h]
        BY <1>1, <2>1, <2>2, <2>4 DEF OAHeld, StoreOAuthAuthorizationCode, At
    <2>6. k.hash = h /\ DOMAIN k = CodeFields BY <1>1, <2>5 DEF SameOAuth, CodeTable
    <2>7. Used(k).hash = h BY <2>6 DEF Used, CodeFields
    <2>8. CASE r = OAIdle BY <2>4, <2>8, NothingHeld, IdleBare, ReadOn
    <2>9. CASE r = [op |-> "use code", code |-> Used(k)]
        BY <2>9, <2>5, <2>7, <2>4, ReadOn DEF OAHeld, IssueHeld
    <2> QED BY <2>3, <2>8, <2>9
<1>6. ASSUME UseCode(t) PROVE OAuthInv'
    <2>1. PICK k : k = oaReq[t].code OBVIOUS
    <2>2. PICK r : r = Issue(k.client, k.user, 0, k.org, k.scopes) OBVIOUS
    <2>3. PICK a : a = StoreUpdateOAuthAuthorizationCode(oaStore, k) OBVIOUS
    <2>4. PICK b : b = PgUpdateOAuthAuthorizationCode(oaPg, k) OBVIOUS
    <2>5. OACall(a, b) /\ oaReq' = [oaReq EXCEPT ![t] = r] /\ oaReq[t].op = "use code"
        BY <1>6, <2>1, <2>2, <2>3, <2>4 DEF UseCode, OAGoto, OADoing
    <2>6. k.hash \in DOMAIN oaStore.oauthCodes /\ k = Used(oaStore.oauthCodes[k.hash])
        BY <1>1, <2>1, <2>5 DEF OAHeld
    <2>7. PICK c : c = oaStore.oauthCodes[k.hash] OBVIOUS
    <2>8. DOMAIN c = CodeFields /\ c.user \in DOMAIN oaStore.users /\ c.org \in DOMAIN oaStore.organizations
        BY <1>1, <2>6, <2>7 DEF SameOAuth, CodeTable
    <2>9. k.user \in DOMAIN oaStore.users /\ k.org \in DOMAIN oaStore.organizations
        BY <2>6, <2>7, <2>8 DEF Used, CodeFields
    <2>10. OAAnswered(oaStore, oaPg, a, b) BY <1>1, <2>3, <2>4, <2>6, CodeUsed
    <2>11. k.user \in DOMAIN oaStore.users \cup {0} BY <2>9
    <2>12. OAHeld(oaStore, r) BY <2>2, <2>9, <2>11, ToIssue
    <2>13. OAHeld(a.db, r) BY <2>10, <2>12, StillHeld DEF OAAnswered
    <2> QED BY <2>5, <2>10, <2>13, Called
<1> QED BY <1>2, <1>3, <1>4, <1>5, <1>6

\* Tokens.
LEMMA TokenActions ==
    ASSUME OAuthInv, NEW t \in OAuthThreads
    PROVE  /\ OAuthRefresh(t) \/ UpdateToken(t) \/ IssueTokens(t) => OAuthInv'
           /\ \A id, secret : \A h \in DOMAIN oaStore.oauthRefresh :
                 OAuthToken(t, id, secret, "refresh", h) => OAuthInv'
           /\ \A h \in DOMAIN oaStore.oauthTokens : OAuthRevoke(t, h) => OAuthInv'
<1>1. SameOAuth(oaStore, oaPg) /\ OAHeld(oaStore, oaReq[t]) BY DEF OAuthInv
<1>2. /\ DOMAIN oaStore.oauthRefresh = DOMAIN oaStore.oauthTokens
      /\ \A h \in DOMAIN oaStore.oauthTokens : StoreOAuthRefreshToken(oaStore, h) = oaStore.oauthTokens[h]
    BY <1>1 DEF SameOAuth, GrantTable, StoreOAuthRefreshToken, At
<1>3. ASSUME NEW id, NEW secret, NEW h \in DOMAIN oaStore.oauthRefresh, OAuthToken(t, id, secret, "refresh", h)
      PROVE  OAuthInv' BY <1>3, <1>2, ReadOn DEF OAuthToken, OARead, OAGoto, OAHeld, IssueHeld
<1>4. ASSUME OAuthRefresh(t) PROVE OAuthInv'
    <2>1. PICK h : h = oaReq[t].hash OBVIOUS
    <2>2. PICK k : k = StoreOAuthRefreshToken(oaStore, h) OBVIOUS
    <2>3. PICK next : next = Issue(k.client, k.user, 0, k.org, k.scopes) OBVIOUS
    <2>4. PICK r : r = IF k.client # oaReq[t].client \/ k.revoked \/ k.expires <= oaNow THEN OAIdle
                       ELSE [op |-> "revoke token", token |-> Voided(k), next |-> next]
        OBVIOUS
    <2>5. /\ oaReq[t].op = "refresh" /\ oaReq' = [oaReq EXCEPT ![t] = r]
          /\ UNCHANGED <<oaStore, oaPg, oaAgreed, oaNow>>
        BY <1>4, <2>1, <2>2, <2>3, <2>4 DEF OAuthRefresh, OARead, OAGoto, OADoing, Voided
    <2>6. h \in DOMAIN oaStore.oauthTokens /\ k = oaStore.oauthTokens[h]
        BY <1>1, <1>2, <2>1, <2>2, <2>5 DEF OAHeld
    <2>7. /\ TokenHeld(oaStore, Voided(k)) /\ Voided(k) = Voided(Voided(k))
          /\ k.user \in DOMAIN oaStore.users \cup {0} /\ k.org \in DOMAIN oaStore.organizations
        BY <1>1, <2>6, TokenRead
    <2>8. Onward(next) /\ IssueHeld(oaStore, next) BY <2>3, <2>7, ToIssue
    <2>9. CASE r = OAIdle BY <2>5, <2>9, NothingHeld, IdleBare, ReadOn
    <2>10. CASE r = [op |-> "revoke token", token |-> Voided(k), next |-> next]
        <3>1. r.op = "revoke token" /\ r.token = Voided(k) /\ r.next = next BY <2>10
        <3>2. OAHeld(oaStore, r) BY <2>7, <2>8, <3>1, ToRevoke
        <3> QED BY <2>5, <3>2, ReadOn
    <2> QED BY <2>4, <2>9, <2>10
<1>5. ASSUME NEW h \in DOMAIN oaStore.oauthTokens, OAuthRevoke(t, h) PROVE OAuthInv'
    <2>1. PICK k : k = StoreOAuthAccessToken(oaStore, h) OBVIOUS
    <2>2. k = oaStore.oauthTokens[h] BY <2>1 DEF StoreOAuthAccessToken, At
    <2>3. PICK r : r = [op |-> "revoke token", next |-> OAIdle, token |-> Voided(k)] OBVIOUS
    <2>4. oaReq' = [oaReq EXCEPT ![t] = r] /\ UNCHANGED <<oaStore, oaPg, oaAgreed, oaNow>>
        BY <1>5, <2>1, <2>3 DEF OAuthRevoke, OARead, OAGoto, Voided
    <2>5. TokenHeld(oaStore, Voided(k)) /\ Voided(k) = Voided(Voided(k)) BY <1>1, <2>2, TokenRead
    <2>6. Onward(OAIdle) /\ IssueHeld(oaStore, OAIdle) BY DEF OAIdle, IssueHeld, Onward
    <2>7. r.op = "revoke token" /\ r.token = Voided(k) /\ r.next = OAIdle BY <2>3
    <2>8. OAHeld(oaStore, r) BY <2>5, <2>6, <2>7, ToRevoke
    <2> QED BY <2>4, <2>8, ReadOn
<1>6. ASSUME UpdateToken(t) PROVE OAuthInv'
    <2>1. PICK k : k = oaReq[t].token OBVIOUS
    <2>2. PICK r : r = oaReq[t].next OBVIOUS
    <2>3. PICK a : a = StoreUpdateOAuthToken(oaStore, k) OBVIOUS
    <2>4. PICK b : b = PgUpdateOAuthToken(oaPg, k) OBVIOUS
    <2>5. OACall(a, b) /\ oaReq' = [oaReq EXCEPT ![t] = r] /\ oaReq[t].op = "revoke token"
        BY <1>6, <2>1, <2>2, <2>3, <2>4 DEF UpdateToken, OAGoto, OADoing
    <2>6. TokenHeld(oaStore, k) /\ k = Voided(k) /\ Onward(r) /\ IssueHeld(oaStore, r)
        BY <1>1, <2>1, <2>2, <2>5 DEF OAHeld
    <2>7. k.hash \in DOMAIN oaStore.oauthTokens /\ k = Voided(oaStore.oauthTokens[k.hash]) BY <2>6 DEF TokenHeld
    <2>8. OAAnswered(oaStore, oaPg, a, b) BY <1>1, <2>3, <2>4, <2>7, GrantEnded
    <2>9. OAHeld(oaStore, r) BY <2>6 DEF OAHeld, Onward
    <2>10. OAHeld(a.db, r) BY <2>8, <2>9, StillHeld DEF OAAnswered
    <2> QED BY <2>5, <2>8, <2>10, Called
<1>7. ASSUME IssueTokens(t) PROVE OAuthInv'
    <2>1. PICK m : m = Cardinality(DOMAIN oaStore.oauthTokens) OBVIOUS
    <2>2. PICK r : r = oaReq[t] OBVIOUS
    <2>3. PICK k : k = [hash |-> m + 1, refresh |-> m + 1, client |-> r.client, user |-> r.user,
                        connection |-> r.connection, org |-> r.org, scopes |-> r.scopes,
                        expires |-> oaNow + 1, created |-> m + 1, revoked |-> FALSE]
        OBVIOUS
    <2>4. PICK a : a = StoreCreateOAuthToken(oaStore, k) OBVIOUS
    <2>5. PICK b : b = PgCreateOAuthToken(oaPg, k) OBVIOUS
    <2>6. OACall(a, b) /\ oaReq' = [oaReq EXCEPT ![t] = OAIdle] /\ r.op = "issue"
        BY <1>7, <2>1, <2>2, <2>3, <2>4, <2>5 DEF IssueTokens, OAGoto, OADoing
    <2>7. r.user \in DOMAIN oaStore.users \cup {0} /\ r.org \in DOMAIN oaStore.organizations
        BY <1>1, <2>2, <2>6 DEF OAHeld, IssueHeld
    <2>8. /\ DOMAIN k = GrantFields /\ k.hash = m + 1 /\ k.refresh = m + 1
          /\ k.user \in DOMAIN oaStore.users \cup {0} /\ k.org \in DOMAIN oaStore.organizations
        BY <2>3, <2>7 DEF GrantFields
    <2>9. m \in Nat /\ DOMAIN oaStore.oauthTokens = 1..m BY <2>1, OAKnown
    <2>10. OAAnswered(oaStore, oaPg, a, b) BY <1>1, <2>4, <2>5, <2>8, <2>9, GrantCreated
    <2>11. OAHeld(a.db, OAIdle) BY NothingHeld, IdleBare
    <2> QED BY <2>6, <2>10, <2>11, Called
<1> QED BY <1>3, <1>4, <1>5, <1>6, <1>7

\* Steps that are no request's.
LEMMA OAAside ==
    ASSUME OAuthInv
    PROVE  (\E id : OAuthDisconnect(id)) \/ OATimePasses => OAuthInv'
BY RevokeCalls, CalledAlone DEF OAuthDisconnect, OAuthInv, OATimePasses

\* Integrations.
LEMMA IntegrationActions ==
    ASSUME OAuthInv
    PROVE  /\ CreateIntegration => OAuthInv'
           /\ \A t \in OAuthThreads :
                 RotateIntegrationSecret(t) \/ DisableIntegration(t) \/ WriteIntegration(t) => OAuthInv'
<1>1. SameOAuth(oaStore, oaPg) BY DEF OAuthInv
<1>2. ASSUME CreateIntegration PROVE OAuthInv'
    BY <1>2, <1>1, IntegrationCalls, CalledAlone DEF CreateIntegration, OAAnswered
<1>3. ASSUME NEW t \in OAuthThreads, NEW c, c = StorePartnerIntegration(oaStore, Integration), NEW d,
             d = [c EXCEPT !.secret = 1 - @] \/ d = [c EXCEPT !.disabled = TRUE], ManageIntegration(t, c, d)
      PROVE  OAuthInv'
    <2>1. PICK r : r = [op |-> "write integration", integration |-> d] OBVIOUS
    <2>2. /\ c # NotFound /\ oaReq' = [oaReq EXCEPT ![t] = r]
          /\ UNCHANGED <<oaStore, oaPg, oaAgreed, oaNow>>
        BY <1>3, <2>1 DEF ManageIntegration, OARead, OAGoto
    <2>3. Integration \in DOMAIN oaStore.partnerIntegrations /\ c = oaStore.partnerIntegrations[Integration]
        BY <1>3, <2>2 DEF StorePartnerIntegration, At
    <2>4. c.id = Integration /\ "id" \in DOMAIN c BY <1>1, <2>3 DEF SameOAuth, IntegrationTable
    <2>5. d.id = Integration /\ "id" \in DOMAIN d BY <1>3, <2>4
    <2>6. OAHeld(oaStore, r) BY <2>1, <2>3, <2>5 DEF OAHeld, IssueHeld
    <2> QED BY <2>2, <2>6, ReadOn
<1>4. ASSUME NEW t \in OAuthThreads, RotateIntegrationSecret(t) \/ DisableIntegration(t) PROVE OAuthInv'
    BY <1>4, <1>3 DEF RotateIntegrationSecret, DisableIntegration
<1>5. ASSUME NEW t \in OAuthThreads, WriteIntegration(t) PROVE OAuthInv'
    <2>1. PICK c : c = oaReq[t].integration OBVIOUS
    <2>2. PICK a : a = StoreUpdatePartnerIntegration(oaStore, c) OBVIOUS
    <2>3. PICK b : b = PgUpdatePartnerIntegration(oaPg, c) OBVIOUS
    <2>4. OACall(a, b) /\ oaReq' = [oaReq EXCEPT ![t] = OAIdle] /\ oaReq[t].op = "write integration"
        BY <1>5, <2>1, <2>2, <2>3 DEF WriteIntegration, OAGoto, OADoing
    <2>5. OAHeld(oaStore, oaReq[t]) BY DEF OAuthInv
    <2>6. c.id \in DOMAIN oaStore.partnerIntegrations /\ "id" \in DOMAIN c BY <2>1, <2>4, <2>5 DEF OAHeld
    <2>7. OAAnswered(oaStore, oaPg, a, b)
        BY <1>1, <2>6, IntegrationCalls, <2>2, <2>3 DEF OAAnswered
    <2>8. OAHeld(a.db, OAIdle) BY NothingHeld, IdleBare
    <2> QED BY <2>4, <2>7, <2>8, Called
<1> QED BY <1>2, <1>4, <1>5

\* What a request with a connection does next refers to its organization.
LEMMA ProvisionedHeld ==
    ASSUME NEW s, NEW c, c.org \in DOMAIN s.organizations
    PROVE  OAHeld(s, Provisioned(c))
<1>1. PICK r : r = Provisioned(c) OBVIOUS
<1>2. CASE r = Issue(Integration, 0, c.id, c.org, {"read"})
    BY <1>1, <1>2, ToIssue
<1>3. CASE r = [op |-> "restore", connection |-> c]
    <2>1. r.op = "restore" /\ r.connection = c BY <1>3
    <2> QED BY <1>1, <2>1 DEF OAHeld, IssueHeld
<1> QED BY <1>1, <1>2, <1>3 DEF Provisioned

\* What a call for an external account finds or makes, with the next free number.
LEMMA ProvisionMade ==
    ASSUME OAuthInv, NEW x
    PROVE  LET c == NewConnection(x)
               o == [id |-> c.org, usage |-> "default"]
               rows == PgExternalConnection(oaPg, Integration, x)
               a == StoreProvisionPartnerConnection(oaStore, o, c)
               b == PgInsertPartnerConnection(oaPg, o, c)
           IN  /\ SameOAuth(a.db, b.db) /\ OAGrows(oaStore, a.db)
               /\ a.out.org \in DOMAIN a.db.organizations
               /\ b.out = a.out \/ b.out = UniqueViolation(a.out)
               /\ rows # {} => OAAnswered(oaStore, oaPg, a, Refused(oaPg, One(rows)))
<1>1. PICK k : k = Cardinality(DOMAIN oaStore.organizations) OBVIOUS
<1>2. PICK c : c = NewConnection(x) OBVIOUS
<1>3. PICK o : o = [id |-> c.org, usage |-> "default"] OBVIOUS
<1>4. /\ SameOAuth(oaStore, oaPg)
      /\ k \in Nat /\ k >= 1 /\ DOMAIN oaStore.organizations = 1..k
    BY <1>1, OAKnown DEF OAuthInv
<1>5. /\ c.id = k + 1 /\ c.org = k + 1 /\ o.id = k + 1
      /\ c.integration = Integration /\ c.external = x /\ DOMAIN c = ConnectionFields
    BY <1>1, <1>2, <1>3 DEF NewConnection, ConnectionFields
<1>6. PICK rows : rows = PgExternalConnection(oaPg, Integration, x) OBVIOUS
<1>7. PICK a : a = StoreProvisionPartnerConnection(oaStore, o, c) OBVIOUS
<1>8. PICK b : b = PgInsertPartnerConnection(oaPg, o, c) OBVIOUS
<1>9. /\ SameOAuth(a.db, b.db) /\ OAGrows(oaStore, a.db) /\ a.out.org \in DOMAIN a.db.organizations
      /\ rows # {} => OAAnswered(oaStore, oaPg, a, Refused(oaPg, One(rows))) /\ b.out = UniqueViolation(a.out)
      /\ rows = {} => b.out = a.out
  <2>1. rows = PgExternalConnection(oaPg, c.integration, c.external) BY <1>5, <1>6
  <2>2. NextFree(oaStore, oaPg, k, o, c) BY Zenon, <1>4, <1>5 DEF NextFree
  <2>3. ProvisionAgreed(oaStore, oaPg, PgExternalConnection(oaPg, c.integration, c.external),
                        StoreProvisionPartnerConnection(oaStore, o, c), PgInsertPartnerConnection(oaPg, o, c))
    BY Zenon, <2>2, ProvisionCall
  <2>4. ProvisionAgreed(oaStore, oaPg, rows, a, b) BY Zenon, <1>7, <1>8, <2>1, <2>3
  <2> QED BY Zenon, <2>4 DEF ProvisionAgreed
<1> QED BY <1>2, <1>3, <1>6, <1>7, <1>8, <1>9

\* Connections.
LEMMA ConnectionActions ==
    ASSUME OAuthInv, NEW t \in OAuthThreads
    PROVE  /\ \A secret, x : Provision(t, secret, x) => OAuthInv'
           /\ ProvisionConnection(t) \/ InsertConnection(t) => OAuthInv'
           /\ Restore(t) \/ Revoke(t) \/ RevokeTokens(t) => OAuthInv'
           /\ \A secret, id : RevokeConnection(t, secret, id) => OAuthInv'
<1>1. SameOAuth(oaStore, oaPg) /\ OAHeld(oaStore, oaReq[t]) BY DEF OAuthInv
<1>2. ASSUME NEW secret, NEW x, Provision(t, secret, x) PROVE OAuthInv'
    <2>1. PICK r : r = [op |-> "provision", external |-> x] OBVIOUS
    <2>2. oaReq' = [oaReq EXCEPT ![t] = r] /\ UNCHANGED <<oaStore, oaPg, oaAgreed, oaNow>>
        BY <1>2, <2>1 DEF Provision, OARead, OAGoto
    <2>3. Bare(r) BY <2>1 DEF Bare
    <2> QED BY <2>2, <2>3, NothingHeld, ReadOn
<1>3. ASSUME ProvisionConnection(t) PROVE OAuthInv'
    <2>1. PICK x : x = oaReq[t].external OBVIOUS
    <2>2. PICK c : c = NewConnection(x) OBVIOUS
    <2>3. PICK a : a = StoreProvisionPartnerConnection(oaStore, [id |-> c.org, usage |-> "default"], c) OBVIOUS
    <2>4. PICK rows : rows = PgExternalConnection(oaPg, Integration, x) OBVIOUS
    <2>5. CASE rows = {}
        <3>1. PICK r : r = [op |-> "insert connection", external |-> x] OBVIOUS
        <3>2. oaReq' = [oaReq EXCEPT ![t] = r] /\ UNCHANGED <<oaStore, oaPg, oaAgreed, oaNow>>
            BY <1>3, <2>1, <2>4, <2>5, <3>1 DEF ProvisionConnection, OARead, OAGoto
        <3>3. Bare(r) BY <3>1 DEF Bare
        <3> QED BY <3>2, <3>3, NothingHeld, ReadOn
    <2>6. CASE rows # {}
        <3>1. PICK r : r = Provisioned(a.out) OBVIOUS
        <3>2. PICK b : b = Refused(oaPg, One(rows)) OBVIOUS
        <3>3. OACall(a, b) /\ oaReq' = [oaReq EXCEPT ![t] = r]
            BY <1>3, <2>1, <2>2, <2>3, <2>4, <2>6, <3>1, <3>2 DEF ProvisionConnection, OAGoto
        <3>4. OAAnswered(oaStore, oaPg, a, b) /\ OAHeld(a.db, r)
            BY <2>2, <2>3, <2>4, <2>6, <3>1, <3>2, ProvisionMade, ProvisionedHeld
        <3> QED BY <3>3, <3>4, Called
    <2> QED BY <2>5, <2>6
<1>8. ASSUME InsertConnection(t) PROVE OAuthInv'
    <2>1. PICK x : x = oaReq[t].external OBVIOUS
    <2>2. PICK c : c = NewConnection(x) OBVIOUS
    <2>3. PICK o : o = [id |-> c.org, usage |-> "default"] OBVIOUS
    <2>4. PICK a : a = StoreProvisionPartnerConnection(oaStore, o, c) OBVIOUS
    <2>5. PICK b : b = PgInsertPartnerConnection(oaPg, o, c) OBVIOUS
    <2>6. /\ oaStore' = a.db /\ oaPg' = b.db
          /\ oaAgreed' = (oaAgreed /\ (a.out = b.out \/ b.out = UniqueViolation(a.out)))
          /\ \E r \in {Provisioned(a.out), OAIdle} : oaReq' = [oaReq EXCEPT ![t] = r]
        BY <1>8, <2>1, <2>2, <2>3, <2>4, <2>5 DEF InsertConnection, OAGoto
    <2>7. PICK r : r \in {Provisioned(a.out), OAIdle} /\ oaReq' = [oaReq EXCEPT ![t] = r] BY <2>6
    <2>8. /\ SameOAuth(a.db, b.db) /\ OAGrows(oaStore, a.db) /\ a.out.org \in DOMAIN a.db.organizations
          /\ b.out = a.out \/ b.out = UniqueViolation(a.out)
        BY <2>2, <2>3, <2>4, <2>5, ProvisionMade
    <2>9. OAHeld(a.db, r) BY <2>7, <2>8, ProvisionedHeld, NothingHeld, IdleBare
    <2>10. oaAgreed' = TRUE BY <2>6, <2>8 DEF OAuthInv
    <2> QED BY <2>6, <2>7, <2>8, <2>9, <2>10, StillHeld DEF OAuthInv
<1>4. ASSUME Restore(t) PROVE OAuthInv'
    <2>1. PICK c : c = oaReq[t].connection OBVIOUS
    <2>2. PICK id : id = c.id OBVIOUS
    <2>3. PICK r : r = Issue(Integration, 0, id, c.org, {"read"}) OBVIOUS
    <2>4. PICK a : a = StoreRestorePartnerConnection(oaStore, id) OBVIOUS
    <2>5. PICK b : b = PgRestorePartnerConnection(oaPg, id) OBVIOUS
    <2>6. OACall(a, b) /\ oaReq' = [oaReq EXCEPT ![t] = r] /\ oaReq[t].op = "restore"
        BY <1>4, <2>1, <2>2, <2>3, <2>4, <2>5 DEF Restore, OAGoto, OADoing
    <2>7. c.org \in DOMAIN oaStore.organizations BY <1>1, <2>1, <2>6 DEF OAHeld
    <2>8. OAAnswered(oaStore, oaPg, a, b) BY <1>1, <2>4, <2>5, StatusCalls
    <2>9. OAHeld(oaStore, r) BY <2>3, <2>7, ToIssue
    <2>10. OAHeld(a.db, r) BY <2>8, <2>9, StillHeld DEF OAAnswered
    <2> QED BY <2>6, <2>8, <2>10, Called
<1>5. ASSUME NEW secret, NEW id, RevokeConnection(t, secret, id) PROVE OAuthInv'
    BY <1>5, ReadOn DEF RevokeConnection, OARead, OAGoto, OAHeld, IssueHeld
<1>6. ASSUME Revoke(t) PROVE OAuthInv'
    <2>1. PICK id : id = oaReq[t].connection OBVIOUS
    <2>2. PICK a : a = StoreRevokePartnerConnection(oaStore, id) OBVIOUS
    <2>3. PICK b : b = PgRevokePartnerConnection(oaPg, id) OBVIOUS
    <2>4. PICK old : old = oaReq[t] OBVIOUS
    <2>5. PICK r : r = [old EXCEPT !.op = "revoke connection tokens"] OBVIOUS
    <2>6. OACall(a, b) /\ oaReq' = [oaReq EXCEPT ![t] = r] /\ old.op = "revoke connection"
        BY <1>6, <2>1, <2>2, <2>3, <2>4, <2>5 DEF Revoke, OAGoto, OADoing
    <2>7. OAAnswered(oaStore, oaPg, a, b) BY <1>1, <2>2, <2>3, StatusCalls
    <2>8. "op" \in DOMAIN old BY <1>1, <2>4, <2>6 DEF OAHeld
    <2>9. r.op = "revoke connection tokens" BY <2>5, <2>8
    <2>10. Bare(r) BY <2>9 DEF Bare
    <2>11. OAHeld(a.db, r) BY <2>10, NothingHeld
    <2> QED BY <2>6, <2>7, <2>11, Called
<1>7. ASSUME RevokeTokens(t) PROVE OAuthInv'
    BY <1>7, <1>1, RevokeCalls, NothingHeld, IdleBare, Called DEF RevokeTokens, OAGoto
<1> QED BY <1>2, <1>3, <1>4, <1>5, <1>6, <1>7, <1>8

\* Refreshing the token of a connection.
LEMMA PartnerTokenActions ==
    ASSUME OAuthInv, NEW t \in OAuthThreads
    PROVE  /\ \A secret, id : \A h \in DOMAIN oaStore.oauthRefresh :
                 RefreshPartnerConnection(t, secret, id, h) => OAuthInv'
           /\ RefreshPartner(t) => OAuthInv'
<1>1. SameOAuth(oaStore, oaPg) /\ OAHeld(oaStore, oaReq[t]) BY DEF OAuthInv
<1>2. ASSUME NEW secret, NEW id, NEW h \in DOMAIN oaStore.oauthRefresh, RefreshPartnerConnection(t, secret, id, h)
      PROVE  OAuthInv'
    <2>1. PICK k : k = StoreOAuthRefreshToken(oaStore, h) OBVIOUS
    <2>2. h \in DOMAIN oaStore.oauthTokens /\ k = oaStore.oauthTokens[h]
        BY <1>1, <2>1 DEF SameOAuth, GrantTable, StoreOAuthRefreshToken, At
    <2>3. PICK r : r = [op |-> "refresh partner", token |-> k] OBVIOUS
    <2>4. oaReq' = [oaReq EXCEPT ![t] = r] /\ UNCHANGED <<oaStore, oaPg, oaAgreed, oaNow>>
        BY <1>2, <2>1, <2>3 DEF RefreshPartnerConnection, OARead, OAGoto
    <2>5. TokenHeld(oaStore, k) BY <1>1, <2>2, TokenRead
    <2>6. OAHeld(oaStore, r) BY <2>3, <2>5 DEF OAHeld, IssueHeld
    <2> QED BY <2>4, <2>6, ReadOn
<1>3. ASSUME RefreshPartner(t) PROVE OAuthInv'
    <2>1. PICK k : k = oaReq[t].token OBVIOUS
    <2>2. PICK c : c = StorePartnerConnection(oaStore, k.connection) OBVIOUS
    <2>3. PICK next : next = Issue(Integration, 0, c.id, c.org, k.scopes) OBVIOUS
    <2>4. PICK go : go = ~(c = NotFound \/ c.status # "active" \/ c.org # k.org) OBVIOUS
    <2>5. PICK r : r = IF ~go THEN OAIdle ELSE [op |-> "revoke token", token |-> Voided(k), next |-> next]
        OBVIOUS
    <2>6. /\ oaReq[t].op = "refresh partner" /\ oaReq' = [oaReq EXCEPT ![t] = r]
          /\ UNCHANGED <<oaStore, oaPg, oaAgreed, oaNow>>
        BY <1>3, <2>1, <2>2, <2>3, <2>4, <2>5 DEF RefreshPartner, OARead, OAGoto, OADoing, Voided
    <2>7. TokenHeld(oaStore, k) BY <1>1, <2>1, <2>6 DEF OAHeld
    <2>8. CASE ~go BY <2>5, <2>8, <2>6, NothingHeld, IdleBare, ReadOn
    <2>9. CASE go
        <3>1. r.op = "revoke token" /\ r.token = Voided(k) /\ r.next = next BY <2>5, <2>9
        <3>2. c # NotFound BY <2>4, <2>9
        <3>3. k.connection \in DOMAIN oaStore.partnerConnections /\ c = oaStore.partnerConnections[k.connection]
            BY <2>2, <3>2 DEF StorePartnerConnection, At
        <3>4. c.org \in DOMAIN oaStore.organizations BY <1>1, <3>3 DEF SameOAuth, ConnectionTable
        <3>5. 0 \in DOMAIN oaStore.users \cup {0} OBVIOUS
        <3>6. Onward(next) /\ IssueHeld(oaStore, next) BY <2>3, <3>4, <3>5, ToIssue
        <3>7. TokenHeld(oaStore, Voided(k)) /\ Voided(k) = Voided(Voided(k))
            BY <2>7, <1>1, TokenRead DEF TokenHeld
        <3>8. OAHeld(oaStore, r) BY <3>1, <3>6, <3>7, ToRevoke
        <3> QED BY <2>6, <3>8, ReadOn
    <2> QED BY <2>8, <2>9
<1> QED BY <1>2, <1>3

OAuthStart == \E clients \in SUBSET Nat : IsFiniteSet(clients) /\ OAuthSeeded(clients)
OAuthNext == ClientsNext \/ GrantsNext \/ PartnerNext
OAuthSpec == OAuthStart /\ [][OAuthNext]_oauthVars

\* A table of one row.
LEMMA SeededKnown ==
    ASSUME NEW known, NEW v, known = Put(None, v.id, v) PROVE KnownTable(known, {v}) /\ DOMAIN known = {v.id}
BY NoRows DEF Put, Rows, KnownTable

\* The invariant holds when the OAuth server starts, whatever clients there are.
LEMMA OAuthAtFirst == ASSUME OAuthStart PROVE OAuthInv
<1>1. PICK clients \in SUBSET Nat : IsFiniteSet(clients) /\ OAuthSeeded(clients) BY DEF OAuthStart
<1>2. PICK user : user = [id |-> OAuthUser, email |-> "a"] OBVIOUS
<1>3. PICK org : org = [id |-> OAuthOrg, usage |-> "default"] OBVIOUS
<1>4. PICK users : users = Put(None, OAuthUser, user) OBVIOUS
<1>5. PICK orgs : orgs = Put(None, OAuthOrg, org) OBVIOUS
<1>6. PICK made : made = [c \in clients |-> NewClient(c)] OBVIOUS
<1>7. PICK rows : rows = {NewClient(c) : c \in clients} OBVIOUS
<1>8. /\ oaStore = [StoreOAuth EXCEPT !.users = Put(@, OAuthUser, user), !.organizations = Put(@, OAuthOrg, org),
                                      !.oauthClients = made]
      /\ oaPg = [PgOAuth EXCEPT !.users = {user}, !.organizations = {org}, !.oauth_clients = rows]
      /\ oaAgreed = TRUE /\ oaReq = [t \in OAuthThreads |-> OAIdle]
    BY <1>1, <1>2, <1>3, <1>6, <1>7 DEF OAuthSeeded
<1>9. /\ DOMAIN oaStore = OAFields /\ oaStore.users = users /\ oaStore.organizations = orgs
      /\ oaStore.oauthClients = made /\ oaStore.oauthCodes = None /\ oaStore.oauthTokens = None
      /\ oaStore.oauthRefresh = None /\ oaStore.partnerIntegrations = None
      /\ oaStore.partnerConnections = None /\ oaStore.partnerByExternal = None
    BY <1>4, <1>5, <1>8 DEF StoreOAuth, OAFields
<1>10. /\ DOMAIN oaPg = OAPgFields /\ oaPg.users = {user} /\ oaPg.organizations = {org}
       /\ oaPg.oauth_clients = rows /\ oaPg.oauth_authorization_codes = {} /\ oaPg.oauth_tokens = {}
       /\ oaPg.partner_integrations = {} /\ oaPg.partner_connections = {}
    BY <1>8 DEF PgOAuth, OAPgFields
<1>11. KnownTable(users, {user}) /\ DOMAIN users = {OAuthUser} BY <1>2, <1>4, SeededKnown
<1>12. KnownTable(orgs, {org}) /\ DOMAIN orgs = {OAuthOrg}
    <2>1. org.id = OAuthOrg BY <1>3
    <2> QED BY <1>5, <2>1, SeededKnown
<1>13. ClientTable(made, rows) BY <1>1, <1>6, <1>7 DEF NewClient, Rows, ClientTable
<1>14. DOMAIN None = 1..0 /\ Rows(None) = {} BY NoRows
<1>15. Numbered(None) BY <1>14 DEF Numbered
<1>16. CodeTable(None, {}, DOMAIN users, DOMAIN orgs) BY <1>14, <1>15, NoRows DEF CodeTable
<1>17. GrantTable(None, None, {}, DOMAIN users, DOMAIN orgs)
    BY <1>14, <1>15, NoRows DEF None, GrantTable
<1>18. IntegrationTable(None, {}) BY NoRows DEF IntegrationTable
<1>19. ConnectionTable(None, None, {}, DOMAIN orgs) BY <1>12, NoRows DEF OAuthOrg, ConnectionTable
<1>20. SameOAuth(oaStore, oaPg)
    <2>1. OAuthUser \in DOMAIN users BY <1>11
    <2> QED BY <1>9, <1>10, <1>11, <1>12, <1>13, <1>16, <1>17, <1>18, <1>19, <2>1 DEF SameOAuth
<1>21. \A t \in OAuthThreads : OAHeld(oaStore, oaReq[t]) BY <1>8, NothingHeld, IdleBare
<1> QED BY <1>8, <1>20, <1>21 DEF OAuthInv

\* The inductive invariant of the OAuth server: both repositories hold the same rows, every
\* connection has an organization and an index entry of its own, and every suspended request
\* holds rows that are still there.
THEOREM OAuthInvariant == OAuthSpec => []OAuthInv
<1>1. OAuthStart => OAuthInv BY OAuthAtFirst
<1>2. ASSUME OAuthInv, [OAuthNext]_oauthVars PROVE OAuthInv'
    <2>1. CASE ClientsNext
        BY <1>2, <2>1, ClientActions DEF ClientsNext
    <2>2. CASE GrantsNext
        BY <1>2, <2>2, ClientActions, CodeActions, TokenActions, OAAside DEF GrantsNext
    <2>3. CASE PartnerNext
        <3>1. ASSUME NEW t \in OAuthThreads, \/ UpdateToken(t) \/ IssueTokens(t)
              PROVE  OAuthInv'
            BY <1>2, <3>1, TokenActions
        <3>2. ASSUME NEW t \in OAuthThreads, NEW secret, NEW c, NEW h \in DOMAIN oaStore.oauthRefresh,
                     RefreshPartnerConnection(t, secret, c, h)
              PROVE  OAuthInv'
            BY <1>2, <3>2, PartnerTokenActions
        <3>3. CASE CreateIntegration \/ OATimePasses
            BY <1>2, <3>3, IntegrationActions, OAAside
        <3>4. ASSUME NEW t \in OAuthThreads,
                     \/ RotateIntegrationSecret(t) \/ DisableIntegration(t) \/ WriteIntegration(t)
                     \/ ProvisionConnection(t) \/ InsertConnection(t) \/ Restore(t) \/ Revoke(t)
                     \/ RevokeTokens(t) \/ RefreshPartner(t)
              PROVE  OAuthInv'
            <4>1. CASE RotateIntegrationSecret(t) \/ DisableIntegration(t) \/ WriteIntegration(t)
                BY <1>2, <4>1, IntegrationActions
            <4>2. CASE ProvisionConnection(t) \/ InsertConnection(t)
                BY <1>2, <4>2, ConnectionActions
            <4>3. CASE Restore(t) \/ Revoke(t) \/ RevokeTokens(t)
                BY <1>2, <4>3, ConnectionActions
            <4>4. CASE RefreshPartner(t) BY <1>2, <4>4, PartnerTokenActions
            <4> QED BY <3>4, <4>1, <4>2, <4>3, <4>4
        <3>5. ASSUME NEW t \in OAuthThreads, NEW secret, NEW x,
                     Provision(t, secret, x) \/ RevokeConnection(t, secret, x)
              PROVE  OAuthInv'
            BY <1>2, <3>5, ConnectionActions
        <3> QED BY <2>3, <3>1, <3>2, <3>3, <3>4, <3>5 DEF PartnerNext
    <2>4. CASE UNCHANGED oauthVars
        BY <1>2, <2>4 DEF oauthVars, OAuthInv
    <2> QED BY <1>2, <2>1, <2>2, <2>3, <2>4 DEF OAuthNext
<1> QED BY <1>1, <1>2, PTL DEF OAuthSpec

\* However requests to provision, revoke and refresh are interleaved, an external account
\* keeps one connection and one organization, and a token that opens anything through a
\* connection opens that organization.
LEMMA OneOrganizationHeld == ASSUME OAuthInv PROVE OneOrganizationPerAccount
<1>1. PICK f : f = oaStore.partnerConnections OBVIOUS
<1>2. PICK g : g = oaStore.partnerByExternal OBVIOUS
<1>3. SameOAuth(oaStore, oaPg) BY DEF OAuthInv
<1>4. ConnectionTable(f, g, oaPg.partner_connections, DOMAIN oaStore.organizations)
    BY <1>1, <1>2, <1>3 DEF SameOAuth
<1>5. \A c, d \in DOMAIN f : f[c].external = f[d].external => c = d BY <1>4 DEF ConnectionTable
<1>6. Cardinality(DOMAIN oaStore.organizations) = 1 + Cardinality(DOMAIN f)
    <2>1. PICK n \in Nat : n >= 1 /\ DOMAIN oaStore.organizations = 1..n /\ DOMAIN f = 2..n
        BY <1>4 DEF ConnectionTable
    <2>2. Cardinality(DOMAIN oaStore.organizations) = n BY <2>1, CountNumbered
    <2>3. 2 \in Int /\ n \in Int BY <2>1
    <2>4. Cardinality(2..n) = IF 2 > n THEN 0 ELSE n - 2 + 1 BY <2>3, FS_Interval, Zenon
    <2> QED BY <2>1, <2>2, <2>4
<1>7. ASSUME NEW h \in DOMAIN oaStore.oauthTokens, ValidateAccessToken(h), oaStore.oauthTokens[h].connection # 0
      PROVE  oaStore.oauthTokens[h].org = oaStore.partnerConnections[oaStore.oauthTokens[h].connection].org
    BY <1>7 DEF StoreOAuthAccessToken, At, ValidateAccessToken, StorePartnerConnection
<1> QED BY <1>1, <1>5, <1>6, <1>7 DEF OneOrganizationPerAccount, ConnectionIds

\* However provisioning, revoking and refreshing are interleaved, an external account has one
\* connection and one organization, and its tokens open no other.
THEOREM OneOrganization == OAuthSpec => []OneOrganizationPerAccount
BY OAuthInvariant, OneOrganizationHeld, PTL

\* Every query for clients, codes, tokens, integrations and connections answers the same from
\* the store and from PostgreSQL, and every write was accepted or refused by both.
LEMMA OAuthAgreement == ASSUME OAuthInv PROVE OAuthBackendsAgree
BY ClientLookups, GrantLookups, PartnerLookups DEF OAuthInv, SameOAuth, OAuthBackendsAgree

\* Every query of the OAuth server answers the same from the store and from PostgreSQL, and
\* every write was accepted or refused by both.
THEOREM OAuthAgree == OAuthSpec => []OAuthBackendsAgree
BY OAuthInvariant, OAuthAgreement, PTL

-----------------------------------------------------------------------------
(* The run explores the flows one at a time, from two starts of each.      *)

\* A flow of the run starts as accounts and the OAuth server may start.
LEMMA AccessStarts == AccessInit => AccountsStart /\ OAuthStart
<1> SUFFICES ASSUME AccessInit PROVE AccountsStart /\ OAuthStart OBVIOUS
<1>1. AccountsStart
    <2>1. AccountsInit BY DEF AccessInit
    <2>2. CASE part = "signin"
        <3>1. PICK people : people = <<>> OBVIOUS
        <3>2. DOMAIN people = 1..0 BY <3>1
        <3>3. Seeded(people, FALSE) BY <2>2, <3>1 DEF AccessInit
        <3>4. \A a, b \in 1..0 : people[a] = people[b] => a = b OBVIOUS
        <3>5. 0 \in Nat /\ FALSE \in BOOLEAN OBVIOUS
        <3> QED BY <2>1, <3>2, <3>3, <3>4, <3>5 DEF AccountsStart
    <2>3. CASE part # "signin"
        <3>1. PICK people : people = <<"a", "b">> OBVIOUS
        <3>2. PICK owner : owner = (part = "pats") OBVIOUS
        <3>3. DOMAIN people = 1..2 /\ people[1] # people[2] BY <3>1
        <3>4. Seeded(people, part = "pats") BY <2>3, <3>1 DEF AccessInit
        <3>5. Seeded(people, owner) BY <3>2, <3>4, Zenon
        <3>6. owner \in BOOLEAN BY <3>2, Zenon
        <3>7. \A a, b \in 1..2 : people[a] = people[b] => a = b BY <3>3
        <3>8. 2 \in Nat /\ 2 >= 2 OBVIOUS
        <3> QED BY <2>1, <3>3, <3>5, <3>6, <3>7, <3>8 DEF AccountsStart
    <2> QED BY <2>2, <2>3
<1>2. OAuthStart
    <2>1. PICK clients : clients = IF part = "grants" THEN {1} ELSE {} OBVIOUS
    <2>2. OAuthSeeded(clients) BY <2>1 DEF AccessInit
    <2>3. IsFiniteSet({}) BY FS_EmptySet
    <2>4. IsFiniteSet({1}) BY <2>3, FS_AddElement
    <2>5. clients \in SUBSET Nat /\ IsFiniteSet(clients) BY <2>1, <2>3, <2>4
    <2> QED BY <2>2, <2>5 DEF OAuthStart
<1> QED BY <1>1, <1>2

\* A step of a flow is a step of accounts or of the OAuth server, and the other stutters.
LEMMA AccessSteps == [AccessNext]_accessVars => [AccountsNext]_accountsVars /\ [OAuthNext]_oauthVars
BY DEF AccessNext, AccountsNext, OAuthNext, accessVars

\* So a behaviour of the run is one of accounts and one of the OAuth server.
LEMMA AccessRuns == AccessSpec => AccountsSpec /\ OAuthSpec
BY AccessStarts, AccessSteps, PTL DEF AccessSpec, AccountsSpec, OAuthSpec

\* The two repositories of accounts, sessions, organizations and OAuth data cannot be told
\* apart by the services, after any sequence of requests and of concurrent ones.
THEOREM AccessAgree == AccessSpec => []AccessBackendsAgree
<1>1. IdentityBackendsAgree /\ OAuthBackendsAgree => AccessBackendsAgree BY DEF AccessBackendsAgree
<1> QED BY <1>1, AccessRuns, IdentitiesAgree, OAuthAgree, PTL
=============================================================================
