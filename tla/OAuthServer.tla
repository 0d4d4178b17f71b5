---------------------------- MODULE OAuthServer ----------------------------
(***************************************************************************)
(* The OAuth server and the partner integrations of the control plane, on  *)
(* both implementations of the repository.  As in Accounts a request is    *)
(* suspended at every repository call.  One user, who may grant anything   *)
(* in the one organization of the model, owns every client.                *)
(***************************************************************************)
EXTENDS OAuthRepository

CONSTANTS OAuthThreads,  \* requests in progress at the same time
          ClientLimit,   \* oauth clients the usage level allows
          MaxClients, MaxGrants, MaxOAuthTokens   \* rows of each kind

ASSUME OAuthAssumption == {ClientLimit, MaxClients, MaxGrants, MaxOAuthTokens} \subseteq Nat

VARIABLES oaStore, oaPg, oaAgreed,  \* the repositories, and whether they gave the same answers
          oaReq,                    \* what each thread is doing
          oaNow                     \* 0, then 1 once every code and token issued before has expired

oauthVars == <<oaStore, oaPg, oaAgreed, oaReq, oaNow>>

OAuthUser == 1
OAuthOrg == 1
GrantScopes == {"read", "write"}
OAIdle == [op |-> "idle"]

OACall(s, p) ==
    /\ oaStore' = s.db /\ oaPg' = p.db
    /\ oaAgreed' = (oaAgreed /\ s.out = p.out)
    /\ UNCHANGED oaNow

OAGoto(t, r) == oaReq' = [oaReq EXCEPT ![t] = r]
OADoing(t, op) == oaReq[t].op = op
OARead(t, op, r) == OADoing(t, op) /\ OAGoto(t, r) /\ UNCHANGED <<oaStore, oaPg, oaAgreed, oaNow>>

---------------------------------------------------------------------------
(* Clients, managed by members with orgs:write.                            *)

EnforceClientLimit(t) ==
    /\ StoreCountOAuthClientsByOwnerOrg(oaStore, OAuthOrg) < ClientLimit
    /\ OARead(t, "idle", [op |-> "create client"])

NewClient(id) ==
    [id |-> id, owner |-> OAuthOrg, scopes |-> GrantScopes, secret |-> 0, disabled |-> FALSE]

CreateClient(t) ==
    /\ OADoing(t, "create client") /\ Cardinality(DOMAIN oaStore.oauthClients) < MaxClients
    /\ LET c == NewClient(Cardinality(DOMAIN oaStore.oauthClients) + 1)
       IN  OACall(StoreCreateOAuthClient(oaStore, c), PgCreateOAuthClient(oaPg, c))
    /\ OAGoto(t, OAIdle)

(* UpdateClient, RotateClientSecret, DisableClient and RestoreClient read  *)
(* the client and write the whole record back.                             *)
ManageClient(t, client, changed, then) ==
    /\ client # NotFound
    /\ OARead(t, "idle", [op |-> "write client", client |-> changed, then |-> then])

UpdateClient(t, id, scopes) ==
    LET c == StoreOAuthClient(oaStore, id)
    IN  ManageClient(t, c, [c EXCEPT !.scopes = scopes], "done")
RotateClientSecret(t, id) ==
    LET c == StoreOAuthClient(oaStore, id)
    IN  ManageClient(t, c, [c EXCEPT !.secret = 1 - @], "done")
DisableClient(t, id) ==
    LET c == StoreOAuthClient(oaStore, id)
    IN  ManageClient(t, c, [c EXCEPT !.disabled = TRUE], "revoke")
RestoreClient(t, id) ==
    LET c == StoreOAuthClient(oaStore, id)
    IN  ManageClient(t, c, [c EXCEPT !.disabled = FALSE], "done")

WriteClient(t) ==
    /\ OADoing(t, "write client")
    /\ LET c == oaReq[t].client
       IN  /\ OACall(StoreUpdateOAuthClient(oaStore, c), PgUpdateOAuthClient(oaPg, c))
           /\ OAGoto(t, IF oaReq[t].then = "revoke" THEN [op |-> "revoke client", client |-> c.id]
                        ELSE OAIdle)

DisableClientTokens(t) ==
    /\ OADoing(t, "revoke client")
    /\ LET id == oaReq[t].client
       IN  OACall(StoreRevokeAllOAuthClientTokens(oaStore, id), PgRevokeAllOAuthClientTokens(oaPg, id))
    /\ OAGoto(t, OAIdle)

---------------------------------------------------------------------------
(* The authorization code flow and refresh tokens.                         *)

ValidClientRequest(c, scopes) == c # NotFound /\ ~c.disabled /\ scopes \subseteq c.scopes
ValidateClientSecret(c, secret) == c # NotFound /\ ~c.disabled /\ c.secret = secret

Authorize(t, id, scopes) ==
    /\ ValidClientRequest(StoreOAuthClient(oaStore, id), scopes)
    /\ OARead(t, "idle", [op |-> "create code", client |-> id, scopes |-> scopes])

CreateCode(t) ==
    /\ OADoing(t, "create code") /\ Cardinality(DOMAIN oaStore.oauthCodes) < MaxGrants
    /\ LET a == [hash |-> Cardinality(DOMAIN oaStore.oauthCodes) + 1, client |-> oaReq[t].client,
                 user |-> OAuthUser, org |-> OAuthOrg, scopes |-> oaReq[t].scopes,
                 expires |-> oaNow + 1, used |-> FALSE]
       IN  OACall(StoreCreateOAuthAuthorizationCode(oaStore, a), PgCreateOAuthAuthorizationCode(oaPg, a))
    /\ OAGoto(t, OAIdle)

(* POST /v1/oauth/token with either grant: the client is checked first.    *)
OAuthToken(t, id, secret, op, hash) ==
    /\ ValidateClientSecret(StoreOAuthClient(oaStore, id), secret)
    /\ OARead(t, "idle", [op |-> op, client |-> id, hash |-> hash])

Issue(client, user, connection, org, scopes) ==
    [op |-> "issue", client |-> client, user |-> user, connection |-> connection, org |-> org,
     scopes |-> scopes]

ExchangeAuthorizationCode(t) ==
    /\ OADoing(t, "exchange")
    /\ LET a == StoreOAuthAuthorizationCode(oaStore, oaReq[t].hash)
       IN  OARead(t, "exchange",
                  IF a.client # oaReq[t].client \/ a.used \/ a.expires <= oaNow THEN OAIdle
                  ELSE [op |-> "use code", code |-> [a EXCEPT !.used = TRUE]])

UseCode(t) ==
    /\ OADoing(t, "use code")
    /\ LET a == oaReq[t].code
       IN  /\ OACall(StoreUpdateOAuthAuthorizationCode(oaStore, a),
                     PgUpdateOAuthAuthorizationCode(oaPg, a))
           /\ OAGoto(t, Issue(a.client, a.user, 0, a.org, a.scopes))

OAuthRefresh(t) ==
    /\ OADoing(t, "refresh")
    /\ LET k == StoreOAuthRefreshToken(oaStore, oaReq[t].hash)
       IN  OARead(t, "refresh",
                  IF k.client # oaReq[t].client \/ k.revoked \/ k.expires <= oaNow THEN OAIdle
                  ELSE [op |-> "revoke token", token |-> [k EXCEPT !.revoked = TRUE],
                        next |-> Issue(k.client, k.user, 0, k.org, k.scopes)])

(* POST /v1/oauth/revoke, by access or refresh token.                      *)
OAuthRevoke(t, hash) ==
    /\ StoreOAuthAccessToken(oaStore, hash) # NotFound
    /\ OARead(t, "idle", [op |-> "revoke token", next |-> OAIdle,
                          token |-> [StoreOAuthAccessToken(oaStore, hash) EXCEPT !.revoked = TRUE]])

UpdateToken(t) ==
    /\ OADoing(t, "revoke token")
    /\ LET k == oaReq[t].token
       IN  OACall(StoreUpdateOAuthToken(oaStore, k), PgUpdateOAuthToken(oaPg, k))
    /\ OAGoto(t, oaReq[t].next)

OAuthDisconnect(id) ==
    /\ OACall(StoreRevokeOAuthClientTokens(oaStore, OAuthUser, OAuthOrg, id),
              PgRevokeOAuthClientTokens(oaPg, OAuthUser, OAuthOrg, id))
    /\ UNCHANGED oaReq

IssueTokens(t) ==
    /\ OADoing(t, "issue") /\ Cardinality(DOMAIN oaStore.oauthTokens) < MaxOAuthTokens
    /\ LET r == oaReq[t]
           n == Cardinality(DOMAIN oaStore.oauthTokens) + 1
           k == [hash |-> n, refresh |-> n, client |-> r.client, user |-> r.user,
                 connection |-> r.connection, org |-> r.org, scopes |-> r.scopes,
                 expires |-> oaNow + 1, created |-> n, revoked |-> FALSE]
       IN  OACall(StoreCreateOAuthToken(oaStore, k), PgCreateOAuthToken(oaPg, k))
    /\ OAGoto(t, OAIdle)

OATimePasses ==
    /\ oaNow = 0 /\ oaNow' = 1
    /\ UNCHANGED <<oaStore, oaPg, oaAgreed, oaReq>>

ClientIds == DOMAIN oaStore.oauthClients

ClientsNext ==
    \E t \in OAuthThreads :
        \/ EnforceClientLimit(t) \/ CreateClient(t) \/ WriteClient(t) \/ DisableClientTokens(t)
        \/ \E id \in ClientIds :
            \/ RotateClientSecret(t, id) \/ DisableClient(t, id) \/ RestoreClient(t, id)
            \/ UpdateClient(t, id, {"read"})

GrantsNext ==
    \/ \E t \in OAuthThreads :
        \/ CreateCode(t) \/ ExchangeAuthorizationCode(t) \/ UseCode(t) \/ OAuthRefresh(t)
        \/ UpdateToken(t) \/ IssueTokens(t) \/ WriteClient(t) \/ DisableClientTokens(t)
        \/ \E id \in ClientIds :
            \/ DisableClient(t, id) \/ Authorize(t, id, {"read"}) \/ Authorize(t, id, GrantScopes)
            \/ \E h \in DOMAIN oaStore.oauthCodes : OAuthToken(t, id, 0, "exchange", h)
            \/ \E h \in DOMAIN oaStore.oauthRefresh : OAuthToken(t, id, 0, "refresh", h)
        \/ \E h \in DOMAIN oaStore.oauthTokens : OAuthRevoke(t, h)
    \/ \E id \in ClientIds : OAuthDisconnect(id)
    \/ OATimePasses

---------------------------------------------------------------------------
(* Partner integrations: an external system provisions organizations for   *)
(* its accounts and acts in them with tokens of the connection.            *)

Integration == 1
ExternalAccounts == {"x", "y"}

CreateIntegration ==
    /\ oaStore.partnerIntegrations = None /\ UNCHANGED oaReq
    /\ LET n == [id |-> Integration, owner |-> OAuthOrg, secret |-> 0, disabled |-> FALSE]
       IN  OACall(StoreCreatePartnerIntegration(oaStore, n), PgCreatePartnerIntegration(oaPg, n))

ManageIntegration(t, integration, changed) ==
    /\ integration # NotFound
    /\ OARead(t, "idle", [op |-> "write integration", integration |-> changed])

RotateIntegrationSecret(t) ==
    LET n == StorePartnerIntegration(oaStore, Integration)
    IN  ManageIntegration(t, n, [n EXCEPT !.secret = 1 - @])
DisableIntegration(t) ==
    LET n == StorePartnerIntegration(oaStore, Integration)
    IN  ManageIntegration(t, n, [n EXCEPT !.disabled = TRUE])

WriteIntegration(t) ==
    /\ OADoing(t, "write integration")
    /\ LET n == oaReq[t].integration
       IN  OACall(StoreUpdatePartnerIntegration(oaStore, n), PgUpdatePartnerIntegration(oaPg, n))
    /\ OAGoto(t, OAIdle)

AuthenticateIntegration(secret) ==
    LET n == StorePartnerIntegration(oaStore, Integration)
    IN  n # NotFound /\ ~n.disabled /\ n.secret = secret

Provision(t, secret, external) ==
    /\ AuthenticateIntegration(secret)
    /\ OARead(t, "idle", [op |-> "provision", external |-> external])

(* What a connection lets its request do next.                             *)
Provisioned(c) ==
    IF c.status = "active" THEN Issue(Integration, 0, c.id, c.org, {"read"})
    ELSE [op |-> "restore", connection |-> c]

NewConnection(external) ==
    LET n == Cardinality(DOMAIN oaStore.organizations) + 1
    IN  [id |-> n, integration |-> Integration, external |-> external, org |-> n,
         status |-> "active"]

(* The SELECT: a connection that exists is the answer.                     *)
ProvisionConnection(t) ==
    /\ OADoing(t, "provision")
    /\ LET x == oaReq[t].external
           c == NewConnection(x)
           s == StoreProvisionPartnerConnection(oaStore, [id |-> c.org, usage |-> "default"], c)
           existing == PgExternalConnection(oaPg, Integration, x)
       IN  IF existing = {}
           THEN OARead(t, "provision", [op |-> "insert connection", external |-> x])
           ELSE OACall(s, Refused(oaPg, One(existing))) /\ OAGoto(t, Provisioned(s.out))

(* The INSERTs of a request that found none, and the whole call of the     *)
(* store.  A request overtaken in between fails in PostgreSQL with the     *)
(* unique violation; in the store it goes on with the other's connection.  *)
InsertConnection(t) ==
    /\ OADoing(t, "insert connection")
    /\ LET c == NewConnection(oaReq[t].external)
           o == [id |-> c.org, usage |-> "default"]
           s == StoreProvisionPartnerConnection(oaStore, o, c)
           p == PgInsertPartnerConnection(oaPg, o, c)
           overtaken == p.out = UniqueViolation(s.out)
       IN  /\ oaStore' = s.db /\ oaPg' = p.db /\ UNCHANGED oaNow
           /\ oaAgreed' = (oaAgreed /\ (s.out = p.out \/ overtaken))
           /\ \/ OAGoto(t, Provisioned(s.out))
              \/ overtaken /\ OAGoto(t, OAIdle)

Restore(t) ==
    /\ OADoing(t, "restore")
    /\ LET c == oaReq[t].connection
       IN  /\ OACall(StoreRestorePartnerConnection(oaStore, c.id), PgRestorePartnerConnection(oaPg, c.id))
           /\ OAGoto(t, Issue(Integration, 0, c.id, c.org, {"read"}))

RevokeConnection(t, secret, id) ==
    /\ StorePartnerConnection(oaStore, id) # NotFound
    /\ AuthenticateIntegration(secret)
    /\ OARead(t, "idle", [op |-> "revoke connection", connection |-> id])

Revoke(t) ==
    /\ OADoing(t, "revoke connection")
    /\ LET id == oaReq[t].connection
       IN  OACall(StoreRevokePartnerConnection(oaStore, id), PgRevokePartnerConnection(oaPg, id))
    /\ OAGoto(t, [oaReq[t] EXCEPT !.op = "revoke connection tokens"])

RevokeTokens(t) ==
    /\ OADoing(t, "revoke connection tokens")
    /\ LET id == oaReq[t].connection
       IN  OACall(StoreRevokePartnerConnectionTokens(oaStore, id),
                  PgRevokePartnerConnectionTokens(oaPg, id))
    /\ OAGoto(t, OAIdle)

RefreshPartnerConnection(t, secret, id, hash) ==
    /\ AuthenticateIntegration(secret)
    /\ LET k == StoreOAuthRefreshToken(oaStore, hash)
       IN  /\ k # NotFound /\ k.connection = id /\ ~k.revoked /\ k.expires > oaNow
           /\ OARead(t, "idle", [op |-> "refresh partner", token |-> k])

RefreshPartner(t) ==
    /\ OADoing(t, "refresh partner")
    /\ LET k == oaReq[t].token
           c == StorePartnerConnection(oaStore, k.connection)
       IN  OARead(t, "refresh partner",
                  IF c = NotFound \/ c.status # "active" \/ c.org # k.org THEN OAIdle
                  ELSE [op |-> "revoke token", token |-> [k EXCEPT !.revoked = TRUE],
                        next |-> Issue(Integration, 0, c.id, c.org, k.scopes)])

ConnectionIds == DOMAIN oaStore.partnerConnections

PartnerNext ==
    \/ CreateIntegration
    \/ \E t \in OAuthThreads :
        \/ RotateIntegrationSecret(t) \/ DisableIntegration(t) \/ WriteIntegration(t)
        \/ ProvisionConnection(t) \/ InsertConnection(t) \/ Restore(t) \/ Revoke(t)
        \/ RevokeTokens(t) \/ RefreshPartner(t) \/ UpdateToken(t) \/ IssueTokens(t)
        \/ \E secret \in {0, 1} :
            \/ \E x \in ExternalAccounts : Provision(t, secret, x)
            \/ \E c \in ConnectionIds :
                \/ RevokeConnection(t, secret, c)
                \/ \E h \in DOMAIN oaStore.oauthRefresh : RefreshPartnerConnection(t, secret, c, h)
    \/ OATimePasses

(* A flow starts with one user and organization and with some clients.     *)
OAuthSeeded(clients) ==
    /\ LET user == [id |-> OAuthUser, email |-> "a"]
           org == [id |-> OAuthOrg, usage |-> "default"]
       IN  /\ oaStore = [StoreOAuth EXCEPT !.users = Put(@, OAuthUser, user),
                                           !.organizations = Put(@, OAuthOrg, org),
                                           !.oauthClients = [c \in clients |-> NewClient(c)]]
           /\ oaPg = [PgOAuth EXCEPT !.users = {user}, !.organizations = {org},
                                     !.oauth_clients = {NewClient(c) : c \in clients}]
    /\ oaAgreed = TRUE /\ oaNow = 0
    /\ oaReq = [t \in OAuthThreads |-> OAIdle]

---------------------------------------------------------------------------
(* ValidateAccessToken: what a bearer token of the OAuth server opens.     *)
ValidateAccessToken(hash) ==
    LET k == StoreOAuthAccessToken(oaStore, hash)
        c == StorePartnerConnection(oaStore, k.connection)
    IN  /\ k # NotFound /\ ~k.revoked /\ k.expires > oaNow
        /\ k.connection # 0 => c # NotFound /\ c.status = "active" /\ c.org = k.org

(* Every lookup, count and listing of clients, codes, tokens, integrations *)
(* and connections finds the same in the store and in PostgreSQL, grouped  *)
(* listings included, and every write was accepted or refused by both; of  *)
(* two first provisions of one account that overlap, the later is refused  *)
(* by PostgreSQL over the connection the store answers.                    *)
OAuthBackendsAgree ==
    /\ oaAgreed
    /\ \A c \in 1..MaxClients :
          /\ StoreOAuthClient(oaStore, c) = PgOAuthClient(oaPg, c)
          /\ StoreOAuthClientConnections(oaStore, c) = PgOAuthClientConnections(oaPg, c)
    /\ StoreCountOAuthClientsByOwnerOrg(oaStore, OAuthOrg) = PgCountOAuthClientsByOwnerOrg(oaPg, OAuthOrg)
    /\ StoreOAuthClientsByOwnerOrg(oaStore, OAuthOrg) = PgOAuthClientsByOwnerOrg(oaPg, OAuthOrg)
    /\ \A a \in 1..MaxGrants : StoreOAuthAuthorizationCode(oaStore, a) = PgOAuthAuthorizationCode(oaPg, a)
    /\ \A k \in 1..MaxOAuthTokens :
          /\ StoreOAuthAccessToken(oaStore, k) = PgOAuthAccessToken(oaPg, k)
          /\ StoreOAuthRefreshToken(oaStore, k) = PgOAuthRefreshToken(oaPg, k)
    /\ StoreOAuthConnections(oaStore, OAuthUser, OAuthOrg) = PgOAuthConnections(oaPg, OAuthUser, OAuthOrg)
    /\ StorePartnerIntegration(oaStore, Integration) = PgPartnerIntegration(oaPg, Integration)
    /\ StorePartnerIntegrationsByOwnerOrg(oaStore, OAuthOrg) = PgPartnerIntegrationsByOwnerOrg(oaPg, OAuthOrg)
    /\ \A c \in ConnectionIds : StorePartnerConnection(oaStore, c) = PgPartnerConnection(oaPg, c)
    /\ StorePartnerConnectionsByIntegration(oaStore, Integration)
         = PgPartnerConnectionsByIntegration(oaPg, Integration)

(* However requests to provision, revoke and refresh are interleaved, an   *)
(* external account keeps one connection and one organization, and a token *)
(* that opens anything through a connection opens that organization.       *)
OneOrganizationPerAccount ==
    /\ \A c, d \in ConnectionIds :
          oaStore.partnerConnections[c].external = oaStore.partnerConnections[d].external => c = d
    /\ Cardinality(DOMAIN oaStore.organizations) = 1 + Cardinality(ConnectionIds)
    /\ \A h \in DOMAIN oaStore.oauthTokens :
          ValidateAccessToken(h) /\ oaStore.oauthTokens[h].connection # 0 =>
             oaStore.oauthTokens[h].org = oaStore.partnerConnections[oaStore.oauthTokens[h].connection].org
=============================================================================
