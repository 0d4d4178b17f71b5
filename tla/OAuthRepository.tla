-------------------------- MODULE OAuthRepository --------------------------
(***************************************************************************)
(* The repository's calls for OAuth clients, codes and tokens and for      *)
(* partner integrations and connections, in the store and in PostgreSQL.   *)
(* A token has a serial number for its creation time, 0 for no user.       *)
(***************************************************************************)
EXTENDS IdentityRepository

StoreOAuth ==
    [oauthClients |-> None, oauthCodes |-> None, oauthTokens |-> None, oauthRefresh |-> None,
     partnerIntegrations |-> None, partnerConnections |-> None, partnerByExternal |-> None,
     organizations |-> None, users |-> None]

PgOAuth ==
    [oauth_clients |-> {}, oauth_authorization_codes |-> {}, oauth_tokens |-> {},
     partner_integrations |-> {}, partner_connections |-> {}, organizations |-> {}, users |-> {}]

(* UPDATE ... WHERE: every selected row through a change, none is refused. *)
UpdateRows(db, table, rows, Change(_), why) ==
    IF rows = {} THEN Refused(db, why)
    ELSE Done([db EXCEPT ![table] = Replace(@, rows, {Change(r) : r \in rows})])

---------------------------------------------------------------------------
(* Clients.                                                                *)

StoreCreateOAuthClient(db, c) ==
    IF c.id \in DOMAIN db.oauthClients THEN Refused(db, "client exists")
    ELSE Done([db EXCEPT !.oauthClients = Put(@, c.id, c)])
PgCreateOAuthClient(db, c) ==
    IF \E r \in db.oauth_clients : r.id = c.id THEN Refused(db, "client exists")
    ELSE Done([db EXCEPT !.oauth_clients = @ \cup {c}])

StoreOAuthClient(db, id) == At(db.oauthClients, id)
PgOAuthClient(db, id) == One({r \in db.oauth_clients : r.id = id})

StoreCountOAuthClientsByOwnerOrg(db, org) ==
    Cardinality({id \in DOMAIN db.oauthClients : db.oauthClients[id].owner = org})
PgCountOAuthClientsByOwnerOrg(db, org) == Cardinality({r \in db.oauth_clients : r.owner = org})

StoreOAuthClientsByOwnerOrg(db, org) ==
    {db.oauthClients[id] : id \in {i \in DOMAIN db.oauthClients : db.oauthClients[i].owner = org}}
PgOAuthClientsByOwnerOrg(db, org) == {r \in db.oauth_clients : r.owner = org}

StoreUpdateOAuthClient(db, c) ==
    IF c.id \notin DOMAIN db.oauthClients THEN Refused(db, "client not found")
    ELSE Done([db EXCEPT !.oauthClients = Put(@, c.id, c)])
PgUpdateOAuthClient(db, c) ==
    LET Change(r) == c
    IN  UpdateRows(db, "oauth_clients", {r \in db.oauth_clients : r.id = c.id}, Change,
                   "client not found")

---------------------------------------------------------------------------
(* Authorization codes and tokens.                                         *)

StoreCreateOAuthAuthorizationCode(db, a) == Done([db EXCEPT !.oauthCodes = Put(@, a.hash, a)])
PgCreateOAuthAuthorizationCode(db, a) ==
    IF ~(\E r \in db.oauth_clients : r.id = a.client) THEN Refused(db, "foreign key")
    ELSE Done([db EXCEPT !.oauth_authorization_codes = @ \cup {a}])

StoreOAuthAuthorizationCode(db, hash) == At(db.oauthCodes, hash)
PgOAuthAuthorizationCode(db, hash) == One({r \in db.oauth_authorization_codes : r.hash = hash})

StoreUpdateOAuthAuthorizationCode(db, a) ==
    IF a.hash \notin DOMAIN db.oauthCodes THEN Refused(db, "invalid grant")
    ELSE Done([db EXCEPT !.oauthCodes = Put(@, a.hash, a)])
PgUpdateOAuthAuthorizationCode(db, a) ==
    LET Change(r) == [r EXCEPT !.used = a.used]
    IN  UpdateRows(db, "oauth_authorization_codes",
                   {r \in db.oauth_authorization_codes : r.hash = a.hash}, Change, "invalid grant")

(* A partner token has no user; the table allows that, not an unknown user. *)
StoreCreateOAuthToken(db, k) ==
    Done([db EXCEPT !.oauthTokens = Put(@, k.hash, k), !.oauthRefresh = Put(@, k.refresh, k.hash)])
PgCreateOAuthToken(db, k) ==
    IF \/ k.user # 0 /\ ~\E r \in db.users : r.id = k.user
       \/ ~\E r \in db.organizations : r.id = k.org
       \/ \E r \in db.oauth_tokens : r.hash = k.hash \/ r.refresh = k.refresh
    THEN Refused(db, "constraint")
    ELSE Done([db EXCEPT !.oauth_tokens = @ \cup {k}])

StoreOAuthAccessToken(db, hash) == At(db.oauthTokens, hash)
PgOAuthAccessToken(db, hash) == One({r \in db.oauth_tokens : r.hash = hash})

StoreOAuthRefreshToken(db, hash) ==
    IF hash \in DOMAIN db.oauthRefresh THEN At(db.oauthTokens, db.oauthRefresh[hash]) ELSE NotFound
PgOAuthRefreshToken(db, hash) == One({r \in db.oauth_tokens : r.refresh = hash})

StoreUpdateOAuthToken(db, k) ==
    IF k.hash \notin DOMAIN db.oauthTokens THEN Refused(db, "token not found")
    ELSE Done([db EXCEPT !.oauthTokens = Put(@, k.hash, k),
                         !.oauthRefresh = Put(@, k.refresh, k.hash)])
PgUpdateOAuthToken(db, k) ==
    LET Change(r) == [r EXCEPT !.revoked = k.revoked]
    IN  UpdateRows(db, "oauth_tokens", {r \in db.oauth_tokens : r.hash = k.hash}, Change,
                   "token not found")

(* Revoking all the live tokens that match, in the store and in a table.   *)
StoreRevokeWhere(db, Match(_)) ==
    Done([db EXCEPT !.oauthTokens =
              [h \in DOMAIN @ |-> IF Match(@[h]) /\ ~@[h].revoked
                                  THEN [@[h] EXCEPT !.revoked = TRUE] ELSE @[h]]])
PgRevokeWhere(db, Match(_)) ==
    LET rows == {r \in db.oauth_tokens : Match(r) /\ ~r.revoked}
    IN  Done([db EXCEPT !.oauth_tokens =
                  Replace(@, rows, {[r EXCEPT !.revoked = TRUE] : r \in rows})])

StoreRevokeOAuthClientTokens(db, user, org, client) ==
    LET Match(k) == k.user = user /\ k.org = org /\ k.client = client IN StoreRevokeWhere(db, Match)
PgRevokeOAuthClientTokens(db, user, org, client) ==
    LET Match(k) == k.user = user /\ k.org = org /\ k.client = client IN PgRevokeWhere(db, Match)

StoreRevokeAllOAuthClientTokens(db, client) ==
    LET Match(k) == k.client = client IN StoreRevokeWhere(db, Match)
PgRevokeAllOAuthClientTokens(db, client) ==
    LET Match(k) == k.client = client IN PgRevokeWhere(db, Match)

StoreRevokePartnerConnectionTokens(db, conn) ==
    LET Match(k) == k.connection = conn IN StoreRevokeWhere(db, Match)
PgRevokePartnerConnectionTokens(db, conn) ==
    LET Match(k) == k.connection = conn IN PgRevokeWhere(db, Match)

(* The clients a user has connected: each with the scopes of its oldest    *)
(* live token.  The store folds over its map, PostgreSQL takes the first   *)
(* row of each group in order of creation.                                 *)
Oldest(tokens) == CHOOSE k \in tokens : \A other \in tokens : k.created <= other.created

PgFirstOfGroup(tokens) == CHOOSE k \in tokens : \A other \in tokens : k.created <= other.created

StoreOAuthConnections(db, user, org) ==
    LET live == {db.oauthTokens[h] : h \in {x \in DOMAIN db.oauthTokens :
                    LET k == db.oauthTokens[x]
                    IN  k.user = user /\ k.org = org /\ ~k.revoked /\ k.client \in DOMAIN db.oauthClients}}
    IN  {LET k == Oldest({x \in live : x.client = c}) IN [client |-> c, scopes |-> k.scopes] :
            c \in {k.client : k \in live}}
PgOAuthConnections(db, user, org) ==
    LET joined == {k \in db.oauth_tokens : /\ \E c \in db.oauth_clients : c.id = k.client
                                           /\ k.user = user /\ k.org = org /\ ~k.revoked}
    IN  {LET k == PgFirstOfGroup({x \in joined : x.client = c}) IN [client |-> c, scopes |-> k.scopes] :
            c \in {k.client : k \in joined}}

StoreOAuthClientConnections(db, client) ==
    LET live == {db.oauthTokens[h] : h \in {x \in DOMAIN db.oauthTokens :
                    LET k == db.oauthTokens[x]
                    IN  /\ k.client = client /\ ~k.revoked
                        /\ k.user \in DOMAIN db.users /\ k.org \in DOMAIN db.organizations}}
    IN  {LET k == Oldest({x \in live : <<x.user, x.org>> = g}) IN <<g, k.scopes>> :
            g \in {<<k.user, k.org>> : k \in live}}
PgOAuthClientConnections(db, client) ==
    LET joined == {k \in db.oauth_tokens : /\ \E u \in db.users : u.id = k.user
                                           /\ \E o \in db.organizations : o.id = k.org
                                           /\ k.client = client /\ ~k.revoked}
    IN  {LET k == PgFirstOfGroup({x \in joined : <<x.user, x.org>> = g}) IN <<g, k.scopes>> :
            g \in {<<k.user, k.org>> : k \in joined}}

---------------------------------------------------------------------------
(* Partner integrations and the connections provisioned through them.      *)

StoreCreatePartnerIntegration(db, n) ==
    IF n.id \in DOMAIN db.partnerIntegrations THEN Refused(db, "integration exists")
    ELSE Done([db EXCEPT !.partnerIntegrations = Put(@, n.id, n)])
PgCreatePartnerIntegration(db, n) ==
    IF \E r \in db.partner_integrations : r.id = n.id THEN Refused(db, "integration exists")
    ELSE Done([db EXCEPT !.partner_integrations = @ \cup {n}])

StorePartnerIntegration(db, id) == At(db.partnerIntegrations, id)
PgPartnerIntegration(db, id) == One({r \in db.partner_integrations : r.id = id})

StorePartnerIntegrationsByOwnerOrg(db, org) ==
    {db.partnerIntegrations[id] : id \in {i \in DOMAIN db.partnerIntegrations :
        db.partnerIntegrations[i].owner = org}}
PgPartnerIntegrationsByOwnerOrg(db, org) == {r \in db.partner_integrations : r.owner = org}

StoreUpdatePartnerIntegration(db, n) ==
    IF n.id \notin DOMAIN db.partnerIntegrations THEN Refused(db, "integration not found")
    ELSE Done([db EXCEPT !.partnerIntegrations = Put(@, n.id, n)])
PgUpdatePartnerIntegration(db, n) ==
    LET Change(r) == n
    IN  UpdateRows(db, "partner_integrations", {r \in db.partner_integrations : r.id = n.id}, Change,
                   "integration not found")

\* Mutant: the index by external account is not consulted.
StoreProvisionAlways(db, o, c) ==
    [db |-> [db EXCEPT !.organizations = Put(@, o.id, o), !.partnerConnections = Put(@, c.id, c),
                       !.partnerByExternal = Put(@, <<c.integration, c.external>>, c.id)], out |-> c]

(* The connection of an external account, created with its organization    *)
(* unless there is one: the answer is the connection.                      *)
StoreProvisionPartnerConnection(db, o, c) ==
    LET key == <<c.integration, c.external>>
    IN  IF key \in DOMAIN db.partnerByExternal
        THEN Refused(db, db.partnerConnections[db.partnerByExternal[key]])
        ELSE [db |-> [db EXCEPT !.organizations = Put(@, o.id, o),
                                !.partnerConnections = Put(@, c.id, c),
                                !.partnerByExternal = Put(@, key, c.id)], out |-> c]

(* In PostgreSQL a plain SELECT looks for the connection; the INSERTs that *)
(* follow when there is none meet the unique index if another request has  *)
(* provisioned the account since, and nothing is written.                  *)
PgExternalConnection(db, integration, external) ==
    {r \in db.partner_connections : r.integration = integration /\ r.external = external}
UniqueViolation(r) == [violates |-> r]
PgInsertPartnerConnection(db, o, c) ==
    LET existing == PgExternalConnection(db, c.integration, c.external)
    IN  IF existing # {} THEN Refused(db, UniqueViolation(One(existing)))
        ELSE [db |-> [db EXCEPT !.organizations = @ \cup {o},
                                !.partner_connections = @ \cup {c}], out |-> c]

StorePartnerConnection(db, id) == At(db.partnerConnections, id)
PgPartnerConnection(db, id) == One({r \in db.partner_connections : r.id = id})

StorePartnerConnectionsByIntegration(db, n) ==
    {db.partnerConnections[id] : id \in {i \in DOMAIN db.partnerConnections :
        db.partnerConnections[i].integration = n}}
PgPartnerConnectionsByIntegration(db, n) == {r \in db.partner_connections : r.integration = n}

StoreRevokePartnerConnection(db, id) ==
    IF id \notin DOMAIN db.partnerConnections THEN Refused(db, "connection not found")
    ELSE Done([db EXCEPT !.partnerConnections = Put(@, id, [@[id] EXCEPT !.status = "revoked"])])
PgRevokePartnerConnection(db, id) ==
    LET Change(r) == [r EXCEPT !.status = "revoked"]
    IN  UpdateRows(db, "partner_connections", {r \in db.partner_connections : r.id = id}, Change,
                   "connection not found")

StoreRestorePartnerConnection(db, id) ==
    IF id \notin DOMAIN db.partnerConnections THEN Refused(db, "connection not found")
    ELSE Done([db EXCEPT !.partnerConnections = Put(@, id, [@[id] EXCEPT !.status = "active"])])
PgRestorePartnerConnection(db, id) ==
    LET Change(r) == [r EXCEPT !.status = "active"]
    IN  UpdateRows(db, "partner_connections", {r \in db.partner_connections : r.id = id}, Change,
                   "connection not found")
=============================================================================
