------------------------- MODULE IdentityRepository -------------------------
(***************************************************************************)
(* The two implementations of the repository's identity calls: Store keeps *)
(* Go maps with secondary indexes under one mutex, Postgres keeps rows     *)
(* under the constraints of its schema.  A call is an operator on the      *)
(* repository's contents; one that writes returns the new contents and the *)
(* answer.  Listings are sets (their order is presentation), timestamps    *)
(* are left out except expiry, which is a clock value.                     *)
(***************************************************************************)
EXTENDS Naturals, FiniteSets

NotFound == [none |-> TRUE]
Done(db) == [db |-> db, out |-> "ok"]
Refused(db, why) == [db |-> db, out |-> why]

Put(f, k, v) == [x \in DOMAIN f \cup {k} |-> IF x = k THEN v ELSE f[x]]
Drop(f, k) == [x \in DOMAIN f \ {k} |-> f[x]]
At(f, k) == IF k \in DOMAIN f THEN f[k] ELSE NotFound

(* The row a query by unique key finds, and the rows with one replaced.    *)
One(rows) == IF rows = {} THEN NotFound ELSE CHOOSE r \in rows : TRUE
Replace(rows, old, new) == (rows \ old) \cup new

None == [k \in {} |-> 0]

StoreIdentity ==
    [users |-> None, usersByEmail |-> None, oidcIdentities |-> None, controlRefresh |-> None,
     pats |-> None, patsByHash |-> None, organizations |-> None, memberships |-> None,
     invites |-> None]

PgIdentity ==
    [users |-> {}, user_oidc_identities |-> {}, control_refresh_tokens |-> {},
     personal_access_tokens |-> {}, organizations |-> {}, user_organizations |-> {},
     organization_invites |-> {}]

---------------------------------------------------------------------------
(* Users and their identities at an OpenID provider.                       *)

StoreCreateUser(db, u) ==
    IF u.id \in DOMAIN db.users \/ u.email \in DOMAIN db.usersByEmail
    THEN Refused(db, "user exists")
    ELSE Done([db EXCEPT !.users = Put(@, u.id, u), !.usersByEmail = Put(@, u.email, u.id)])

PgCreateUser(db, u) ==
    IF \E r \in db.users : r.id = u.id \/ r.email = u.email
    THEN Refused(db, "user exists")
    ELSE Done([db EXCEPT !.users = @ \cup {u}])

StoreUserByEmail(db, e) ==
    IF e \in DOMAIN db.usersByEmail THEN db.users[db.usersByEmail[e]] ELSE NotFound
PgUserByEmail(db, e) == One({r \in db.users : r.email = e})

StoreUserByID(db, id) == At(db.users, id)
PgUserByID(db, id) == One({r \in db.users : r.id = id})

StoreUserByOIDCIdentity(db, i) ==
    IF i \in DOMAIN db.oidcIdentities THEN At(db.users, db.oidcIdentities[i]) ELSE NotFound
PgUserByOIDCIdentity(db, i) ==
    One({r \in db.users : \E d \in db.user_oidc_identities : d.identity = i /\ d.user = r.id})

StoreCreateOIDCIdentity(db, i, user) ==
    IF user \notin DOMAIN db.users THEN Refused(db, "user not found")
    ELSE IF i \in DOMAIN db.oidcIdentities THEN Refused(db, "identity exists")
    ELSE Done([db EXCEPT !.oidcIdentities = Put(@, i, user)])

PgCreateOIDCIdentity(db, i, user) ==
    IF \E d \in db.user_oidc_identities : d.identity = i THEN Refused(db, "identity exists")
    ELSE IF ~\E r \in db.users : r.id = user THEN Refused(db, "user not found")
    ELSE Done([db EXCEPT !.user_oidc_identities =
                   @ \cup {[identity |-> i, user |-> user]}])

StoreUserCount(db) == Cardinality(DOMAIN db.users)
PgUserCount(db) == Cardinality(db.users)

---------------------------------------------------------------------------
(* Refresh tokens of control-plane sessions, looked up by hash.            *)

StoreCreateControlRefreshToken(db, k) ==
    Done([db EXCEPT !.controlRefresh = Put(@, k.hash, k)])
PgCreateControlRefreshToken(db, k) ==
    IF ~\E r \in db.users : r.id = k.user THEN Refused(db, "user not found")
    ELSE Done([db EXCEPT !.control_refresh_tokens = @ \cup {k}])

StoreControlRefreshToken(db, hash) == At(db.controlRefresh, hash)
PgControlRefreshToken(db, hash) == One({r \in db.control_refresh_tokens : r.hash = hash})

\* Mutant: revokes a revoked token again.
StoreRevokeAgain(db, k) ==
    IF k.hash \notin DOMAIN db.controlRefresh THEN Refused(db, "token not found")
    ELSE Done([db EXCEPT !.controlRefresh = Put(@, k.hash, k)])

(* Revoking is a compare-and-set in both: a token already revoked is not   *)
(* found.                                                                  *)
StoreUpdateControlRefreshToken(db, k) ==
    IF \/ k.hash \notin DOMAIN db.controlRefresh
       \/ k.revoked /\ db.controlRefresh[k.hash].revoked
    THEN Refused(db, "token not found")
    ELSE Done([db EXCEPT !.controlRefresh = Put(@, k.hash, k)])

PgUpdateControlRefreshToken(db, k) ==
    LET rows == {r \in db.control_refresh_tokens : r.hash = k.hash /\ ~r.revoked}
    IN  IF rows = {} THEN Refused(db, "token not found")
        ELSE Done([db EXCEPT !.control_refresh_tokens =
                       Replace(@, rows, {[r EXCEPT !.revoked = k.revoked] : r \in rows})])

---------------------------------------------------------------------------
(* Personal access tokens, found by id or by hash.                         *)

StoreCreatePersonalAccessToken(db, p) ==
    IF p.id \in DOMAIN db.pats \/ p.hash \in DOMAIN db.patsByHash THEN Refused(db, "token exists")
    ELSE Done([db EXCEPT !.pats = Put(@, p.id, p), !.patsByHash = Put(@, p.hash, p.id)])

PgCreatePersonalAccessToken(db, p) ==
    IF ~\E r \in db.users : r.id = p.user THEN Refused(db, "user not found")
    ELSE IF \E r \in db.personal_access_tokens : r.id = p.id \/ r.hash = p.hash
      THEN Refused(db, "token exists")
    ELSE Done([db EXCEPT !.personal_access_tokens = @ \cup {p}])

StorePersonalAccessTokenByHash(db, hash) ==
    IF hash \in DOMAIN db.patsByHash THEN At(db.pats, db.patsByHash[hash]) ELSE NotFound
PgPersonalAccessTokenByHash(db, hash) == One({r \in db.personal_access_tokens : r.hash = hash})

StorePersonalAccessTokensByUser(db, user) ==
    {db.pats[id] : id \in {i \in DOMAIN db.pats : db.pats[i].user = user}}
PgPersonalAccessTokensByUser(db, user) == {r \in db.personal_access_tokens : r.user = user}

StoreUpdatePersonalAccessToken(db, p) ==
    IF p.id \notin DOMAIN db.pats THEN Refused(db, "token not found")
    ELSE Done([db EXCEPT !.pats = Put(@, p.id, p),
                         !.patsByHash = Put(Drop(@, db.pats[p.id].hash), p.hash, p.id)])

PgUpdatePersonalAccessToken(db, p) ==
    LET rows == {r \in db.personal_access_tokens : r.id = p.id}
    IN  IF rows = {} THEN Refused(db, "token not found")
        ELSE Done([db EXCEPT !.personal_access_tokens = Replace(@, rows, {p})])

---------------------------------------------------------------------------
(* Organizations, their members and their invitations.                     *)

StoreCreateOrganization(db, o) ==
    IF o.id \in DOMAIN db.organizations THEN Refused(db, "organization exists")
    ELSE Done([db EXCEPT !.organizations = Put(@, o.id, o)])
PgCreateOrganization(db, o) ==
    IF \E r \in db.organizations : r.id = o.id THEN Refused(db, "organization exists")
    ELSE Done([db EXCEPT !.organizations = @ \cup {o}])

StoreGetOrganization(db, id) == At(db.organizations, id)
PgGetOrganization(db, id) == One({r \in db.organizations : r.id = id})

StoreListOrganizations(db) == {db.organizations[id] : id \in DOMAIN db.organizations}
PgListOrganizations(db) == db.organizations

StoreUpsertOrganizationMembership(db, m) ==
    IF m.user \notin DOMAIN db.users THEN Refused(db, "user not found")
    ELSE IF m.org \notin DOMAIN db.organizations THEN Refused(db, "organization not found")
    ELSE Done([db EXCEPT !.memberships = Put(@, <<m.user, m.org>>, m)])

PgUpsertOrganizationMembership(db, m) ==
    IF ~(\E r \in db.users : r.id = m.user) \/ ~(\E r \in db.organizations : r.id = m.org)
    THEN Refused(db, "membership not found")
    ELSE Done([db EXCEPT !.user_organizations =
                   Replace(@, {r \in @ : r.user = m.user /\ r.org = m.org}, {m})])

StoreOrganizationMembership(db, user, org) == At(db.memberships, <<user, org>>)
PgOrganizationMembership(db, user, org) ==
    One({r \in db.user_organizations : r.user = user /\ r.org = org})

StoreListOrganizationMembers(db, org) ==
    {db.memberships[k] : k \in {m \in DOMAIN db.memberships : m[2] = org}}
PgListOrganizationMembers(db, org) == {r \in db.user_organizations : r.org = org}

StoreOwnerCount(db, org) ==
    Cardinality({k \in DOMAIN db.memberships : k[2] = org /\ db.memberships[k].role = "owner"})
PgOwnerCount(db, org) ==
    Cardinality({r \in db.user_organizations : r.org = org /\ r.role = "owner"})

StoreCountOwnedOrganizationsByUser(db, user) ==
    Cardinality({k \in DOMAIN db.memberships : k[1] = user /\ db.memberships[k].role = "owner"})
PgCountOwnedOrganizationsByUser(db, user) ==
    Cardinality({r \in db.user_organizations : r.user = user /\ r.role = "owner"})

StoreDeleteOrganizationMembership(db, user, org) ==
    IF <<user, org>> \notin DOMAIN db.memberships THEN Refused(db, "membership not found")
    ELSE Done([db EXCEPT !.memberships = Drop(@, <<user, org>>)])
PgDeleteOrganizationMembership(db, user, org) ==
    LET rows == {r \in db.user_organizations : r.user = user /\ r.org = org}
    IN  IF rows = {} THEN Refused(db, "membership not found")
        ELSE Done([db EXCEPT !.user_organizations = @ \ rows])

StoreListOrganizationsForUser(db, user) ==
    {[org |-> db.organizations[k[2]], role |-> db.memberships[k].role] :
        k \in {m \in DOMAIN db.memberships : m[1] = user}}
PgListOrganizationsForUser(db, user) ==
    {[org |-> x[1], role |-> x[2].role] : x \in
        {y \in db.organizations \X db.user_organizations : y[2].user = user /\ y[2].org = y[1].id}}

StoreUserBelongsToOrganization(db, user, org) == <<user, org>> \in DOMAIN db.memberships
PgUserBelongsToOrganization(db, user, org) ==
    \E r \in db.user_organizations : r.user = user /\ r.org = org

StoreCreateOrganizationInvite(db, v) ==
    IF v.org \notin DOMAIN db.organizations THEN Refused(db, "organization not found")
    ELSE Done([db EXCEPT !.invites = Put(@, v.hash, v)])
PgCreateOrganizationInvite(db, v) ==
    IF ~\E r \in db.organizations : r.id = v.org THEN Refused(db, "organization not found")
    ELSE Done([db EXCEPT !.organization_invites = @ \cup {v}])

StoreOrganizationInviteByTokenHash(db, hash) == At(db.invites, hash)
PgOrganizationInviteByTokenHash(db, hash) ==
    One({r \in db.organization_invites : r.hash = hash
            /\ (\E o \in db.organizations : o.id = r.org) /\ (\E u \in db.users : u.id = r.inviter)})

StoreOrganizationInviteByID(db, org, id) ==
    One({db.invites[h] : h \in {x \in DOMAIN db.invites :
            db.invites[x].org = org /\ db.invites[x].id = id}})
PgOrganizationInviteByID(db, org, id) ==
    One({r \in db.organization_invites : r.org = org /\ r.id = id
            /\ (\E o \in db.organizations : o.id = r.org) /\ (\E u \in db.users : u.id = r.inviter)})

StoreOrganizationInvitesByOrg(db, org) ==
    {db.invites[h] : h \in {x \in DOMAIN db.invites : db.invites[x].org = org}}
PgOrganizationInvitesByOrg(db, org) ==
    {r \in db.organization_invites : r.org = org
        /\ (\E o \in db.organizations : o.id = r.org) /\ (\E u \in db.users : u.id = r.inviter)}

\* Mutant: the statement sets one column only.
PgUpdateInviteAccepted(db, v) ==
    LET rows == {r \in db.organization_invites : r.hash = v.hash}
    IN  IF rows = {} THEN Refused(db, "invite not found")
        ELSE Done([db EXCEPT !.organization_invites =
                       Replace(@, rows, {[r EXCEPT !.accepted = v.accepted] : r \in rows})])

(* Store replaces the whole record, Postgres only its two times.           *)
StoreUpdateOrganizationInvite(db, v) ==
    IF v.hash \notin DOMAIN db.invites THEN Refused(db, "invite not found")
    ELSE Done([db EXCEPT !.invites = Put(@, v.hash, v)])
PgUpdateOrganizationInvite(db, v) ==
    LET rows == {r \in db.organization_invites : r.hash = v.hash}
    IN  IF rows = {} THEN Refused(db, "invite not found")
        ELSE Done([db EXCEPT !.organization_invites =
                       Replace(@, rows, {[r EXCEPT !.accepted = v.accepted,
                                                   !.revoked = v.revoked] : r \in rows})])
=============================================================================
