------------------------- MODULE ResourceRepository -------------------------
(***************************************************************************)
(* The repository calls about workers and their resources (deployments,    *)
(* secrets, KV namespaces, databases, object buckets and their usage       *)
(* counters), once for the store in memory and once for PostgreSQL.  The   *)
(* three kinds of named resource follow one scheme, stated once and        *)
(* instantiated per kind.  A KV value is its size and its expiry (0 for    *)
(* none); a KV key is a short sequence of characters, since listing by     *)
(* prefix goes through a LIKE pattern in PostgreSQL.                       *)
(***************************************************************************)
EXTENDS IdentityRepository, Integers, FiniteSetsExt, SequencesExt, TLC

Answer(db, out, val) == [db |-> db, out |-> out, val |-> val]
Clamp(n) == IF n < 0 THEN 0 ELSE n
Values(f) == {f[k] : k \in DOMAIN f}
Count(f, P(_)) == Cardinality({k \in DOMAIN f : P(f[k])})

(* The sum of f over a set, and the bytes of rows and of entries of a map. *)
SumOf(f, S) == MapThenSumSet(LAMBDA k : f[k], S)
Total(rows) == SumOf([r \in rows |-> r.size], rows)
Bytes(kv, keys) == SumOf([k \in keys |-> kv[k].size], keys)

ZeroKV == [reads |-> 0, writes |-> 0, size |-> 0]
ZeroObjects == [reads |-> 0, writes |-> 0, size |-> 0, count |-> 0]
ZeroDB == [queries |-> 0, reads |-> 0, writes |-> 0, size |-> 0, buckets |-> None]
NoPercentiles == [p50 |-> 0, p99 |-> 0]

StoreResources ==
    [apps |-> None, capabilityToApp |-> None, deployments |-> None, active |-> None,
     secrets |-> None, kvNamespaces |-> None, databases |-> None, objectBuckets |-> None,
     kv |-> None, kvMetrics |-> None, dbMetrics |-> None, objectMetrics |-> None]

PgResources ==
    [workers |-> {}, deployments |-> {}, worker_secrets |-> {}, kv_namespaces |-> {},
     databases |-> {}, object_storage_buckets |-> {}, runtime_kv |-> {},
     kv_namespace_metrics |-> {}, database_metrics |-> {}, object_storage_bucket_metrics |-> {}]

---------------------------------------------------------------------------
(* Workers: an id, an optional unique hostname, a runtime token.           *)

StoreCreateApp(db, a) ==
    IF a.id \in DOMAIN db.apps
       \/ (a.hostname # "" /\ \E x \in Values(db.apps) : x.hostname = a.hostname)
    THEN Refused(db, "worker exists")
    ELSE Done([db EXCEPT !.apps = Put(@, a.id, a),
                         !.capabilityToApp = Put(@, a.token, a.id)])

PgCreateApp(db, a) ==
    IF \E r \in db.workers : r.id = a.id \/ (a.hostname # "" /\ r.hostname = a.hostname)
    THEN Refused(db, "worker exists")
    ELSE Done([db EXCEPT !.workers = @ \cup {a}])

StoreCountAppsByOrg(db, org) == Count(db.apps, LAMBDA a : a.org = org)
PgCountAppsByOrg(db, org) == Cardinality({r \in db.workers : r.org = org})

StoreGetApp(db, id) == At(db.apps, id)
PgGetApp(db, id) == One({r \in db.workers : r.id = id})

StoreListAppsByOrg(db, org) == {a \in Values(db.apps) : org = "" \/ a.org = org}
PgListAppsByOrg(db, org) == {r \in db.workers : org = "" \/ r.org = org}

(* A patch names the fields it changes; "same" leaves one as it is.        *)
Patched(a, in) ==
    [a EXCEPT !.hostname = IF in.hostname = "same" THEN @ ELSE in.hostname,
              !.auth = IF in.auth = "same" THEN @ ELSE in.auth]

StorePatchApp(db, id, in) ==
    IF id \notin DOMAIN db.apps THEN Refused(db, "worker not found")
    ELSE IF in.hostname # "same"
            /\ \E x \in Values(db.apps) : x.id # id /\ x.hostname = in.hostname
      THEN Refused(db, "worker exists")
    ELSE Done([db EXCEPT !.apps[id] = Patched(@, in)])

PgPatchApp(db, id, in) ==
    LET rows == {r \in db.workers : r.id = id}
        new == {Patched(r, in) : r \in rows}
    IN  IF rows = {} THEN Refused(db, "worker not found")
        ELSE IF \E r \in new, x \in db.workers \ rows : r.hostname # "" /\ x.hostname = r.hostname
          THEN Refused(db, "worker exists")
        ELSE Done([db EXCEPT !.workers = Replace(@, rows, new)])

(* Deleting a worker deletes all it owns; PostgreSQL deletes deployments   *)
(* in the transaction and secrets by a foreign key.                        *)
StoreDeleteApp(db, id) ==
    IF id \notin DOMAIN db.apps THEN Refused(db, "worker not found")
    ELSE Done([db EXCEPT !.apps = Drop(@, id), !.deployments = Drop(@, id),
                         !.active = Drop(@, id), !.secrets = Drop(@, id),
                         !.capabilityToApp = Drop(@, db.apps[id].token)])

PgDeleteApp(db, id) ==
    LET rows == {r \in db.workers : r.id = id}
    IN  IF rows = {} THEN Refused(db, "worker not found")
        ELSE Done([db EXCEPT !.workers = @ \ rows,
                             !.deployments = {r \in @ : r.app # id},
                             !.worker_secrets = {r \in @ : r.app # id}])

(* The worker a token names, as a set of at most one.                      *)
StoreAppIDForCapability(db, token) ==
    {db.capabilityToApp[t] : t \in {token} \cap DOMAIN db.capabilityToApp}
PgAppIDForCapability(db, token) == {r.id : r \in {x \in db.workers : x.token = token}}

(* Secrets of a worker.                                                    *)
SecretsOf(db, app) == IF app \in DOMAIN db.secrets THEN db.secrets[app] ELSE None

StoreListSecrets(db, app) ==
    IF app \notin DOMAIN db.apps THEN NotFound
    ELSE {<<n, SecretsOf(db, app)[n]>> : n \in DOMAIN SecretsOf(db, app)}
PgListSecrets(db, app) ==
    IF PgGetApp(db, app) = NotFound THEN NotFound
    ELSE {<<r.name, r.value>> : r \in {x \in db.worker_secrets : x.app = app}}

StorePutSecret(db, app, name, value) ==
    IF app \notin DOMAIN db.apps THEN Refused(db, "worker not found")
    ELSE Done([db EXCEPT !.secrets = Put(@, app, Put(SecretsOf(db, app), name, value))])
PgPutSecret(db, app, name, value) ==
    IF PgGetApp(db, app) = NotFound THEN Refused(db, "worker not found")
    ELSE Done([db EXCEPT !.worker_secrets =
                   Replace(@, {r \in @ : r.app = app /\ r.name = name},
                           {[app |-> app, name |-> name, value |-> value]})])

StoreDeleteSecret(db, app, name) ==
    IF app \notin DOMAIN db.apps THEN Refused(db, "worker not found")
    ELSE IF name \notin DOMAIN SecretsOf(db, app) THEN Refused(db, "secret not found")
    ELSE Done([db EXCEPT !.secrets = Put(@, app, Drop(SecretsOf(db, app), name))])
PgDeleteSecret(db, app, name) ==
    LET rows == {r \in db.worker_secrets : r.app = app /\ r.name = name}
    IN  IF rows # {} THEN Done([db EXCEPT !.worker_secrets = @ \ rows])
        ELSE IF PgGetApp(db, app) = NotFound THEN Refused(db, "worker not found")
        ELSE Refused(db, "secret not found")

---------------------------------------------------------------------------
(* Deployments and the traffic each receives.                              *)

DeploymentsOf(db, app) == IF app \in DOMAIN db.deployments THEN db.deployments[app] ELSE <<>>
TrafficOf(db, app) == IF app \in DOMAIN db.active THEN db.active[app] ELSE None
Share(db, app, id) == IF id \in DOMAIN TrafficOf(db, app) THEN db.active[app][id] ELSE 0

StoreActivate(db, d) ==
    IF d.app \notin DOMAIN db.apps THEN Refused(db, "worker not found")
    ELSE Done([db EXCEPT !.deployments = Put(@, d.app, Append(DeploymentsOf(db, d.app), d)),
                         !.active = Put(@, d.app, Put(None, d.id, 100))])

(* The row is inserted, then the worker's traffic moves to it.             *)
PgActivate(db, d) ==
    IF PgGetApp(db, d.app) = NotFound THEN Refused(db, "worker not found")
    ELSE Done([db EXCEPT !.deployments =
                   {IF r.app = d.app THEN [r EXCEPT !.traffic = 0] ELSE r : r \in @}
                     \cup {Put(d, "traffic", 100)}])

(* A deployment is stored without traffic before it is published.          *)
StoreStoreDeployment(db, d) ==
    IF d.app \notin DOMAIN db.apps THEN Refused(db, "worker not found")
    ELSE IF \E x \in Range(DeploymentsOf(db, d.app)) : x.id = d.id THEN Refused(db, "exists")
    ELSE Done([db EXCEPT !.deployments = Put(@, d.app, Append(DeploymentsOf(db, d.app), d))])
PgStoreDeployment(db, d) ==
    IF PgGetApp(db, d.app) = NotFound \/ \E r \in db.deployments : r.id = d.id
    THEN Refused(db, "insert") ELSE Done([db EXCEPT !.deployments = @ \cup {Put(d, "traffic", 0)}])

(* traffic is a function from deployment to percent.                       *)
StoreSetActiveTraffic(db, app, traffic) ==
    LET known == {d.id : d \in Range(DeploymentsOf(db, app))}
    IN  IF app \notin DOMAIN db.apps THEN Refused(db, "worker not found")
        ELSE IF traffic = None THEN Done([db EXCEPT !.active = Drop(@, app)])
        ELSE IF ~(DOMAIN traffic \subseteq known) THEN Refused(db, "deployment not found")
        ELSE Done([db EXCEPT !.active = Put(@, app, traffic)])

PgSetActiveTraffic(db, app, traffic) ==
    LET rows == {r \in db.deployments : r.app = app}
    IN  IF ~(DOMAIN traffic \subseteq {r.id : r \in rows})
          THEN Refused(db, "deployment not found")
        ELSE IF PgGetApp(db, app) = NotFound THEN Refused(db, "foreign key")
        ELSE Done([db EXCEPT !.deployments = Replace(@, rows,
                    {[r EXCEPT !.traffic = IF r.id \in DOMAIN traffic THEN traffic[r.id] ELSE 0] :
                        r \in rows})])

(* Traffic of a deleted deployment goes with it; the last one takes the    *)
(* whole entry.                                                            *)
StoreDeleteDeployment(db, d) ==
    IF d \notin Range(DeploymentsOf(db, d.app)) THEN Refused(db, "deployment not found")
    ELSE LET left == Drop(TrafficOf(db, d.app), d.id)
         IN  Done([db EXCEPT !.deployments[d.app] = SelectSeq(@, LAMBDA x : x # d),
                             !.active = IF left = None THEN Drop(@, d.app)
                                        ELSE Put(@, d.app, left)])

PgDeleteDeployment(db, d) ==
    Done([db EXCEPT !.deployments = {r \in @ : r.id # d.id}])

StoreActiveDeploymentsForApp(db, app) ==
    {<<db.apps[app], d.id, Share(db, app, d.id)>> :
        d \in {x \in Range(DeploymentsOf(db, app)) : Share(db, app, x.id) > 0}}
PgActiveDeployments(db, app) ==
    {<<PgGetApp(db, r.app), r.id, r.traffic>> :
        r \in {x \in db.deployments : x.traffic > 0 /\ (app = 0 \/ x.app = app)}}
PgActiveDeploymentsForApp(db, app) == PgActiveDeployments(db, app)

StoreActiveDeployments(db) ==
    UNION {StoreActiveDeploymentsForApp(db, app) : app \in DOMAIN db.active}

StoreListDeployments(db) ==
    UNION {{<<db.apps[app], d.id, Share(db, app, d.id)>> : d \in Range(db.deployments[app])} :
        app \in DOMAIN db.deployments}
PgListDeployments(db) == {<<PgGetApp(db, r.app), r.id, r.traffic>> : r \in db.deployments}

---------------------------------------------------------------------------
(* Named resources.  A name is unique within its organization; an update   *)
(* changes the name only; a resource bound by any deployment, active or    *)
(* not, stays.                                                             *)

StoreCreateNamed(db, kind, r) ==
    IF r.id \in DOMAIN db[kind] \/ \E x \in Values(db[kind]) : x.name = r.name /\ x.org = r.org
    THEN Refused(db, "exists") ELSE Done([db EXCEPT ![kind] = Put(@, r.id, r)])
PgCreateNamed(db, table, r) ==
    IF \E x \in db[table] : x.id = r.id \/ (x.name = r.name /\ x.org = r.org)
    THEN Refused(db, "exists") ELSE Done([db EXCEPT ![table] = @ \cup {r}])

StoreUpdateNamed(db, kind, r) ==
    IF r.id \notin DOMAIN db[kind] THEN Refused(db, "not found")
    ELSE IF \E x \in Values(db[kind]) : x.id # r.id /\ x.name = r.name /\ x.org = r.org
      THEN Refused(db, "exists")
    ELSE Done([db EXCEPT ![kind] = Put(@, r.id, [r EXCEPT !.org = db[kind][r.id].org])])
PgUpdateNamed(db, table, r) ==
    LET rows == {x \in db[table] : x.id = r.id}
    IN  IF rows = {} THEN Refused(db, "not found")
        ELSE IF \E x \in db[table] \ rows : x.name = r.name /\ x.org = One(rows).org
          THEN Refused(db, "exists")
        ELSE Done([db EXCEPT ![table] =
                       Replace(@, rows, {[x EXCEPT !.name = r.name] : x \in rows})])

StoreBinds(db, ref) == \E app \in DOMAIN db.deployments :
                           \E d \in Range(db.deployments[app]) : ref \in d.binds
PgBinds(db, ref) == \E r \in db.deployments : ref \in r.binds

StoreCreateKVNamespace(db, r) == StoreCreateNamed(db, "kvNamespaces", r)
StoreCreateDatabase(db, r) == StoreCreateNamed(db, "databases", r)
StoreCreateObjectStorageBucket(db, r) == StoreCreateNamed(db, "objectBuckets", r)
PgCreateKVNamespace(db, r) == PgCreateNamed(db, "kv_namespaces", r)
PgCreateDatabase(db, r) == PgCreateNamed(db, "databases", r)
PgCreateObjectStorageBucket(db, r) == PgCreateNamed(db, "object_storage_buckets", r)

StoreUpdateKVNamespace(db, r) == StoreUpdateNamed(db, "kvNamespaces", r)
StoreUpdateObjectStorageBucket(db, r) == StoreUpdateNamed(db, "objectBuckets", r)
PgUpdateKVNamespace(db, r) == PgUpdateNamed(db, "kv_namespaces", r)
PgUpdateObjectStorageBucket(db, r) == PgUpdateNamed(db, "object_storage_buckets", r)

StoreGetKVNamespace(db, id) == At(db.kvNamespaces, id)
StoreGetDatabase(db, id) == At(db.databases, id)
StoreGetObjectStorageBucket(db, id) == At(db.objectBuckets, id)
PgGetKVNamespace(db, id) == One({r \in db.kv_namespaces : r.id = id})
PgGetDatabase(db, id) == One({r \in db.databases : r.id = id})
PgGetObjectStorageBucket(db, id) == One({r \in db.object_storage_buckets : r.id = id})

InOrg(S, org) == {r \in S : org = "" \/ r.org = org}
StoreListKVNamespacesByOrg(db, org) == InOrg(Values(db.kvNamespaces), org)
StoreListDatabasesByOrg(db, org) == InOrg(Values(db.databases), org)
StoreListObjectStorageBucketsByOrg(db, org) == InOrg(Values(db.objectBuckets), org)
PgListKVNamespacesByOrg(db, org) == InOrg(db.kv_namespaces, org)
PgListDatabasesByOrg(db, org) == InOrg(db.databases, org)
PgListObjectStorageBucketsByOrg(db, org) == InOrg(db.object_storage_buckets, org)

StoreCountKVNamespacesByOrg(db, org) == Count(db.kvNamespaces, LAMBDA r : r.org = org)
StoreCountDatabasesByOrg(db, org) == Count(db.databases, LAMBDA r : r.org = org)
StoreCountObjectStorageBucketsByOrg(db, org) == Count(db.objectBuckets, LAMBDA r : r.org = org)
PgCountKVNamespacesByOrg(db, org) == Cardinality({r \in db.kv_namespaces : r.org = org})
PgCountDatabasesByOrg(db, org) == Cardinality({r \in db.databases : r.org = org})
PgCountObjectStorageBucketsByOrg(db, org) ==
    Cardinality({r \in db.object_storage_buckets : r.org = org})

StoreDeleteKVNamespace(db, id) ==
    IF id \notin DOMAIN db.kvNamespaces THEN Refused(db, "not found")
    ELSE IF StoreBinds(db, <<"kv", id>>) THEN Refused(db, "in use")
    ELSE Done([db EXCEPT !.kvNamespaces = Drop(@, id), !.kvMetrics = Drop(@, id),
                         !.kv = [k \in {x \in DOMAIN @ : x[1] # id} |-> @[k]]])

(* The metrics rows go by their foreign key.                               *)
PgDeleteKVNamespace(db, id) ==
    IF PgBinds(db, <<"kv", id>>) THEN Refused(db, "in use")
    ELSE IF PgGetKVNamespace(db, id) = NotFound THEN Refused(db, "not found")
    ELSE Done([db EXCEPT !.kv_namespaces = {r \in @ : r.id # id},
                         !.runtime_kv = {r \in @ : r.ns # id},
                         !.kv_namespace_metrics = {r \in @ : r.id # id}])

StoreDeleteDatabase(db, id) ==
    IF id \notin DOMAIN db.databases THEN Refused(db, "not found")
    ELSE IF StoreBinds(db, <<"db", id>>) THEN Refused(db, "in use")
    ELSE Done([db EXCEPT !.databases = Drop(@, id), !.dbMetrics = Drop(@, id)])
PgDeleteDatabase(db, id) ==
    IF PgBinds(db, <<"db", id>>) THEN Refused(db, "in use")
    ELSE IF PgGetDatabase(db, id) = NotFound THEN Refused(db, "not found")
    ELSE Done([db EXCEPT !.databases = {r \in @ : r.id # id},
                         !.database_metrics = {r \in @ : r.id # id}])

StoreDeleteObjectStorageBucket(db, id) ==
    IF id \notin DOMAIN db.objectBuckets THEN Refused(db, "not found")
    ELSE IF StoreBinds(db, <<"bucket", id>>) THEN Refused(db, "in use")
    ELSE Done([db EXCEPT !.objectBuckets = Drop(@, id), !.objectMetrics = Drop(@, id)])
PgDeleteObjectStorageBucket(db, id) ==
    IF PgBinds(db, <<"bucket", id>>) THEN Refused(db, "in use")
    ELSE IF PgGetObjectStorageBucket(db, id) = NotFound THEN Refused(db, "not found")
    ELSE Done([db EXCEPT !.object_storage_buckets = {r \in @ : r.id # id},
                         !.object_storage_bucket_metrics = {r \in @ : r.id # id}])

---------------------------------------------------------------------------
(* KV values and the usage of a namespace.  The store drops an expired     *)
(* value when it meets one, PostgreSQL filters it and purges before a      *)
(* listing; either way its bytes leave the usage with it.  The optional    *)
(* capability of a call is "" or a worker's token.                         *)

Missing == -1   \* no value
Expired(v, now) == v.expires # 0 /\ v.expires <= now
MetricsOf(f, id, zero) == IF id \in DOMAIN f THEN f[id] ELSE zero
RowOf(rows, id, zero) == IF \E r \in rows : r.id = id
                         THEN (CHOOSE r \in rows : r.id = id).m ELSE zero
PutRow(rows, id, m) == {r \in rows : r.id # id} \cup {[id |-> id, m |-> m]}

StoreKVAllowed(db, cap, ns) ==
    (cap = "" \/ StoreAppIDForCapability(db, cap) # {}) /\ ns \in DOMAIN db.kvNamespaces
PgKVAllowed(db, cap, ns) ==
    (cap = "" \/ PgAppIDForCapability(db, cap) # {}) /\ PgGetKVNamespace(db, ns) # NotFound

\* Mutant: the purge leaves the usage of the namespaces as it was.
StorePurgeUncounted(db, nss, now) ==
    LET gone == {k \in DOMAIN db.kv : k[1] \in nss /\ Expired(db.kv[k], now)}
    IN  [db EXCEPT !.kv = [k \in DOMAIN @ \ gone |-> @[k]]]

(* Every expired value of the given namespaces.                            *)
StorePurgeExpiredKV(db, nss, now) ==
    LET gone == {k \in DOMAIN db.kv : k[1] \in nss /\ Expired(db.kv[k], now)}
        left(n) == LET m == MetricsOf(db.kvMetrics, n, ZeroKV)
                   IN  [m EXCEPT !.size = Clamp(@ - Bytes(db.kv, {k \in gone : k[1] = n}))]
        purged == {k[1] : k \in gone}
    IN  [db EXCEPT !.kv = [k \in DOMAIN @ \ gone |-> @[k]],
                   !.kvMetrics = [n \in DOMAIN @ \cup purged |->
                                     IF n \in purged THEN left(n) ELSE @[n]]]

PgPurgeExpiredKV(db, ns, now) ==
    LET gone == {r \in db.runtime_kv : r.ns = ns /\ Expired(r, now)}
        m == RowOf(db.kv_namespace_metrics, ns, ZeroKV)
    IN  [db EXCEPT !.runtime_kv = @ \ gone,
                   !.kv_namespace_metrics =
                        IF Total(gone) = 0 THEN @
                        ELSE PutRow(@, ns, [m EXCEPT !.size = Clamp(@ - Total(gone))])]

(* One value: dropped by the store if it has expired.                      *)
StoreDropExpired(db, ns, key, now) ==
    LET k == <<ns, key>>
        m == MetricsOf(db.kvMetrics, ns, ZeroKV)
    IN  IF k \in DOMAIN db.kv /\ Expired(db.kv[k], now)
        THEN [db EXCEPT !.kv = Drop(@, k),
                        !.kvMetrics = Put(@, ns, [m EXCEPT !.size = Clamp(@ - db.kv[k].size)])]
        ELSE db

StoreKVGet(db, cap, ns, key, now) ==
    IF ~StoreKVAllowed(db, cap, ns) THEN Answer(db, "refused", Missing)
    ELSE LET d == StoreDropExpired(db, ns, key, now)
         IN  Answer(d, "ok", IF <<ns, key>> \in DOMAIN d.kv THEN d.kv[<<ns, key>>].size ELSE Missing)
PgKVGet(db, cap, ns, key, now) ==
    LET rows == {r \in db.runtime_kv : r.ns = ns /\ r.key = key /\ ~Expired(r, now)}
    IN  IF ~PgKVAllowed(db, cap, ns) THEN Answer(db, "refused", Missing)
        ELSE Answer(db, "ok", IF rows = {} THEN Missing ELSE One(rows).size)

StoreKVValueSize(db, cap, ns, key, now) == StoreKVGet(db, cap, ns, key, now)
PgKVValueSize(db, cap, ns, key, now) == PgKVGet(db, cap, ns, key, now)

(* val is the change of the namespace's size.  Both compare with the value *)
(* that is stored, expired or not.                                         *)
StoreKVPutWithSizeDelta(db, cap, ns, key, v) ==
    LET k == <<ns, key>>
        delta == v.size - (IF k \in DOMAIN db.kv THEN db.kv[k].size ELSE 0)
        m == MetricsOf(db.kvMetrics, ns, ZeroKV)
    IN  IF ~StoreKVAllowed(db, cap, ns) THEN Answer(db, "refused", 0)
        ELSE Answer([db EXCEPT !.kv = Put(@, k, v),
                               !.kvMetrics = Put(@, ns, [m EXCEPT !.size = Clamp(@ + delta)])],
                    "ok", delta)

(* PostgreSQL reads the size of the value in a query of its own, which     *)
(* locks nothing; the write, the change of the usage by the difference     *)
(* from that size and the commit follow.  old is the size read: another    *)
(* request may have replaced the value or purged it since.                 *)
PgKVRow(ns, key, v) == [ns |-> ns, key |-> key, size |-> v.size, expires |-> v.expires]
PgKVOldSize(db, ns, key) == Total({r \in db.runtime_kv : r.ns = ns /\ r.key = key})
PgSizeDelta(db, ns, key, rows, delta) ==
    [db EXCEPT !.runtime_kv = {r \in @ : ~(r.ns = ns /\ r.key = key)} \cup rows,
               !.kv_namespace_metrics =
                   IF delta = 0 THEN @
                   ELSE LET m == RowOf(@, ns, ZeroKV)
                        IN  PutRow(@, ns, [m EXCEPT !.size = Clamp(@ + delta)])]

PgKVPutWithSizeDelta(db, cap, ns, key, v, old) ==
    LET delta == v.size - old
    IN  IF ~PgKVAllowed(db, cap, ns) THEN Answer(db, "refused", 0)
        ELSE Answer(PgSizeDelta(db, ns, key, {PgKVRow(ns, key, v)}, delta), "ok", delta)

StoreKVDeleteWithSizeDelta(db, cap, ns, key) ==
    LET k == <<ns, key>>
        delta == 0 - (IF k \in DOMAIN db.kv THEN db.kv[k].size ELSE 0)
        m == MetricsOf(db.kvMetrics, ns, ZeroKV)
    IN  IF ~StoreKVAllowed(db, cap, ns) THEN Answer(db, "refused", 0)
        ELSE Answer([db EXCEPT !.kv = Drop(@, k),
                               !.kvMetrics = Put(@, ns, [m EXCEPT !.size = Clamp(@ + delta)])],
                    "ok", delta)
PgKVDeleteWithSizeDelta(db, cap, ns, key, old) ==
    LET delta == 0 - old
    IN  IF ~PgKVAllowed(db, cap, ns) THEN Answer(db, "refused", 0)
        ELSE Answer(PgSizeDelta(db, ns, key, {}, delta), "ok", delta)

StoreKVList(db, cap, ns, now) ==
    LET d == StorePurgeExpiredKV(db, {ns}, now)
    IN  Answer(d, "ok", {<<k[2], d.kv[k].size>> : k \in {x \in DOMAIN d.kv : x[1] = ns}})
PgKVList(db, cap, ns, now) ==
    LET d == PgPurgeExpiredKV(db, ns, now)
    IN  Answer(d, "ok", {<<r.key, r.size>> : r \in {x \in d.runtime_kv : x.ns = ns}})

---------------------------------------------------------------------------
(* A page of keys.  Keys are ordered as the sequence KeyOrder lists them;  *)
(* the cursor is the last key of the page before, <<>> for none.           *)

Before(order, k, l) == \E i, j \in DOMAIN order : i < j /\ order[i] = k /\ order[j] = l
Follows(order, k, cursor) == cursor = <<>> \/ Before(order, cursor, k)

\* Mutant: the cursor names the first key that did not fit.
PageAfterNext(found, limit) ==
    IF Len(found) <= limit THEN [keys |-> found, complete |-> TRUE, cursor |-> <<>>]
    ELSE [keys |-> SubSeq(found, 1, limit), complete |-> FALSE, cursor |-> found[limit + 1]]

PageOf(found, limit) ==
    IF Len(found) <= limit THEN [keys |-> found, complete |-> TRUE, cursor |-> <<>>]
    ELSE [keys |-> SubSeq(found, 1, limit), complete |-> FALSE, cursor |-> found[limit]]

(* The keys of a set in their order.                                       *)
InOrder(order, keys) ==
    CHOOSE s \in [1..Cardinality(keys) -> keys] :
        Range(s) = keys /\ \A i, j \in DOMAIN s : i < j => Before(order, s[i], s[j])

StoreKVListPage(db, order, ns, prefix, cursor, limit, now) ==
    LET d == StorePurgeExpiredKV(db, {ns}, now)
        found == {k \in Range(order) : /\ <<ns, k>> \in DOMAIN d.kv
                                       /\ Follows(order, k, cursor) /\ IsPrefix(prefix, k)}
    IN  Answer(d, "ok", PageOf(InOrder(order, found), limit))

\* Mutant: the pattern is the prefix as it stands.
PgRawPattern(prefix) == [i \in DOMAIN prefix |->
                            IF prefix[i] = "_" THEN [any |-> TRUE] ELSE [char |-> prefix[i]]]

(* The LIKE pattern of a prefix: an underscore is escaped and matches only *)
(* itself; the pattern's final % takes the rest of the key.                *)
PgEscapeKVLikePrefix(prefix) == [i \in DOMAIN prefix |-> [char |-> prefix[i]]]
Like(k, pattern) ==
    /\ Len(k) >= Len(pattern)
    /\ \A i \in DOMAIN pattern : pattern[i] \in {[any |-> TRUE], [char |-> k[i]]}

(* The query asks for one row more than the page holds.                    *)
PgKVListPage(db, order, ns, prefix, cursor, limit, now) ==
    LET d == PgPurgeExpiredKV(db, ns, now)
        found == {k \in Range(order) : /\ \E r \in d.runtime_kv : r.ns = ns /\ r.key = k
                                       /\ Follows(order, k, cursor)
                                       /\ Like(k, PgEscapeKVLikePrefix(prefix))}
        all == InOrder(order, found)
    IN  Answer(d, "ok", PageOf(SubSeq(all, 1, IF Len(all) > limit THEN limit + 1 ELSE Len(all)),
                               limit))

---------------------------------------------------------------------------
(* Usage counters.                                                         *)

StoreKVNamespaceMetrics(db, ns, now) ==
    IF ns \notin DOMAIN db.kvNamespaces THEN Answer(db, "refused", NotFound)
    ELSE LET d == StorePurgeExpiredKV(db, {ns}, now)
         IN  Answer(d, "ok", MetricsOf(d.kvMetrics, ns, ZeroKV))
PgKVNamespaceMetrics(db, ns, now) ==
    IF PgGetKVNamespace(db, ns) = NotFound THEN Answer(db, "refused", NotFound)
    ELSE LET d == PgPurgeExpiredKV(db, ns, now)
         IN  Answer(d, "ok", RowOf(d.kv_namespace_metrics, ns, ZeroKV))

(* The store adds up the usage of the organization's namespaces after a    *)
(* purge of each, PostgreSQL adds up the values that have not expired.     *)
StoreKVStorageBytesByOrg(db, org, now) ==
    LET ids == {n \in DOMAIN db.kvNamespaces : db.kvNamespaces[n].org = org}
        d == StorePurgeExpiredKV(db, ids, now)
    IN  Answer(d, "ok", SumOf([n \in ids |-> MetricsOf(d.kvMetrics, n, ZeroKV).size], ids))
PgKVStorageBytesByOrg(db, org, now) ==
    Answer(db, "ok", Total({r \in db.runtime_kv : ~Expired(r, now)
                                /\ \E n \in db.kv_namespaces : n.id = r.ns /\ n.org = org}))

StoreCountUse(db, kind, metrics, id, zero, change(_)) ==
    IF id \notin DOMAIN db[kind] THEN Refused(db, "not found")
    ELSE Done([db EXCEPT ![metrics] = Put(@, id, change(MetricsOf(@, id, zero)))])
PgCountUse(db, table, metrics, id, zero, change(_)) ==
    IF ~\E r \in db[table] : r.id = id THEN Refused(db, "not found")
    ELSE Done([db EXCEPT ![metrics] = PutRow(@, id, change(RowOf(@, id, zero)))])

OneRead(m) == [m EXCEPT !.reads = @ + 1]
OneWrite(m) == [m EXCEPT !.writes = @ + 1]

StoreIncrementKVNamespaceReads(db, ns) ==
    StoreCountUse(db, "kvNamespaces", "kvMetrics", ns, ZeroKV, OneRead)
StoreIncrementKVNamespaceWrites(db, ns) ==
    StoreCountUse(db, "kvNamespaces", "kvMetrics", ns, ZeroKV, OneWrite)
PgIncrementKVNamespaceReads(db, ns) ==
    PgCountUse(db, "kv_namespaces", "kv_namespace_metrics", ns, ZeroKV, OneRead)
PgIncrementKVNamespaceWrites(db, ns) ==
    PgCountUse(db, "kv_namespaces", "kv_namespace_metrics", ns, ZeroKV, OneWrite)

StoreObjects(db, b, change(_)) ==
    StoreCountUse(db, "objectBuckets", "objectMetrics", b, ZeroObjects, change)
PgObjects(db, b, change(_)) ==
    PgCountUse(db, "object_storage_buckets", "object_storage_bucket_metrics", b, ZeroObjects, change)

StoreIncrementObjectStorageBucketReads(db, b) == StoreObjects(db, b, OneRead)
StoreIncrementObjectStorageBucketWrites(db, b) == StoreObjects(db, b, OneWrite)
PgIncrementObjectStorageBucketReads(db, b) == PgObjects(db, b, OneRead)
PgIncrementObjectStorageBucketWrites(db, b) == PgObjects(db, b, OneWrite)

StoreAdjustObjectStorageBucketSize(db, b, delta) ==
    StoreObjects(db, b, LAMBDA m : [m EXCEPT !.size = Clamp(@ + delta)])
PgAdjustObjectStorageBucketSize(db, b, delta) ==
    PgObjects(db, b, LAMBDA m : [m EXCEPT !.size = Clamp(@ + delta)])
StoreAdjustObjectStorageBucketObjectCount(db, b, delta) ==
    StoreObjects(db, b, LAMBDA m : [m EXCEPT !.count = Clamp(@ + delta)])
PgAdjustObjectStorageBucketObjectCount(db, b, delta) ==
    PgObjects(db, b, LAMBDA m : [m EXCEPT !.count = Clamp(@ + delta)])
StoreSetObjectStorageBucketObjectCount(db, b, n) ==
    StoreObjects(db, b, LAMBDA m : [m EXCEPT !.count = Clamp(n)])
PgSetObjectStorageBucketObjectCount(db, b, n) ==
    PgObjects(db, b, LAMBDA m : [m EXCEPT !.count = Clamp(n)])

StoreObjectStorageBucketMetrics(db, b) ==
    IF b \notin DOMAIN db.objectBuckets THEN NotFound ELSE MetricsOf(db.objectMetrics, b, ZeroObjects)
PgObjectStorageBucketMetrics(db, b) ==
    IF PgGetObjectStorageBucket(db, b) = NotFound THEN NotFound
    ELSE RowOf(db.object_storage_bucket_metrics, b, ZeroObjects)

StoreObjectStorageBytesByOrg(db, org) ==
    LET ids == {b \in DOMAIN db.objectBuckets : db.objectBuckets[b].org = org}
    IN  SumOf([b \in ids |-> MetricsOf(db.objectMetrics, b, ZeroObjects).size], ids)
PgObjectStorageBytesByOrg(db, org) ==
    LET rows == {r \in db.object_storage_buckets : r.org = org}
    IN  SumOf([r \in rows |-> RowOf(db.object_storage_bucket_metrics, r.id, ZeroObjects).size],
              rows)

---------------------------------------------------------------------------
(* Query metrics of a database: counts, the size after the last query and  *)
(* a histogram of durations, in tenths of a millisecond, from which two    *)
(* percentiles are read.  The store keeps the percentiles it computed when *)
(* it recorded a query, PostgreSQL computes them when asked.               *)

DurationBounds == <<5, 10, 25, 50, 100, 250, 500, 1000, 2500, 5000, 10000>>

DurationBucket(d) ==
    LET fits == {i \in DOMAIN DurationBounds : d <= DurationBounds[i]}
    IN  IF fits = {} THEN Len(DurationBounds) + 1 ELSE Min(fits)

DurationPercentile(m, percent) ==
    LET upTo(i) == SumOf([j \in 1..i |-> MetricsOf(m.buckets, j, 0)], 1..i)
        target == IF m.queries * percent < 100 THEN 1 ELSE (m.queries * percent) \div 100
        enough == {i \in 1..(Len(DurationBounds) + 1) : upTo(i) >= target}
    IN  IF m.queries = 0 THEN 0
        ELSE IF enough = {} \/ Min(enough) > Len(DurationBounds)
          THEN DurationBounds[Len(DurationBounds)]
        ELSE DurationBounds[Min(enough)]

Percentiles(m) == [p50 |-> DurationPercentile(m, 50), p99 |-> DurationPercentile(m, 99)]

Queried(m, q) ==
    [queries |-> m.queries + 1,
     reads |-> m.reads + (IF q.wrote THEN 0 ELSE 1),
     writes |-> m.writes + (IF q.wrote THEN 1 ELSE 0),
     size |-> q.size,
     buckets |-> Put(m.buckets, DurationBucket(q.duration),
                     MetricsOf(m.buckets, DurationBucket(q.duration), 0) + 1)]

StoreDBMetrics(db, id) == MetricsOf(db.dbMetrics, id, ZeroDB @@ NoPercentiles)
Counts(m) == [f \in DOMAIN ZeroDB |-> m[f]]

StoreRecordDatabaseQueryMetrics(db, id, q) ==
    IF id \notin DOMAIN db.databases THEN Refused(db, "not found")
    ELSE LET m == Queried(Counts(StoreDBMetrics(db, id)), q)
         IN  Done([db EXCEPT !.dbMetrics = Put(@, id, m @@ Percentiles(m))])
PgRecordDatabaseQueryMetrics(db, id, q) ==
    PgCountUse(db, "databases", "database_metrics", id, ZeroDB, LAMBDA m : Queried(m, q))

StoreUpdateDatabaseRuntimeStats(db, id, size) ==
    StoreCountUse(db, "databases", "dbMetrics", id, ZeroDB @@ NoPercentiles,
                  LAMBDA m : [m EXCEPT !.size = size])
PgUpdateDatabaseRuntimeStats(db, id, size) ==
    PgCountUse(db, "databases", "database_metrics", id, ZeroDB,
               LAMBDA m : [m EXCEPT !.size = Clamp(size)])

StoreDatabaseMetrics(db, id) ==
    IF id \notin DOMAIN db.databases THEN NotFound ELSE StoreDBMetrics(db, id)
PgDatabaseMetrics(db, id) ==
    IF PgGetDatabase(db, id) = NotFound THEN NotFound
    ELSE LET m == RowOf(db.database_metrics, id, ZeroDB) IN m @@ Percentiles(m)
=============================================================================
