------------------------------- MODULE Workers -------------------------------
(***************************************************************************)
(* Workers, their deployments, secrets and routing.  Changes hold configMu *)
(* (and the repository's deployment guard) from the first repository call  *)
(* to the last; creating a worker and the gateway's lookups do not.  The   *)
(* gateway caches the active deployments of a worker; a fill that began    *)
(* before an invalidation must not be kept after it.  Whatever publishing  *)
(* does beyond traffic, cache and routes is the subject of Publication.    *)
(***************************************************************************)
EXTENDS ResourceRepository

CONSTANTS WorkerThreads,
          MaxJobs,           \* changes and lookups in a behaviour
          MaxWorkerFaults    \* failures of a rollout, or of the runtime to take what is written

ASSUME WorkersAssumption == {MaxJobs, MaxWorkerFaults} \subseteq Nat

VARIABLES wkStore, wkPg, wkAgreed,       \* the two repositories; same answers so far
          job, jobsLeft, wkFaults,
          configMu,                      \* the thread that holds it, as a set
          runtimeDeployments, runtimeVersions,   \* the gateway's cache, by worker
          routes,                        \* what was last written for the runtime
          routesStale,                   \* history: the last write failed
          artifacts,                     \* deployment -> secrets frozen with it
          bundles,                       \* objects with the code of deployments
          serving                        \* history: secrets of each active deployment when it
                                         \* became active

wkRepositories == <<wkStore, wkPg, wkAgreed>>
cacheVars == <<runtimeDeployments, runtimeVersions>>
workersVars == <<wkRepositories, job, jobsLeft, wkFaults, configMu, cacheVars, routes, routesStale,
                 artifacts, bundles, serving>>

NoJob == [op |-> "idle"]
Doing(t, op) == job[t].op = op
Proceed(t, r) == job' = [job EXCEPT ![t] = r]
StartJob(t, r) == Doing(t, "idle") /\ jobsLeft > 0 /\ jobsLeft' = jobsLeft - 1 /\ Proceed(t, r)
WorkerRepositories(s, p) ==
    /\ wkStore' = s.db /\ wkPg' = p.db
    /\ wkAgreed' = (wkAgreed /\ (s.out = "ok") = (p.out = "ok"))

LockConfig(t) == configMu = {} /\ configMu' = {t}
UnlockConfig == configMu' = {}
KeepConfig == UNCHANGED configMu

ActiveIn(db) == PgActiveDeployments(db, 0)
TrafficIn(db, app) ==
    LET rows == {r \in db.deployments : r.app = app /\ r.traffic > 0}
    IN  [id \in {r.id : r \in rows} |-> (CHOOSE r \in rows : r.id = id).traffic]
Deployed(db, id) == CHOOSE r \in db.deployments : r.id = id

---------------------------------------------------------------------------
(* Creating a worker.  A name generated for it is tried again, with a      *)
(* random suffix, while the hostname is taken.                             *)

CONSTANTS MaxAttempts, AppLimit, Hostnames

AppIDs == 1..MaxJobs + 1

CreateWorker(t, hostname) ==
    /\ StartJob(t, IF PgCountAppsByOrg(wkPg, "o") < AppLimit
                   THEN [op |-> "create", hostname |-> hostname, attempt |-> 1,
                         id |-> MaxJobs - jobsLeft + 2]
                   ELSE NoJob)
    /\ UNCHANGED <<wkRepositories, wkFaults, configMu, cacheVars, routes, routesStale, artifacts,
                   bundles, serving>>

GeneratedHostname(t) ==
    IF job[t].hostname # "generated" THEN {job[t].hostname}
    ELSE IF job[t].attempt = 1 THEN {"h"} ELSE Hostnames

CreateApp(t) ==
    /\ Doing(t, "create")
    /\ \E h \in GeneratedHostname(t) :
        LET a == [id |-> job[t].id, org |-> "o", hostname |-> h, auth |-> "off",
                  token |-> <<"t", job[t].id>>]
            p == PgCreateApp(wkPg, a)
        IN  /\ WorkerRepositories(StoreCreateApp(wkStore, a), p)
            /\ Proceed(t, IF p.out # "ok" /\ job[t].hostname = "generated"
                             /\ job[t].attempt < MaxAttempts
                          THEN [job[t] EXCEPT !.attempt = @ + 1] ELSE NoJob)
            /\ UNCHANGED <<jobsLeft, wkFaults, configMu, cacheVars, routes, routesStale, artifacts,
                           bundles, serving>>

---------------------------------------------------------------------------
(* The gateway.  The cache is read; on a miss the repository is asked and  *)
(* the answer kept if no invalidation came between.                        *)

LookupRoute(t, app) ==
    /\ StartJob(t, IF app \in DOMAIN runtimeDeployments THEN NoJob
                ELSE [op |-> "read", app |-> app, version |-> runtimeVersions[app]])
    /\ UNCHANGED <<wkRepositories, wkFaults, configMu, cacheVars, routes, routesStale, artifacts,
                   bundles, serving>>
ReadRoute(t) ==
    /\ Doing(t, "read")
    /\ Proceed(t, [op |-> "keep", app |-> job[t].app, version |-> job[t].version,
                active |-> PgActiveDeploymentsForApp(wkPg, job[t].app)])
    /\ UNCHANGED <<wkRepositories, jobsLeft, wkFaults, configMu, cacheVars, routes, routesStale,
                   artifacts, bundles, serving>>
RuntimeDeploymentsForApp(t) ==
    LET j == job[t]
    IN  /\ Doing(t, "keep") /\ Proceed(t, NoJob)
        /\ runtimeDeployments' =
              IF runtimeVersions[j.app] = j.version /\ j.app \notin DOMAIN runtimeDeployments
              THEN Put(runtimeDeployments, j.app, j.active) ELSE runtimeDeployments
        /\ UNCHANGED <<wkRepositories, jobsLeft, wkFaults, configMu, runtimeVersions, routes,
                       routesStale, artifacts, bundles, serving>>

\* Mutant: the entry is dropped but an earlier fill is not turned away.
DropOnly(app) ==
    /\ runtimeDeployments' = Drop(runtimeDeployments, app)
    /\ UNCHANGED runtimeVersions

InvalidateRuntimeDeployments(app) ==
    /\ runtimeDeployments' = Drop(runtimeDeployments, app)
    /\ runtimeVersions' = [runtimeVersions EXCEPT ![app] = @ + 1]

---------------------------------------------------------------------------
(* Steps the changes share.                                                *)

(* A step to the next that invalidates the worker's cached routing.        *)
Invalidate(t, from, r) ==
    /\ Doing(t, from) /\ Proceed(t, r) /\ KeepConfig
    /\ InvalidateRuntimeDeployments(job[t].app)
    /\ UNCHANGED <<wkRepositories, jobsLeft, wkFaults, routes, routesStale, artifacts, bundles,
                   serving>>

(* writePublication: the runtime takes the active deployments, or fails to.*)
WritePublication(fails) ==
    /\ routesStale' = fails
    /\ routes' = IF fails THEN routes ELSE ActiveIn(wkPg)
    /\ IF fails THEN wkFaults > 0 /\ wkFaults' = wkFaults - 1 ELSE UNCHANGED wkFaults

SecretsIn(db, app) == {<<r.name, r.value>> : r \in {x \in db.worker_secrets : x.app = app}}

(* hydrateArtifact: a deployment without an artifact has the worker's      *)
(* current secrets.                                                        *)
EffectiveSecrets(id) ==
    IF id \in DOMAIN artifacts THEN artifacts[id] ELSE SecretsIn(wkPg, Deployed(wkPg, id).app)

SetTraffic(t, app, traffic) ==
    LET p == PgSetActiveTraffic(wkPg, app, traffic)
        active == {r.id : r \in {x \in p.db.deployments : x.traffic > 0}}
    IN  /\ WorkerRepositories(StoreSetActiveTraffic(wkStore, app, traffic), p)
        /\ serving' = [id \in active |->
                           IF id \in DOMAIN serving THEN serving[id] ELSE EffectiveSecrets(id)]

---------------------------------------------------------------------------
(* Changing and deleting a worker.                                         *)

UpdateApp(t, app, patch) ==
    LET p == PgPatchApp(wkPg, app, patch)
    IN  /\ PgGetApp(wkPg, app) # NotFound
        /\ configMu = {}
        /\ WorkerRepositories(StorePatchApp(wkStore, app, patch), p)
        /\ StartJob(t, IF p.out = "ok" THEN [op |-> "patched", app |-> app] ELSE NoJob)
        /\ configMu' = IF p.out = "ok" THEN {t} ELSE {}
        /\ UNCHANGED <<wkFaults, cacheVars, routes, routesStale, artifacts, bundles, serving>>
UpdateAppInvalidate(t) == Invalidate(t, "patched", [job[t] EXCEPT !.op = "write"])

(* deploymentObjectReferenced: an object stays while any deployment of the *)
(* worker that is left in the repository names it.                         *)
ObjectReferenced(db, app, object) == \E r \in db.deployments : r.app = app /\ r.object = object

DeleteApp(t, app) ==
    LET p == PgDeleteApp(wkPg, app)
        objects == {r.object : r \in {x \in wkPg.deployments : x.app = app}}
    IN  /\ configMu = {}
        /\ WorkerRepositories(StoreDeleteApp(wkStore, app), p)
        /\ StartJob(t, IF p.out = "ok" THEN [op |-> "deleted", app |-> app, objects |-> objects]
                    ELSE NoJob)
        /\ configMu' = IF p.out = "ok" THEN {t} ELSE {}
        /\ serving' = [id \in DOMAIN serving \cap {r.id : r \in p.db.deployments} |-> serving[id]]
        /\ UNCHANGED <<wkFaults, cacheVars, routes, routesStale, artifacts, bundles>>
CleanupDeployments(t) ==
    LET j == job[t]
    IN  /\ Doing(t, "deleted") /\ KeepConfig
        /\ bundles' = {o \in bundles : o \in j.objects => ObjectReferenced(wkPg, j.app, o)}
        /\ Proceed(t, [op |-> "cleaned", app |-> j.app])
        /\ UNCHANGED <<wkRepositories, jobsLeft, wkFaults, cacheVars, routes, routesStale,
                       artifacts, serving>>
DeleteAppInvalidate(t) == Invalidate(t, "cleaned", [job[t] EXCEPT !.op = "write"])

WriteRoutes(t) ==
    \E fails \in BOOLEAN :
        /\ Doing(t, "write") /\ WritePublication(fails)
        /\ Proceed(t, NoJob) /\ UnlockConfig
        /\ UNCHANGED <<wkRepositories, jobsLeft, cacheVars, artifacts, bundles, serving>>

---------------------------------------------------------------------------
(* Traffic between the deployments of a worker.                            *)

SetDeploymentTraffic(t, app, traffic) ==
    LET p == PgSetActiveTraffic(wkPg, app, traffic)
    IN  /\ configMu = {}
        /\ PgGetApp(wkPg, app) # NotFound
        /\ SetTraffic(t, app, traffic)
        /\ StartJob(t, IF p.out = "ok"
                    THEN [op |-> "moved", app |-> app, previous |-> TrafficIn(wkPg, app)]
                    ELSE NoJob)
        /\ configMu' = IF p.out = "ok" THEN {t} ELSE {}
        /\ UNCHANGED <<wkFaults, cacheVars, routes, routesStale, artifacts, bundles>>
TrafficInvalidate(t) == Invalidate(t, "moved", [job[t] EXCEPT !.op = "settle"])

(* Validation by the runtime, then the write.  Either may fail: the        *)
(* previous traffic is put back, and after a failed write routed again.    *)
ValidatePreparedPublication(t) ==
    /\ Doing(t, "settle") /\ KeepConfig
    /\ wkFaults > 0 /\ wkFaults' = wkFaults - 1
    /\ Proceed(t, [job[t] EXCEPT !.op = "restore", !.previous = <<@, FALSE>>])
    /\ UNCHANGED <<wkRepositories, jobsLeft, cacheVars, routes, routesStale, artifacts, bundles,
                   serving>>
WriteOrRestore(t, from) ==
    \E fails \in BOOLEAN :
        /\ Doing(t, from) /\ WritePublication(fails)
        /\ IF fails
           THEN Proceed(t, [job[t] EXCEPT !.op = "restore", !.previous = <<@, TRUE>>]) /\ KeepConfig
           ELSE Proceed(t, NoJob) /\ UnlockConfig
        /\ UNCHANGED <<wkRepositories, jobsLeft, cacheVars, artifacts, bundles, serving>>
WriteTraffic(t) == WriteOrRestore(t, "settle")
RestoreTraffic(t) ==
    LET j == job[t]
    IN  /\ Doing(t, "restore") /\ KeepConfig
        /\ SetTraffic(t, j.app, j.previous[1])
        /\ Proceed(t, [op |-> IF j.previous[2] THEN "restored" ELSE "unmoved", app |-> j.app])
        /\ UNCHANGED <<jobsLeft, wkFaults, cacheVars, routes, routesStale, artifacts, bundles>>
RestoredOnly(t) ==
    /\ Doing(t, "unmoved") /\ Proceed(t, NoJob) /\ UnlockConfig
    /\ InvalidateRuntimeDeployments(job[t].app)
    /\ UNCHANGED <<wkRepositories, jobsLeft, wkFaults, routes, routesStale, artifacts, bundles,
                   serving>>
RestoredInvalidate(t) == Invalidate(t, "restored", [job[t] EXCEPT !.op = "write"])

---------------------------------------------------------------------------
(* Deploying, and rolling a change of secrets out.                         *)

NewID(db) == 1 + Max({1} \cup {r.id : r \in db.deployments} \cup DOMAIN artifacts)

(* normalizeKVNamespaces: what a deployment binds exists.  A binding is    *)
(* named after its kind here, and may not share its name with a secret.    *)
NormalizeKVNamespaces(binds) == \A b \in binds : PgGetKVNamespace(wkPg, b[2]) # NotFound
ValidateBindingCollisions(binds, names) == {b[1] : b \in binds} \cap names = {}
SecretNames(app) == {s[1] : s \in SecretsIn(wkPg, app)}

CreateDeployment(t, app, binds) ==
    /\ PgGetApp(wkPg, app) # NotFound /\ NormalizeKVNamespaces(binds)
    /\ StartJob(t, [op |-> "build", app |-> app,
                 d |-> [id |-> NewID(wkPg), app |-> app, binds |-> binds, object |-> NewID(wkPg)]])
    /\ LockConfig(t)
    /\ bundles' = bundles \cup {NewID(wkPg)}
    /\ UNCHANGED <<wkRepositories, wkFaults, cacheVars, routes, routesStale, artifacts, serving>>

PublishJob(app, target) ==
    [op |-> "publish", app |-> app, target |-> target, previous |-> TrafficIn(wkPg, app)]

BuildDeployment(t) ==
    LET d == job[t].d
        fits == ValidateBindingCollisions(d.binds, SecretNames(d.app))
    IN  /\ Doing(t, "build")
        /\ IF fits
           THEN /\ KeepConfig /\ Proceed(t, PublishJob(d.app, Put(None, d.id, 100)))
                /\ artifacts' = Put(artifacts, d.id, SecretsIn(wkPg, d.app))
                /\ WorkerRepositories(StoreStoreDeployment(wkStore, d), PgStoreDeployment(wkPg, d))
                /\ UNCHANGED bundles
           ELSE /\ UnlockConfig /\ Proceed(t, NoJob)
                /\ bundles' = {o \in bundles : o = d.object => ObjectReferenced(wkPg, d.app, o)}
                /\ UNCHANGED <<wkRepositories, artifacts>>
        /\ UNCHANGED <<jobsLeft, wkFaults, cacheVars, routes, routesStale, serving>>

\* Mutant: secrets change without freezing the active deployments first.
NotPinned(app) == artifacts

(* Active deployments without an artifact get one before secrets change.   *)
PinActiveArtifacts(app) ==
    LET legacy == DOMAIN TrafficIn(wkPg, app) \ DOMAIN artifacts
    IN  [id \in DOMAIN artifacts \cup legacy |->
            IF id \in legacy THEN SecretsIn(wkPg, app) ELSE artifacts[id]]

PutSecret(t, app, name, value) ==
    /\ PgGetApp(wkPg, app) # NotFound
    /\ \A r \in wkPg.deployments : r.app = app /\ r.traffic > 0 =>
          ValidateBindingCollisions(r.binds, SecretNames(app) \cup {name})
    /\ StartJob(t, [op |-> "rollout", app |-> app]) /\ LockConfig(t)
    /\ artifacts' = PinActiveArtifacts(app)
    /\ WorkerRepositories(StorePutSecret(wkStore, app, name, value), PgPutSecret(wkPg, app, name, value))
    /\ UNCHANGED <<wkFaults, cacheVars, routes, routesStale, bundles, serving>>

DeleteSecret(t, app, name) ==
    LET p == PgDeleteSecret(wkPg, app, name)
    IN  /\ PgGetApp(wkPg, app) # NotFound
        /\ configMu = {}
        /\ StartJob(t, IF p.out = "ok" THEN [op |-> "rollout", app |-> app] ELSE NoJob)
        /\ configMu' = IF p.out = "ok" THEN {t} ELSE {}
        /\ artifacts' = PinActiveArtifacts(app)
        /\ WorkerRepositories(StoreDeleteSecret(wkStore, app, name), p)
        /\ UNCHANGED <<wkFaults, cacheVars, routes, routesStale, bundles, serving>>

(* Each active deployment is cloned with the new secrets, one after the    *)
(* other; the clone shares the bundle and will get the share of traffic.   *)
(* A worker with no active deployment has nothing to roll out.             *)
RolloutSecretsIfActive(t) ==
    LET app == job[t].app
        old == TrafficIn(wkPg, app)
    IN  /\ Doing(t, "rollout")
        /\ IF old = None
           THEN UnlockConfig /\ Proceed(t, NoJob)
           ELSE /\ KeepConfig
                /\ Proceed(t, [op |-> "clone", app |-> app, previous |-> old, left |-> DOMAIN old,
                               target |-> None])
        /\ UNCHANGED <<wkRepositories, jobsLeft, wkFaults, cacheVars, routes, routesStale,
                       artifacts, bundles, serving>>
CloneDeployment(t) ==
    LET j == job[t]
        record(id) == [id |-> NewID(wkPg), app |-> j.app, binds |-> Deployed(wkPg, id).binds,
                       object |-> Deployed(wkPg, id).object]
    IN  /\ Doing(t, "clone") /\ KeepConfig
        /\ \E id \in j.left :
            /\ artifacts' = Put(artifacts, NewID(wkPg), SecretsIn(wkPg, j.app))
            /\ WorkerRepositories(StoreStoreDeployment(wkStore, record(id)),
                                  PgStoreDeployment(wkPg, record(id)))
            /\ LET target == Put(j.target, NewID(wkPg), j.previous[id])
               IN  Proceed(t, IF j.left = {id} THEN PublishJob(j.app, target)
                              ELSE [j EXCEPT !.left = @ \ {id}, !.target = target])
        /\ UNCHANGED <<jobsLeft, wkFaults, cacheVars, routes, routesStale, bundles, serving>>

(* It fails half way: the clones made so far stay, without traffic, and the*)
(* last one may have its artifact only.                                    *)
CloneFails(t) ==
    /\ Doing(t, "clone") /\ Proceed(t, NoJob) /\ UnlockConfig
    /\ wkFaults > 0 /\ wkFaults' = wkFaults - 1
    /\ artifacts' \in {artifacts, Put(artifacts, NewID(wkPg), SecretsIn(wkPg, job[t].app))}
    /\ UNCHANGED <<wkRepositories, jobsLeft, cacheVars, routes, routesStale, bundles, serving>>

(* publishStoredArtifact: the runtime prepares the candidate, then traffic *)
(* moves, and what the runtime holds is committed or traffic moves back.   *)
PrepareFails(t) ==
    /\ Doing(t, "publish") /\ Proceed(t, NoJob) /\ UnlockConfig
    /\ wkFaults > 0 /\ wkFaults' = wkFaults - 1
    /\ UNCHANGED <<wkRepositories, jobsLeft, cacheVars, routes, routesStale, artifacts, bundles,
                   serving>>
PublishStoredArtifact(t) ==
    LET j == job[t]
    IN  /\ Doing(t, "publish") /\ KeepConfig
        /\ SetTraffic(t, j.app, j.target)
        /\ Proceed(t, [op |-> "activated", app |-> j.app, previous |-> j.previous])
        /\ UNCHANGED <<jobsLeft, wkFaults, cacheVars, routes, routesStale, artifacts, bundles>>
PublishInvalidate(t) == Invalidate(t, "activated", [job[t] EXCEPT !.op = "commit"])
CommitPublication(t) == WriteOrRestore(t, "commit")

---------------------------------------------------------------------------
WorkersSeed(db, app(_, _), kv(_, _), activate(_, _)) ==
    LET a == app(db, [id |-> 1, org |-> "o", hostname |-> "h", auth |-> "off", token |-> <<"t", 1>>])
        n == kv(a.db, [id |-> 1, org |-> "o", name |-> "n"])
    IN  activate(n.db, [id |-> 1, app |-> 1, binds |-> {}, object |-> 1]).db

WorkersInit ==
    /\ wkStore = WorkersSeed(StoreResources, StoreCreateApp, StoreCreateKVNamespace, StoreActivate)
    /\ wkPg = WorkersSeed(PgResources, PgCreateApp, PgCreateKVNamespace, PgActivate)
    /\ wkAgreed = TRUE
    /\ job = [t \in WorkerThreads |-> NoJob] /\ jobsLeft = MaxJobs /\ wkFaults = MaxWorkerFaults
    /\ configMu = {}
    /\ runtimeDeployments = None /\ runtimeVersions = [a \in AppIDs |-> 0]
    /\ routes = ActiveIn(wkPg) /\ routesStale = FALSE
    /\ artifacts = None /\ bundles = {1} /\ serving = Put(None, 1, {})

AppPatches == {[hostname |-> h, auth |-> "same"] : h \in Hostnames}
           \cup {[hostname |-> "same", auth |-> "on"]}
Splits ==
    LET ids == {1} \cup {r.id : r \in wkPg.deployments}
    IN  {[x \in {id} |-> 100] : id \in ids}
        \cup {[x \in {p[1], p[2]} |-> 50] : p \in {q \in ids \X ids : q[1] < q[2]}}

WorkersNext ==
    \E t \in WorkerThreads :
        \/ \E h \in {"h", "generated"} : CreateWorker(t, h)
        \/ CreateApp(t)
        \/ \E app \in {1} \cup {a.id : a \in wkPg.workers} :
            \/ LookupRoute(t, app) \/ DeleteApp(t, app)
            \/ \E patch \in AppPatches : UpdateApp(t, app, patch)
            \/ \E split \in Splits : SetDeploymentTraffic(t, app, split)
            \/ \E binds \in {{}, {<<"KV", 1>>}} : CreateDeployment(t, app, binds)
            \/ PutSecret(t, app, "KV", 1) \/ DeleteSecret(t, app, "KV")
        \/ ReadRoute(t) \/ RuntimeDeploymentsForApp(t)
        \/ UpdateAppInvalidate(t) \/ CleanupDeployments(t) \/ DeleteAppInvalidate(t) \/ WriteRoutes(t)
        \/ TrafficInvalidate(t) \/ ValidatePreparedPublication(t) \/ WriteTraffic(t)
        \/ RestoreTraffic(t) \/ RestoredOnly(t) \/ RestoredInvalidate(t)
        \/ BuildDeployment(t) \/ RolloutSecretsIfActive(t) \/ CloneDeployment(t) \/ CloneFails(t)
        \/ PrepareFails(t) \/ PublishStoredArtifact(t) \/ PublishInvalidate(t) \/ CommitPublication(t)

---------------------------------------------------------------------------
WorkerBackendsAgree ==
    /\ wkAgreed
    /\ StoreListAppsByOrg(wkStore, "o") = PgListAppsByOrg(wkPg, "o")
    /\ StoreCountAppsByOrg(wkStore, "o") = PgCountAppsByOrg(wkPg, "o")
    /\ StoreActiveDeployments(wkStore) = PgActiveDeployments(wkPg, 0)
    /\ StoreListDeployments(wkStore) = PgListDeployments(wkPg)
    /\ \A app \in AppIDs :
        /\ StoreGetApp(wkStore, app) = PgGetApp(wkPg, app)
        /\ StoreListSecrets(wkStore, app) = PgListSecrets(wkPg, app)
        /\ StoreActiveDeploymentsForApp(wkStore, app) = PgActiveDeploymentsForApp(wkPg, app)
        /\ StoreAppIDForCapability(wkStore, <<"t", app>>) = PgAppIDForCapability(wkPg, <<"t", app>>)

(* Workers whose repository changed but whose cache entry is not yet       *)
(* dropped.                                                                *)
BeingChanged ==
    {job[t].app : t \in {u \in WorkerThreads : job[u].op \in
        {"patched", "deleted", "cleaned", "moved", "activated", "restored",
         "unmoved"}}}

(* What the gateway routes by is what the repository says: a cached entry, *)
(* except while the change that will drop it is under way, however lookups *)
(* and changes interleave; and the routes written for the runtime, whenever*)
(* no change is under way and the last write did not fail.  Every recorded *)
(* deployment has its bundle.                                              *)
RoutingCurrent ==
    /\ \A app \in DOMAIN runtimeDeployments \ BeingChanged :
          runtimeDeployments[app] = PgActiveDeploymentsForApp(wkPg, app)
    /\ configMu = {} /\ ~routesStale => routes = ActiveIn(wkPg)
    /\ \A r \in wkPg.deployments : r.object \in bundles

(* As long as a deployment stays active its secrets are those it became    *)
(* active with: a change of secrets reaches requests only through new      *)
(* deployments, also when rolling it out fails half way and when the       *)
(* deployment predates artifacts.                                          *)
ActiveSecretsStable ==
    \A id \in DOMAIN serving : EffectiveSecrets(id) = serving[id]
=============================================================================
