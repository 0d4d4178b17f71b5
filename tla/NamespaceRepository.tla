------------------------- MODULE NamespaceRepository -------------------------
(***************************************************************************)
(* The repository calls about dispatch namespaces, their scripts, managed  *)
(* script state and asset upload sessions, once for the store in memory    *)
(* and once for PostgreSQL.  Both have an optimistic revision on the       *)
(* policy of a namespace, on the management state of a script and on an    *)
(* upload session; the store checks by hand what the schema's foreign keys *)
(* and unique indexes check in PostgreSQL.                                 *)
(***************************************************************************)
EXTENDS IdentityRepository, Integers, Sequences

StoreNamespaces ==
    [dispatchNamespaces |-> None, namespacePolicies |-> None, apps |-> None, artifacts |-> None,
     management |-> None, assetUploads |-> None]

PgNamespaces ==
    [dispatch_namespaces |-> {}, dispatch_namespace_policies |-> {}, workers |-> {},
     deployment_artifacts |-> {}, worker_management |-> {}, asset_upload_sessions |-> {}]

(* A script has no namespace of its own: mode and kind decide whether it   *)
(* belongs to a customer.                                                  *)
ValidatePlatformMembership(a, ns) ==
    /\ ns # NotFound /\ ns.org = a.org
    /\ ns.mode = "organization" => a.customer = ""
    /\ ns.mode = "platform" /\ a.kind = "customer" => a.customer # ""
    /\ a.kind = "platform" => a.customer = ""

---------------------------------------------------------------------------
(* Namespaces and the history of their policies.                           *)

StoreCreateDispatchNamespace(db, ns) ==
    IF \E i \in DOMAIN db.dispatchNamespaces :
          LET n == db.dispatchNamespaces[i]
          IN  n.id = ns.id \/ (n.org = ns.org /\ n.name = ns.name)
    THEN Refused(db, "exists")
    ELSE Done([db EXCEPT !.dispatchNamespaces = Put(@, ns.id, ns),
                         !.namespacePolicies = Put(@, ns.id, <<ns.grants>>)])

PgCreateDispatchNamespace(db, ns) ==
    IF \E r \in db.dispatch_namespaces : r.id = ns.id \/ (r.org = ns.org /\ r.name = ns.name)
    THEN Refused(db, "exists")
    ELSE Done([db EXCEPT !.dispatch_namespaces = @ \cup {ns},
                         !.dispatch_namespace_policies =
                             @ \cup {[ns |-> ns.id, revision |-> 1, grants |-> ns.grants]}])

StoreGetDispatchNamespace(db, id) == At(db.dispatchNamespaces, id)
PgGetDispatchNamespace(db, id) == One({r \in db.dispatch_namespaces : r.id = id})

StoreListDispatchNamespaces(db, org) ==
    {n \in {db.dispatchNamespaces[i] : i \in DOMAIN db.dispatchNamespaces} : n.org = org}
PgListDispatchNamespaces(db, org) == {r \in db.dispatch_namespaces : r.org = org}

StoreRenameDispatchNamespace(db, id, name) ==
    IF id \notin DOMAIN db.dispatchNamespaces THEN Refused(db, "not found")
    ELSE IF \E i \in DOMAIN db.dispatchNamespaces \ {id} :
               /\ db.dispatchNamespaces[i].org = db.dispatchNamespaces[id].org
               /\ db.dispatchNamespaces[i].name = name THEN Refused(db, "exists")
    ELSE Done([db EXCEPT !.dispatchNamespaces[id].name = name])

PgRenameDispatchNamespace(db, id, name) ==
    LET old == {r \in db.dispatch_namespaces : r.id = id}
        new == {[r EXCEPT !.name = name] : r \in old}
    IN  IF \E r \in new, x \in db.dispatch_namespaces \ old : x.org = r.org /\ x.name = r.name
          THEN Refused(db, "exists")
        ELSE IF old = {} THEN Refused(db, "not found")
        ELSE Done([db EXCEPT !.dispatch_namespaces = Replace(@, old, new)])

(* The store leaves the upload sessions of a deleted namespace behind; the *)
(* foreign key of PostgreSQL takes them along.                             *)
StoreDeleteDispatchNamespace(db, id) ==
    IF id \notin DOMAIN db.dispatchNamespaces THEN Refused(db, "not found")
    ELSE IF \/ db.dispatchNamespaces[id].grants # {}
            \/ \E i \in DOMAIN db.apps : db.apps[i].ns = id THEN Refused(db, "in use")
    ELSE Done([db EXCEPT !.dispatchNamespaces = Drop(@, id),
                         !.namespacePolicies = Drop(@, id)])

PgDeleteDispatchNamespace(db, id) ==
    LET row == PgGetDispatchNamespace(db, id)
    IN  IF row = NotFound THEN Refused(db, "not found")
        ELSE IF row.grants # {} \/ (\E w \in db.workers : w.ns = id) THEN Refused(db, "in use")
        ELSE Done([db EXCEPT
                 !.dispatch_namespaces = @ \ {row},
                 !.dispatch_namespace_policies = {p \in @ : p.ns # id},
                 !.asset_upload_sessions = {s \in @ : s.ns # id}])

StoreSetNamespaceGrants(db, id, expected, grants) ==
    IF id \notin DOMAIN db.dispatchNamespaces THEN Refused(db, "not found")
    ELSE IF db.dispatchNamespaces[id].revision # expected THEN Refused(db, "conflict")
    ELSE Done([db EXCEPT !.dispatchNamespaces[id].revision = @ + 1,
                         !.dispatchNamespaces[id].grants = grants,
                         !.namespacePolicies[id] = Append(@, grants)])

PgSetNamespaceGrants(db, id, expected, grants) ==
    LET row == One({r \in db.dispatch_namespaces : r.id = id /\ r.revision = expected})
        new == [row EXCEPT !.revision = @ + 1, !.grants = grants]
    IN  IF PgGetDispatchNamespace(db, id) = NotFound THEN Refused(db, "not found")
        ELSE IF row = NotFound THEN Refused(db, "conflict")
        ELSE Done([db EXCEPT
                 !.dispatch_namespaces = Replace(@, {row}, {new}),
                 !.dispatch_namespace_policies =
                     @ \cup {[ns |-> id, revision |-> new.revision, grants |-> grants]}])

StoreNamespacePolicies(db, id) ==
    IF id \in DOMAIN db.namespacePolicies THEN db.namespacePolicies[id] ELSE <<>>
PgNamespacePolicies(db, id) ==
    LET rows == {p \in db.dispatch_namespace_policies : p.ns = id}
    IN  [n \in 1..Cardinality(rows) |-> (CHOOSE p \in rows : p.revision = n).grants]

---------------------------------------------------------------------------
(* Scripts: workers that belong to a namespace.                            *)

StoreCreateScript(db, a) ==
    IF ~ValidatePlatformMembership(a, At(db.dispatchNamespaces, a.ns))
      THEN Refused(db, "invalid membership")
    ELSE IF \E i \in DOMAIN db.apps : db.apps[i].ns = a.ns /\ db.apps[i].script = a.script
      THEN Refused(db, "exists")
    ELSE Done([db EXCEPT !.apps = Put(@, a.id, a)])

PgCreateScript(db, a) ==
    IF ~ValidatePlatformMembership(a, PgGetDispatchNamespace(db, a.ns))
      THEN Refused(db, "invalid membership")
    ELSE IF \E r \in db.workers : r.ns = a.ns /\ r.script = a.script THEN Refused(db, "exists")
    ELSE Done([db EXCEPT !.workers = @ \cup {a}])

(* What goes with deleted workers, by hand or by ON DELETE CASCADE.        *)
StoreWithoutWorkers(db, ids) ==
    LET left == {d \in DOMAIN db.artifacts : db.artifacts[d].worker \notin ids}
    IN  [db EXCEPT !.apps = [i \in DOMAIN @ \ ids |-> @[i]],
                   !.management = [i \in DOMAIN @ \ ids |-> @[i]],
                   !.artifacts = [d \in left |-> @[d]]]

PgWithoutWorkers(db, ids) ==
    [db EXCEPT !.workers = {r \in @ : r.id \notin ids},
               !.worker_management = {r \in @ : r.worker \notin ids},
               !.deployment_artifacts = {r \in @ : r.worker \notin ids}]

StoreDeleteNamespaceScripts(db, org, ns, ids) ==
    IF At(db.dispatchNamespaces, ns) = NotFound \/ At(db.dispatchNamespaces, ns).org # org
      THEN Refused(db, "not found")
    ELSE IF \E i \in ids : \/ i \notin DOMAIN db.apps
                           \/ db.apps[i].org # org \/ db.apps[i].ns # ns
                           \/ db.apps[i].kind # "customer" THEN Refused(db, "conflict")
    ELSE Done(StoreWithoutWorkers(db, ids))

PgDeleteNamespaceScripts(db, org, ns, ids) ==
    LET rows == {r \in db.workers : r.id \in ids /\ r.org = org /\ r.ns = ns /\ r.kind = "customer"}
    IN  IF ~\E r \in db.dispatch_namespaces : r.id = ns /\ r.org = org THEN Refused(db, "not found")
        ELSE IF Cardinality(rows) # Cardinality(ids) THEN Refused(db, "conflict")
        ELSE Done(PgWithoutWorkers(db, ids))

---------------------------------------------------------------------------
(* Managed scripts: frozen artifacts, and which of them is the latest.     *)

StorePutDeploymentArtifact(db, a) ==
    IF a.worker \notin DOMAIN db.apps THEN Refused(db, "not found")
    ELSE IF a.id \in DOMAIN db.artifacts
      THEN IF db.artifacts[a.id] = a THEN Done(db) ELSE Refused(db, "conflict")
    ELSE Done([db EXCEPT !.artifacts = Put(@, a.id, a)])

PgPutDeploymentArtifact(db, a) ==
    LET prior == One({r \in db.deployment_artifacts : r.id = a.id})
    IN  IF prior # NotFound
          THEN IF prior = a THEN Done(db) ELSE Refused(db, "conflict")
        ELSE IF ~\E w \in db.workers : w.id = a.worker THEN Refused(db, "not found")
        ELSE Done([db EXCEPT !.deployment_artifacts = @ \cup {a}])

StoreGetDeploymentArtifact(db, worker, id) ==
    IF id \in DOMAIN db.artifacts /\ db.artifacts[id].worker = worker THEN db.artifacts[id]
    ELSE NotFound
PgGetDeploymentArtifact(db, worker, id) ==
    One({r \in db.deployment_artifacts : r.worker = worker /\ r.id = id})

StoreGetScriptManagementState(db, worker) == At(db.management, worker)
PgGetScriptManagementState(db, worker) == One({r \in db.worker_management : r.worker = worker})

StoreCommitScriptManagementState(db, state, expected) ==
    LET current == IF state.worker \in DOMAIN db.management
                   THEN db.management[state.worker].revision ELSE 0
    IN  IF state.worker \notin DOMAIN db.apps THEN Refused(db, "worker not found")
        ELSE IF StoreGetDeploymentArtifact(db, state.worker, state.deployment) = NotFound
          THEN Refused(db, "artifact not found")
        ELSE IF expected < 0 \/ current # expected \/ state.revision # expected + 1
          THEN Refused(db, "conflict")
        ELSE Done([db EXCEPT !.management = Put(@, state.worker, state)])

\* Mutant: ON CONFLICT DO UPDATE without its WHERE.
PgCommitStateAnyway(db, state, expected) ==
    IF ~\E w \in db.workers : w.id = state.worker THEN Refused(db, "conflict")
    ELSE Done([db EXCEPT !.worker_management =
                   {r \in @ : r.worker # state.worker} \cup {state}])

(* INSERT ... SELECT of the worker's row with its artifact, ON CONFLICT    *)
(* DO UPDATE where the revision is the expected one.                       *)
PgCommitScriptManagementState(db, state, expected) ==
    LET prior == PgGetScriptManagementState(db, state.worker)
    IN  IF /\ expected >= 0 /\ state.revision = expected + 1
           /\ \E w \in db.workers : w.id = state.worker
           /\ PgGetDeploymentArtifact(db, state.worker, state.deployment) # NotFound
           /\ IF prior = NotFound THEN expected = 0 ELSE prior.revision = expected
        THEN Done([db EXCEPT !.worker_management = Replace(@, {prior}, {state})])
        ELSE Refused(db, "conflict")

---------------------------------------------------------------------------
(* Asset upload sessions.                                                  *)

StoreGetAssetUploadSession(db, id) == At(db.assetUploads, id)
PgGetAssetUploadSession(db, id) == One({r \in db.asset_upload_sessions : r.id = id})

StoreSaveAssetUploadSession(db, s, expected) ==
    LET old == At(db.assetUploads, s.id)
    IN  IF \/ s.revision # expected + 1
           \/ IF old = NotFound THEN expected # 0
              ELSE old.revision # expected \/ old.org # s.org \/ old.ns # s.ns
          THEN Refused(db, "conflict")
        ELSE IF At(db.dispatchNamespaces, s.ns) = NotFound \/ db.dispatchNamespaces[s.ns].org # s.org
          THEN Refused(db, "not found")
        ELSE Done([db EXCEPT !.assetUploads = Put(@, s.id, s)])

PgSaveAssetUploadSession(db, s, expected) ==
    LET old == PgGetAssetUploadSession(db, s.id)
    IN  IF /\ s.revision = expected + 1
           /\ IF old = NotFound THEN expected = 0
              ELSE old.revision = expected /\ old.org = s.org /\ old.ns = s.ns
           /\ \E n \in db.dispatch_namespaces : n.id = s.ns /\ n.org = s.org
        THEN Done([db EXCEPT !.asset_upload_sessions = Replace(@, {old}, {s})])
        ELSE Refused(db, "conflict")

StoreCountAssetUploadSessions(db, org, now) ==
    Cardinality({i \in DOMAIN db.assetUploads :
                    LET s == db.assetUploads[i]
                    IN  s.expires > now /\ s.ns \in DOMAIN db.dispatchNamespaces /\ s.org = org})
PgCountAssetUploadSessions(db, org, now) ==
    Cardinality({s \in db.asset_upload_sessions : s.org = org /\ s.expires > now})

(* A batch is larger than any instance, so one call takes every row.       *)
StorePruneAssetUploadSessions(db, now) ==
    LET left == {i \in DOMAIN db.assetUploads :
                    /\ db.assetUploads[i].expires > now
                    /\ db.assetUploads[i].ns \in DOMAIN db.dispatchNamespaces}
    IN  Done([db EXCEPT !.assetUploads = [i \in left |-> @[i]]])
PgPruneAssetUploadSessions(db, now) ==
    Done([db EXCEPT !.asset_upload_sessions = {s \in @ : s.expires > now}])

---------------------------------------------------------------------------
(* The two hold the same: every query answers alike.  A session counts     *)
(* while it is unexpired and its namespace is there.                       *)
SameNamespaces(store, pg, ids, orgs, now) ==
    /\ \A o \in orgs : /\ StoreListDispatchNamespaces(store, o) = PgListDispatchNamespaces(pg, o)
                       /\ StoreCountAssetUploadSessions(store, o, now)
                          = PgCountAssetUploadSessions(pg, o, now)
    /\ {store.apps[i] : i \in DOMAIN store.apps} = pg.workers
    /\ \A i \in ids :
        /\ StoreNamespacePolicies(store, i) = PgNamespacePolicies(pg, i)
        /\ StoreGetScriptManagementState(store, i) = PgGetScriptManagementState(pg, i)
        /\ \A w \in ids : StoreGetDeploymentArtifact(store, w, i) = PgGetDeploymentArtifact(pg, w, i)
        /\ LET s == StoreGetAssetUploadSession(store, i)
           IN  s # NotFound /\ StoreGetDispatchNamespace(store, s.ns) # NotFound
               => s = PgGetAssetUploadSession(pg, i)
=============================================================================
