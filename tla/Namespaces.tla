----------------------------- MODULE Namespaces -----------------------------
(***************************************************************************)
(* Dispatch namespaces, their policies and scripts; managed scripts, whose *)
(* metadata is edited from snapshots read without a lock; and asset upload *)
(* sessions.  Publications hold the repository's deployment guard, which   *)
(* several service processes share; namespace and policy changes and the   *)
(* creation of scripts do not.  A process can stop anywhere: the guard is  *)
(* then free and what was saved stays.  How a stored artifact becomes      *)
(* traffic is the subject of Publication: here it succeeds or fails.       *)
(*                                                                         *)
(* Metadata is what managed edits change: tags, secrets and files.         *)
(***************************************************************************)
EXTENDS NamespaceRepository

CONSTANTS NsThreads,
          ScriptLimit,       \* scripts an organization may have
          SessionLimit,      \* MaxAssetUploadSessions
          SessionTime,       \* how long an upload session lasts
          MaxNsRequests, MaxNsCrashes, MaxNsClock

ASSUME NamespacesAssumption ==
    {ScriptLimit, SessionLimit, SessionTime, MaxNsRequests, MaxNsCrashes, MaxNsClock} \subseteq Nat

VARIABLES nsStore, nsPg, nsAgreed,       \* the two repositories; same answers so far
          nsRequest, nsRequestsLeft, nsCrashesLeft, nsClock,
          deploymentGuard,               \* the thread that holds LockDeploymentUpdates, as a set
          publications,                  \* <<worker, key>> -> publication
          activated,                     \* history: deployments that were made active
          uploadTokens,                  \* signed tokens handed out
          intended,                      \* history: what the accepted edits add up to
          deployedAssets                 \* history: <<session, worker>> of stored artifacts

nsRepositories == <<nsStore, nsPg, nsAgreed>>
nsBudget == <<nsRequestsLeft, nsCrashesLeft, nsClock>>
namespacesVars == <<nsRepositories, nsRequest, nsBudget, deploymentGuard, publications, activated,
                    uploadTokens, intended, deployedAssets>>

Tags == {"x", "y"}
Ids == 1..MaxNsRequests + 2
Fresh == MaxNsRequests - nsRequestsLeft + 3   \* an id no request has used
NoRequest == [op |-> "idle"]
Has(t, op) == nsRequest[t].op = op
Goes(t, r) == nsRequest' = [nsRequest EXCEPT ![t] = r]
Enters(t, r) ==
    /\ Has(t, "idle") /\ nsRequestsLeft > 0 /\ nsRequestsLeft' = nsRequestsLeft - 1
    /\ Goes(t, r) /\ UNCHANGED <<nsCrashesLeft, nsClock>>
Writes(s, p) ==
    /\ nsStore' = s.db /\ nsPg' = p.db
    /\ nsAgreed' = (nsAgreed /\ (s.out = "ok") = (p.out = "ok"))
Locks(t) == deploymentGuard = {} /\ deploymentGuard' = {t}
Unlocks == deploymentGuard' = {}
Unlocked == deploymentGuard = {} /\ UNCHANGED deploymentGuard

DispatchNamespaceForOrg(org, ns) ==
    LET n == PgGetDispatchNamespace(nsPg, ns)
    IN  IF n # NotFound /\ n.org = org THEN n ELSE NotFound
NamespaceScripts(org, ns) ==
    IF DispatchNamespaceForOrg(org, ns) = NotFound THEN {}
    ELSE {w \in nsPg.workers : w.org = org /\ w.ns = ns}
NamespaceScript(org, ns, name) == One({w \in NamespaceScripts(org, ns) : w.script = name})
LatestState(w) == PgGetScriptManagementState(nsPg, w)

---------------------------------------------------------------------------
(* Namespaces and policies.  A client edits the grants it read.            *)

ResourceOwners == [k |-> "o", l |-> "o", m |-> "p"]
ResourceOwnedByOrg(org, r) == ResourceOwners[r] = org

CreateDispatchNamespace(org, name, mode) ==
    LET ns == [id |-> Fresh, org |-> org, name |-> name, mode |-> mode, revision |-> 1,
               grants |-> {}]
    IN  /\ nsRequestsLeft > 0 /\ nsRequestsLeft' = nsRequestsLeft - 1
        /\ Writes(StoreCreateDispatchNamespace(nsStore, ns), PgCreateDispatchNamespace(nsPg, ns))
        /\ UNCHANGED <<nsRequest, nsCrashesLeft, nsClock, deploymentGuard, publications, activated,
                       uploadTokens, intended, deployedAssets>>

RenameDispatchNamespace(org, ns, name) ==
    /\ nsRequestsLeft > 0 /\ nsRequestsLeft' = nsRequestsLeft - 1
    /\ DispatchNamespaceForOrg(org, ns) # NotFound
    /\ Writes(StoreRenameDispatchNamespace(nsStore, ns, name),
              PgRenameDispatchNamespace(nsPg, ns, name))
    /\ UNCHANGED <<nsRequest, nsCrashesLeft, nsClock, deploymentGuard, publications, activated,
                   uploadTokens, intended, deployedAssets>>

DeleteDispatchNamespace(org, ns) ==
    /\ nsRequestsLeft > 0 /\ nsRequestsLeft' = nsRequestsLeft - 1
    /\ DispatchNamespaceForOrg(org, ns) # NotFound
    /\ Writes(StoreDeleteDispatchNamespace(nsStore, ns), PgDeleteDispatchNamespace(nsPg, ns))
    /\ UNCHANGED <<nsRequest, nsCrashesLeft, nsClock, deploymentGuard, publications, activated,
                   uploadTokens, intended, deployedAssets>>

Toggled(set, e) == IF e \in set THEN set \ {e} ELSE set \cup {e}

GetDispatchNamespace(t, org, ns) ==
    LET n == DispatchNamespaceForOrg(org, ns)
    IN  /\ n # NotFound
        /\ \E r \in DOMAIN ResourceOwners :
              Enters(t, [op |-> "grants", org |-> org, ns |-> ns, revision |-> n.revision,
                         resource |-> r, grants |-> Toggled(n.grants, r)])
        /\ UNCHANGED <<nsRepositories, deploymentGuard, publications, activated, uploadTokens,
                       intended, deployedAssets>>

(* Of the namespace only fields that never change are read before the      *)
(* conditional update.                                                     *)
SetNamespaceGrants(t) ==
    LET r == nsRequest[t]
        p == PgSetNamespaceGrants(nsPg, r.ns, r.revision, r.grants)
        allowed == /\ DispatchNamespaceForOrg(r.org, r.ns) # NotFound
                   /\ \A g \in r.grants : ResourceOwnedByOrg(r.org, g)
    IN  /\ Has(t, "grants") /\ Goes(t, NoRequest)
        /\ IF allowed
           THEN /\ Writes(StoreSetNamespaceGrants(nsStore, r.ns, r.revision, r.grants), p)
                /\ intended' = IF p.out # "ok" THEN intended
                               ELSE [intended EXCEPT !.grants[r.ns] = Toggled(@, r.resource)]
           ELSE UNCHANGED <<nsRepositories, intended>>
        /\ UNCHANGED <<nsBudget, deploymentGuard, publications, activated, uploadTokens,
                       deployedAssets>>

---------------------------------------------------------------------------
(* Scripts.                                                                *)

(* What CreateNamespaceScript checks before it creates the worker.         *)
ScriptAllowed(org, ns, kind, customer) ==
    LET n == DispatchNamespaceForOrg(org, ns)
    IN  /\ n # NotFound
        /\ n.mode = "organization" => customer = ""
        /\ n.mode = "platform" /\ kind = "customer" => customer # ""
        /\ kind = "platform" => customer = ""
        /\ Cardinality({w \in nsPg.workers : w.org = org}) < ScriptLimit

RequestScript(t, org, ns, kind, customer) ==
    /\ ScriptAllowed(org, ns, kind, customer)
    /\ Enters(t, [op |-> "create script", then |-> NoRequest,
                  app |-> [id |-> Fresh, org |-> org, ns |-> ns, script |-> "s", kind |-> kind,
                           customer |-> customer]])
    /\ UNCHANGED <<nsRepositories, deploymentGuard, publications, activated, uploadTokens,
                   intended, deployedAssets>>

CreateNamespaceScript(t) ==
    LET r == nsRequest[t]
        p == PgCreateScript(nsPg, r.app)
    IN  /\ Has(t, "create script")
        /\ Writes(StoreCreateScript(nsStore, r.app), p)
        /\ Goes(t, IF p.out = "ok" THEN r.then ELSE NoRequest)
        /\ UNCHANGED <<nsBudget, deploymentGuard, publications, activated, uploadTokens, intended,
                       deployedAssets>>

DropPublications(ids) ==
    publications' = [k \in {x \in DOMAIN publications : x[1] \notin ids} |-> publications[k]]

(* The script is found by name, then deleted by id under the guard.        *)
FindScript(t, org, ns) ==
    LET w == NamespaceScript(org, ns, "s")
    IN  /\ w # NotFound /\ Enters(t, [op |-> "delete script", app |-> w])
        /\ UNCHANGED <<nsRepositories, deploymentGuard, publications, activated, uploadTokens,
                       intended, deployedAssets>>
DeleteNamespaceScript(t) ==
    LET w == nsRequest[t].app.id
    IN  /\ Has(t, "delete script") /\ Unlocked /\ Goes(t, NoRequest)
        /\ IF \E r \in nsPg.workers : r.id = w
           THEN /\ Writes(Done(StoreWithoutWorkers(nsStore, {w})),
                          Done(PgWithoutWorkers(nsPg, {w})))
                /\ DropPublications({w})
           ELSE UNCHANGED <<nsRepositories, publications>>
        /\ UNCHANGED <<nsBudget, activated, uploadTokens, intended, deployedAssets>>

(* Selected by the tags of the latest upload, all deleted or none.         *)
DeleteNamespaceScriptsByTag(t, org, ns, tag, present) ==
    LET customers == {w \in NamespaceScripts(org, ns) : w.kind = "customer"}
        tags(w) == IF LatestState(w.id) = NotFound THEN {} ELSE LatestState(w.id).metadata.tags
        ids == {w.id : w \in {c \in customers : (tag \in tags(c)) = present}}
    IN  /\ Enters(t, NoRequest) /\ Unlocked
        /\ Writes(StoreDeleteNamespaceScripts(nsStore, org, ns, ids),
                  PgDeleteNamespaceScripts(nsPg, org, ns, ids))
        /\ DropPublications(ids)
        /\ UNCHANGED <<activated, uploadTokens, intended, deployedAssets>>

---------------------------------------------------------------------------
(* Managed scripts.  An edit of the Cloudflare-compatible API changes part *)
(* of the metadata in a snapshot; a full upload replaces it.               *)

CONSTANT Edits               \* the edits clients make: a kind, and metadata as its argument

Blank == [tags |-> {}, secrets |-> {}, files |-> 0]
Edit(kind, arg) == [kind |-> kind, arg |-> arg]

CfSecretsBulk(m, put, del) == [m EXCEPT !.secrets = (@ \ del) \cup put]
CfContentPut(m, files) == [m EXCEPT !.files = files]
CfSecretsPut(m, names) == [m EXCEPT !.secrets = @ \cup names]
CfSecretsDelete(m, names) ==
    IF names \subseteq m.secrets THEN [m EXCEPT !.secrets = @ \ names] ELSE NotFound
CfTagsPut(m, tags) == [m EXCEPT !.tags = tags]
CfTagsItem(m, tag, put) == [m EXCEPT !.tags = IF put THEN @ \cup tag ELSE @ \ tag]

Edited(m, e) ==
    CASE e.kind = "secrets.bulk" -> CfSecretsBulk(m, e.arg.secrets, m.secrets \ e.arg.secrets)
      [] e.kind = "content.put" -> CfContentPut(m, e.arg.files)
      [] e.kind = "secrets.put" -> CfSecretsPut(m, e.arg.secrets)
      [] e.kind = "secrets.delete" -> CfSecretsDelete(m, e.arg.secrets)
      [] e.kind = "tags.put" -> CfTagsPut(m, e.arg.tags)
      [] e.kind = "tags.item put" -> CfTagsItem(m, e.arg.tags, TRUE)
      [] e.kind = "tags.item delete" -> CfTagsItem(m, e.arg.tags, FALSE)
      [] e.kind = "upload" -> e.arg
      [] e.kind = "vars" -> [m EXCEPT !.secrets = e.arg.secrets, !.files = e.arg.files]

(* The state commit of an artifact that carries one; committing the latest *)
(* again is accepted.                                                      *)
CommitManagedArtifact(w, d, ok) ==
    LET a == PgGetDeploymentArtifact(nsPg, w, d)
        state == LatestState(w)
        next == [worker |-> w, revision |-> a.expected + 1, deployment |-> d,
                 metadata |-> a.metadata]
        p == PgCommitScriptManagementState(nsPg, next, a.expected)
        already == state # NotFound /\ state.deployment = d /\ state.revision = a.expected + 1
    IN  IF a.expected < 0 \/ already
        THEN ok /\ UNCHANGED <<nsRepositories, intended>>
        ELSE /\ Writes(StoreCommitScriptManagementState(nsStore, next, a.expected), p)
             /\ ok = (p.out = "ok")
             /\ intended' = IF ~ok THEN intended
                            ELSE [intended EXCEPT !.metadata[w] =
                                     IF next.revision = 1 THEN a.metadata ELSE Edited(@, a.edit)]

Staged(k, stage) == publications' = [publications EXCEPT ![k].stage = stage]

(* What is left of publishing once the state is committed.                 *)
Published(k) ==
    \/ Staged(k, "route_published") /\ activated' = activated \cup {publications[k].deployment}
    \/ Staged(k, "failed") /\ UNCHANGED activated

ReplayPublication(k) ==
    LET p == publications[k]
    IN  CASE p.stage = "building" ->
               Staged(k, "failed") /\ UNCHANGED <<nsRepositories, intended, activated>>
          [] p.stage \in {"failed", "route_published", "superseded"} ->
               UNCHANGED <<publications, nsRepositories, intended, activated>>
          [] OTHER ->
               \/ CommitManagedArtifact(k[1], p.deployment, TRUE) /\ Published(k)
               \/ CommitManagedArtifact(k[1], p.deployment, FALSE) /\ Staged(k, "superseded")
                  /\ UNCHANGED activated

(* Replay under the guard of the request with this key, if there is one.   *)
Replayed(k, identity) ==
    /\ Unlocked
    /\ IF k \in DOMAIN publications /\ publications[k].identity = identity
       THEN ReplayPublication(k)
       ELSE UNCHANGED <<publications, nsRepositories, intended, activated>>

ReplayManagedRequest(t, w, key, e, token) ==
    LET k == <<w, key>>
    IN  /\ \E r \in nsPg.workers : r.id = w
        /\ Replayed(k, <<e, token>>)
        /\ Enters(t, IF k \in DOMAIN publications THEN NoRequest
                     ELSE [op |-> "snapshot", worker |-> w, key |-> key, edit |-> e,
                           token |-> token, id |-> Fresh])
        /\ UNCHANGED <<uploadTokens, deployedAssets>>

(* A request that failed looks once more for a publication of its own.     *)
ReplayOnce(t) ==
    LET r == nsRequest[t]
    IN  /\ Has(t, "retry") /\ Goes(t, NoRequest)
        /\ Replayed(<<r.worker, r.key>>, <<r.edit, r.token>>)
        /\ UNCHANGED <<nsBudget, uploadTokens, deployedAssets>>

---------------------------------------------------------------------------
(* Asset upload sessions and their tokens.  A token names its session, its *)
(* purpose and an expiry; files are the ones of the manifest.              *)

NoToken == [session |-> 0, purpose |-> "none", expires |-> 0]
TokenOf(s) ==
    [session |-> s.id, purpose |-> IF s.complete THEN "complete" ELSE "upload",
     expires |-> s.expires]

AssetUploadFromToken(token, purpose) ==
    LET s == PgGetAssetUploadSession(nsPg, token.session)
        app == NamespaceScript(s.org, s.ns, s.script)
    IN  IF /\ token.purpose = purpose /\ nsClock < token.expires
           /\ s # NotFound /\ s.expires > nsClock
           /\ DispatchNamespaceForOrg(s.org, s.ns) # NotFound
           /\ s.worker # 0 => app # NotFound /\ app.id = s.worker
           /\ app # NotFound => app.customer = s.customer /\ app.kind = "customer"
        THEN s ELSE NotFound

CompletedAssets(token, ns, script, customer) ==
    LET s == AssetUploadFromToken(token, "complete")
    IN  IF s # NotFound /\ s.complete /\ s.ns = ns /\ s.script = script /\ s.customer = customer
           /\ s.manifest \subseteq s.blobs
        THEN s ELSE NotFound

CreateAssetUpload(org, ns, customer, manifest) ==
    LET app == NamespaceScript(org, ns, "s")
        n == DispatchNamespaceForOrg(org, ns)
        s == [id |-> Fresh, org |-> org, ns |-> ns, script |-> "s",
              customer |-> IF app = NotFound THEN customer ELSE app.customer,
              worker |-> IF app = NotFound THEN 0 ELSE app.id, revision |-> 1,
              manifest |-> manifest, blobs |-> {}, complete |-> manifest = {},
              expires |-> nsClock + SessionTime]
        p == PgSaveAssetUploadSession(nsPg, s, 0)
    IN  /\ nsRequestsLeft > 0 /\ nsRequestsLeft' = nsRequestsLeft - 1 /\ Unlocked
        /\ n # NotFound
        /\ IF app # NotFound THEN app.kind = "customer" /\ customer \in {"", app.customer}
           ELSE (n.mode = "platform") = (customer # "")
        /\ PgCountAssetUploadSessions(nsPg, org, nsClock) < SessionLimit
        /\ Writes(StoreSaveAssetUploadSession(nsStore, s, 0), p)
        /\ uploadTokens' = IF p.out = "ok" THEN uploadTokens \cup {TokenOf(s)} ELSE uploadTokens
        /\ UNCHANGED <<nsRequest, nsCrashesLeft, nsClock, publications, activated, intended,
                       deployedAssets>>

UploadAssetFiles(token, files) ==
    LET s == AssetUploadFromToken(token, "upload")
        blobs == s.blobs \cup files
        done == s.manifest \subseteq blobs
        new == [s EXCEPT !.blobs = blobs, !.complete = done, !.revision = @ + 1,
                         !.expires = IF done THEN nsClock + SessionTime ELSE @]
        p == PgSaveAssetUploadSession(nsPg, new, s.revision)
    IN  /\ nsRequestsLeft > 0 /\ nsRequestsLeft' = nsRequestsLeft - 1 /\ Unlocked
        /\ s # NotFound /\ files # {} /\ files \subseteq s.manifest
        /\ IF s.complete THEN uploadTokens' = uploadTokens \cup {TokenOf(s)}
                              /\ UNCHANGED nsRepositories
           ELSE /\ Writes(StoreSaveAssetUploadSession(nsStore, new, s.revision), p)
                /\ uploadTokens' = uploadTokens \cup {TokenOf(new)}
        /\ UNCHANGED <<nsRequest, nsCrashesLeft, nsClock, publications, activated, intended,
                       deployedAssets>>

PruneExpiredAssetUploads ==
    /\ Writes(StorePruneAssetUploadSessions(nsStore, nsClock),
              PgPruneAssetUploadSessions(nsPg, nsClock))
    /\ UNCHANGED <<nsRequest, nsBudget, deploymentGuard, publications, activated, uploadTokens,
                   intended, deployedAssets>>

NsTick ==
    /\ nsClock < MaxNsClock /\ nsClock' = nsClock + 1
    /\ UNCHANGED <<nsRepositories, nsRequest, nsRequestsLeft, nsCrashesLeft, deploymentGuard,
                   publications, activated, uploadTokens, intended, deployedAssets>>

\* Mutant: the completion is not tied to the worker that used it.
LeftUnbound(s, w) == s
(* A completion belongs to the first worker that deploys it, for good.     *)
Bound(s, w) == IF s.worker = 0 THEN [s EXCEPT !.worker = w, !.revision = @ + 1] ELSE s

BindCompletedAssetUpload(w, token) ==
    LET app == One({r \in nsPg.workers : r.id = w})
        s == CompletedAssets(token, app.ns, app.script, app.customer)
        new == Bound(s, w)
    IN  /\ app.kind = "customer" /\ s # NotFound
        /\ IF new = s THEN UNCHANGED nsRepositories
           ELSE Writes(StoreSaveAssetUploadSession(nsStore, new, s.revision),
                       PgSaveAssetUploadSession(nsPg, new, s.revision))

---------------------------------------------------------------------------
(* The steps of a publication.                                             *)

Deploy(r, expected, base, m) ==
    [op |-> "managed deploy", worker |-> r.worker, key |-> r.key, edit |-> r.edit,
     token |-> r.token, id |-> r.id, expected |-> expected, base |-> base, metadata |-> m]
Retry(r) == [op |-> "retry", worker |-> r.worker, key |-> r.key, edit |-> r.edit,
             token |-> r.token]

(* The latest upload: the committed state, or the newest artifact of a     *)
(* worker that has none.                                                   *)
ManagementUpload(w) ==
    LET state == LatestState(w)
        mine == {a \in nsPg.deployment_artifacts : a.worker = w}
    IN  IF state # NotFound THEN [revision |-> state.revision, deployment |-> state.deployment,
                                  metadata |-> state.metadata]
        ELSE IF mine = {} THEN NotFound
        ELSE LET a == CHOOSE x \in mine : \A y \in mine : x.id >= y.id
             IN  [revision |-> 0, deployment |-> a.id, metadata |-> a.metadata]

ReadSnapshot(t) ==
    LET r == nsRequest[t]
        upload == ManagementUpload(r.worker)
        app == One({w \in nsPg.workers : w.id = r.worker})
        loaded == r.token = NoToken
                  \/ CompletedAssets(r.token, app.ns, app.script, app.customer) # NotFound
    IN  /\ Has(t, "snapshot")
        /\ Goes(t, IF app = NotFound THEN NoRequest
                   ELSE IF ~loaded THEN Retry(r)
                   ELSE IF r.edit.kind = "upload"
                     THEN IF upload = NotFound THEN Deploy(r, 0, 0, Edited(Blank, r.edit))
                          ELSE Deploy(r, upload.revision, upload.deployment,
                                      Edited(upload.metadata, r.edit))
                   ELSE IF upload = NotFound THEN NoRequest
                   ELSE IF Edited(upload.metadata, r.edit) = NotFound THEN Retry(r)
                   ELSE Deploy(r, upload.revision, upload.deployment,
                               Edited(upload.metadata, r.edit)))
        /\ UNCHANGED <<nsRepositories, nsBudget, deploymentGuard, publications, activated,
                       uploadTokens, intended, deployedAssets>>

(* An upload to a name that has no script yet: the assets are loaded, the  *)
(* script created, then the upload deployed.                               *)
UploadNewScript(t, org, ns, key, token) ==
    LET w == Fresh
        e == Edit("upload", Blank)
        r == [worker |-> w, key |-> key, edit |-> e, token |-> token, id |-> w]
    IN  /\ NamespaceScript(org, ns, "s") = NotFound
        /\ token = NoToken \/ CompletedAssets(token, ns, "s", "") # NotFound
        /\ ScriptAllowed(org, ns, "customer", "")
        /\ Enters(t, [op |-> "create script", then |-> Deploy(r, 0, 0, Edited(Blank, e)),
                      app |-> [id |-> w, org |-> org, ns |-> ns, script |-> "s",
                               kind |-> "customer", customer |-> ""]])
        /\ UNCHANGED <<nsRepositories, deploymentGuard, publications, activated, uploadTokens,
                       intended, deployedAssets>>

Build(r, expected, m) ==
    [op |-> "build", worker |-> r.worker, key |-> r.key, edit |-> r.edit, token |-> r.token,
     artifact |-> [id |-> r.id, worker |-> r.worker, expected |-> expected, metadata |-> m,
                   edit |-> r.edit]]
Building(r) ==
    publications' = Put(publications, <<r.worker, r.key>>,
                        [deployment |-> r.id, identity |-> <<r.edit, r.token>>,
                         stage |-> "building"])

DeployManagedPublication(t) ==
    LET r == nsRequest[t]
        k == <<r.worker, r.key>>
        state == LatestState(r.worker)
        current == IF state = NotFound THEN r.expected = 0
                   ELSE state.revision = r.expected /\ state.deployment = r.base
        app == One({w \in nsPg.workers : w.id = r.worker})
    IN  /\ Has(t, "managed deploy") /\ deploymentGuard = {}
        /\ \/ /\ app = NotFound /\ Goes(t, NoRequest)
              /\ UNCHANGED <<nsRepositories, publications, activated, intended, deploymentGuard>>
           \/ /\ app # NotFound /\ k \in DOMAIN publications
              /\ Replayed(k, <<r.edit, r.token>>) /\ Goes(t, NoRequest)
           \/ /\ app # NotFound /\ k \notin DOMAIN publications /\ current
              /\ IF r.token = NoToken THEN UNCHANGED nsRepositories
                 ELSE BindCompletedAssetUpload(r.worker, r.token)
              /\ Building(r) /\ Goes(t, Build(r, r.expected, r.metadata))
              /\ deploymentGuard' = {t} /\ UNCHANGED <<activated, intended>>
           \/ /\ app # NotFound /\ k \notin DOMAIN publications
              /\ \/ ~current
                 \/ r.token # NoToken
                    /\ CompletedAssets(r.token, app.ns, app.script, app.customer) = NotFound
              /\ Goes(t, Retry(r))
              /\ UNCHANGED <<nsRepositories, publications, activated, intended, deploymentGuard>>
        /\ UNCHANGED <<nsBudget, uploadTokens, deployedAssets>>

(* A deployment through the native API keeps tags and secrets of the       *)
(* latest upload, which it reads under the guard.                          *)
NativeDeploy(t, w) ==
    LET state == LatestState(w)
        e == Edit("content.put", CfContentPut(Blank, Fresh))
        r == [worker |-> w, key |-> <<"native", Fresh>>, edit |-> e, token |-> NoToken,
              id |-> Fresh]
    IN  /\ \E a \in nsPg.workers : a.id = w
        /\ Locks(t) /\ Building(r)
        /\ Enters(t, IF state = NotFound THEN Build(r, -1, CfContentPut(Blank, Fresh))
                     ELSE Build(r, state.revision, CfContentPut(state.metadata, Fresh)))
        /\ UNCHANGED <<nsRepositories, activated, uploadTokens, intended, deployedAssets>>

(* Artifact and deployment are stored, or one of them fails.               *)
StoreArtifact(t) ==
    LET r == nsRequest[t]
    IN  /\ Has(t, "build")
        /\ \/ /\ Writes(StorePutDeploymentArtifact(nsStore, r.artifact),
                        PgPutDeploymentArtifact(nsPg, r.artifact))
              /\ Goes(t, [r EXCEPT !.op = "save"])
              /\ deployedAssets' = IF r.token = NoToken THEN deployedAssets
                                   ELSE deployedAssets \cup {<<r.token.session, r.worker>>}
              /\ UNCHANGED <<deploymentGuard, publications>>
           \/ /\ Staged(<<r.worker, r.key>>, "failed") /\ Goes(t, Retry(r)) /\ Unlocks
              /\ UNCHANGED <<nsRepositories, deployedAssets>>
        /\ UNCHANGED <<nsBudget, activated, uploadTokens, intended>>

(* Then its publication is saved as stored, which can fail as well.        *)
SavePublication(t) ==
    LET r == nsRequest[t]
        k == <<r.worker, r.key>>
    IN  /\ Has(t, "save")
        /\ \/ /\ publications' = Put(publications, k,
                                     [deployment |-> r.artifact.id,
                                      identity |-> <<r.edit, r.token>>, stage |-> "stored"])
              /\ Goes(t, [r EXCEPT !.op = "publish"]) /\ UNCHANGED deploymentGuard
           \/ /\ IF k \in DOMAIN publications THEN Staged(k, "failed")
                                              ELSE UNCHANGED publications
              /\ Goes(t, Retry(r)) /\ Unlocks
        /\ UNCHANGED <<nsRepositories, nsBudget, activated, uploadTokens, intended,
                       deployedAssets>>

PublishStored(t) ==
    LET r == nsRequest[t]
        k == <<r.worker, r.key>>
    IN  /\ Has(t, "publish") /\ Unlocks
        /\ \/ CommitManagedArtifact(r.worker, r.artifact.id, TRUE) /\ Published(k)
              /\ Goes(t, IF publications'[k].stage = "failed" THEN Retry(r) ELSE NoRequest)
           \/ CommitManagedArtifact(r.worker, r.artifact.id, FALSE) /\ Goes(t, Retry(r))
              /\ UNCHANGED <<publications, activated>>
        /\ UNCHANGED <<nsBudget, uploadTokens, deployedAssets>>

(* A native secret change derives an artifact of the latest upload; its    *)
(* publication is saved once that is stored.                               *)
MutateManagedSecret(t, w, e) ==
    LET state == LatestState(w)
        m == Edited(state.metadata, e)
        r == [worker |-> w, key |-> <<"secret", Fresh>>, edit |-> e, token |-> NoToken,
              id |-> Fresh]
        b == Build(r, state.revision, m)
    IN  /\ state # NotFound /\ m # NotFound /\ Locks(t)
        /\ Writes(StorePutDeploymentArtifact(nsStore, b.artifact),
                  PgPutDeploymentArtifact(nsPg, b.artifact))
        /\ Enters(t, [b EXCEPT !.op = "save"])
        /\ UNCHANGED <<publications, activated, uploadTokens, intended, deployedAssets>>
(* A vars update derives from what is active, which a rollback may have    *)
(* made older than the latest upload; it keeps that upload's tags.         *)
FreezeArtifact(base, id) ==
    LET state == LatestState(base.worker)
        e == Edit("vars", base.metadata)
    IN  [id |-> id, worker |-> base.worker, edit |-> e,
         expected |-> IF state = NotFound THEN -1 ELSE state.revision,
         metadata |-> IF state = NotFound THEN base.metadata ELSE Edited(state.metadata, e)]
UpdateVars(t, d) ==
    LET base == One({a \in nsPg.deployment_artifacts : a.id = d})
        a == FreezeArtifact(base, Fresh)
    IN  /\ base # NotFound /\ Locks(t)
        /\ Writes(StorePutDeploymentArtifact(nsStore, a), PgPutDeploymentArtifact(nsPg, a))
        /\ activated' = activated \cup {a.id}
        /\ Enters(t, [op |-> "reconcile", deployment |-> a.id])
        /\ UNCHANGED <<publications, uploadTokens, intended, deployedAssets>>

(* A later upload is not overwritten by an older derived artifact.         *)
ReconcileDerivedManagement(d) ==
    LET a == One({x \in nsPg.deployment_artifacts : x.id = d})
        state == LatestState(a.worker)
    IN  IF a = NotFound \/ state = NotFound \/ a.expected < 0 \/ state.revision > a.expected
        THEN UNCHANGED <<nsRepositories, intended>>
        ELSE \E ok \in BOOLEAN : CommitManagedArtifact(a.worker, d, ok)
ReconcileVars(t) ==
    /\ Has(t, "reconcile") /\ Unlocks /\ Goes(t, NoRequest)
    /\ ReconcileDerivedManagement(nsRequest[t].deployment)
    /\ UNCHANGED <<nsBudget, publications, activated, uploadTokens, deployedAssets>>

(* Recovery, at start and when the runner asks for it.                     *)
RecoverActive(d) ==
    /\ Unlocked /\ ReconcileDerivedManagement(d)
    /\ UNCHANGED <<nsRequest, nsBudget, publications, activated, uploadTokens, deployedAssets>>
RecoverPublications(k) ==
    /\ Unlocked /\ ReplayPublication(k)
    /\ UNCHANGED <<nsRequest, nsBudget, uploadTokens, deployedAssets>>

StopProcess(t) ==
    /\ ~Has(t, "idle") /\ nsCrashesLeft > 0 /\ nsCrashesLeft' = nsCrashesLeft - 1
    /\ Goes(t, NoRequest) /\ deploymentGuard' = deploymentGuard \ {t}
    /\ UNCHANGED <<nsRepositories, nsRequestsLeft, nsClock, publications, activated, uploadTokens,
                   intended, deployedAssets>>

---------------------------------------------------------------------------
(* A namespace without scripts; with a script deployed through the native  *)
(* API; with one whose deployment is managed.                              *)

SeedNamespace ==
    [id |-> 1, org |-> "o", name |-> "n", mode |-> "organization", revision |-> 1, grants |-> {}]
SeedScript ==
    [id |-> 1, org |-> "o", ns |-> 1, script |-> "s", kind |-> "customer", customer |-> ""]
SeedMetadata == CfContentPut(Blank, 1)
SeedArtifact(expected) ==
    [id |-> 1, worker |-> 1, expected |-> expected, metadata |-> SeedMetadata,
     edit |-> Edit("content.put", SeedMetadata)]
SeedState == [worker |-> 1, revision |-> 1, deployment |-> 1, metadata |-> SeedMetadata]

NamespacesInit(n, seed) ==
    LET s == StoreCreateDispatchNamespace(StoreNamespaces, SeedNamespace).db
        p == PgCreateDispatchNamespace(PgNamespaces, SeedNamespace).db
        a == SeedArtifact(IF seed = "managed" THEN 0 ELSE -1)
        ss == StorePutDeploymentArtifact(StoreCreateScript(s, SeedScript).db, a).db
        ps == PgPutDeploymentArtifact(PgCreateScript(p, SeedScript).db, a).db
    IN  /\ nsStore = CASE seed = "empty" -> s
                       [] seed = "native" -> ss
                       [] seed = "managed" -> StoreCommitScriptManagementState(ss, SeedState, 0).db
        /\ nsPg = CASE seed = "empty" -> p
                    [] seed = "native" -> ps
                    [] seed = "managed" -> PgCommitScriptManagementState(ps, SeedState, 0).db
        /\ nsAgreed = TRUE
        /\ nsRequest = [t \in NsThreads |-> NoRequest]
        /\ nsRequestsLeft = n /\ nsCrashesLeft = MaxNsCrashes /\ nsClock = 0
        /\ deploymentGuard = {} /\ publications = None
        /\ activated = IF seed = "empty" THEN {} ELSE {1}
        /\ uploadTokens = {} /\ deployedAssets = {}
        /\ intended = [grants |-> [i \in Ids |-> {}],
                       metadata |-> [i \in Ids |-> IF seed = "managed" /\ i = 1 THEN SeedMetadata
                                                   ELSE Blank]]

PoliciesNext ==
    \/ \E org \in {"o", "p"}, name \in {"n", "m"}, mode \in {"organization", "platform"} :
          CreateDispatchNamespace(org, name, mode)
    \/ \E org \in {"o", "p"}, ns \in Ids :
          \/ \E name \in {"n", "m"} : RenameDispatchNamespace(org, ns, name)
          \/ DeleteDispatchNamespace(org, ns)
          \/ \E t \in NsThreads :
                \/ GetDispatchNamespace(t, org, ns) \/ FindScript(t, org, ns)
                \/ \E kind \in {"platform", "customer"}, customer \in {"", "c"} :
                      RequestScript(t, org, ns, kind, customer)
    \/ \E t \in NsThreads : SetNamespaceGrants(t) \/ CreateNamespaceScript(t)
                            \/ DeleteNamespaceScript(t)

PublicationSteps ==
    \/ \E t \in NsThreads :
          \/ ReadSnapshot(t) \/ DeployManagedPublication(t) \/ StoreArtifact(t)
          \/ SavePublication(t) \/ PublishStored(t) \/ ReplayOnce(t) \/ StopProcess(t)
    \/ \E k \in DOMAIN publications : RecoverPublications(k)

ManagedNext ==
    \/ PublicationSteps
    \/ \E t \in NsThreads :
          \/ \E e \in Edits, key \in {<<"key", 0>>, <<"key", Fresh>>} :
                ReplayManagedRequest(t, 1, key, e, NoToken)
          \/ NativeDeploy(t, 1)
          \/ \E kind \in {"secrets.put", "secrets.delete"} :
                MutateManagedSecret(t, 1, Edit(kind, CfSecretsPut(Blank, {"q"})))
          \/ \E d \in activated : UpdateVars(t, d)
          \/ ReconcileVars(t)
          \/ \E tag \in Tags, present \in BOOLEAN :
                DeleteNamespaceScriptsByTag(t, "o", 1, tag, present)
    \/ \E d \in activated : RecoverActive(d)

AssetsNext ==
    \/ PublicationSteps
    \/ \E manifest \in SUBSET {"a", "b"} : CreateAssetUpload("o", 1, "", manifest)
    \/ \E token \in uploadTokens, files \in SUBSET {"a", "b"} : UploadAssetFiles(token, files)
    \/ \E t \in NsThreads, token \in uploadTokens :
          \/ UploadNewScript(t, "o", 1, <<"key", 0>>, token)
          \/ \E w \in nsPg.workers :
                ReplayManagedRequest(t, w.id, <<"key", 0>>, Edit("upload", Blank), token)
    \/ \E t \in NsThreads : FindScript(t, "o", 1) \/ DeleteNamespaceScript(t)
                            \/ CreateNamespaceScript(t)
    \/ DeleteDispatchNamespace("o", 1) \/ PruneExpiredAssetUploads \/ NsTick

---------------------------------------------------------------------------
(* Properties.                                                             *)

(* The repository in memory and PostgreSQL answer the calls of this module *)
(* alike, whatever the order of the requests (namespaces, policies,        *)
(* scripts, artifacts, management state, live upload sessions).            *)
NamespaceBackendsAgree ==
    nsAgreed /\ SameNamespaces(nsStore, nsPg, Ids, {"o", "p"}, nsClock)

(* No accepted change of a policy or of a managed script is lost: the      *)
(* grants of a namespace, and the metadata of the latest upload of a       *)
(* script, are what the accepted edits add up to, each made on top of the  *)
(* one before; neither a client that read an older revision nor a replay   *)
(* or recovery of a publication interrupted before a later one overwrites  *)
(* a newer change.                                                         *)
NoLostUpdate ==
    /\ \A n \in nsPg.dispatch_namespaces : n.grants = intended.grants[n.id]
    /\ \A s \in nsPg.worker_management : s.metadata = intended.metadata[s.worker]

(* The files of a completed asset upload are deployed to one worker only,  *)
(* also when that worker is deleted and another takes its name while the   *)
(* completion token is still good.                                         *)
AssetsBoundOnce ==
    \A x, y \in deployedAssets : x[1] = y[1] => x[2] = y[2]
=============================================================================
