---------------------------- MODULE Platform_proofs ----------------------------
(***************************************************************************)
(* Namespaces, managed scripts and asset uploads: that no accepted edit is *)
(* lost and that the files of an upload go to one worker.  Then workers:   *)
(* what the gateway and the runtime route by follows the repository, every *)
(* deployment has its bundle, and a change of secrets reaches no           *)
(* deployment that is active.                                              *)
(***************************************************************************)
EXTENDS MCPlatform, FiniteSetTheorems, TLAPS

\* Namespaces start with any number of requests and with one of the three seeds; each of
\* the three sets of actions of the module may act.
NamespacesStart == \E n \in 0..MaxNsRequests, seed \in {"empty", "native", "managed"} : NamespacesInit(n, seed)
NamespacesNext == PoliciesNext \/ ManagedNext \/ AssetsNext
NamespacesSpec == NamespacesStart /\ [][NamespacesNext]_namespacesVars

NsTables == {"dispatch_namespaces", "dispatch_namespace_policies", "workers",
             "deployment_artifacts", "worker_management", "asset_upload_sessions"}

\* The shape of requests, of the tables and of the histories.
NsTyped ==
    /\ nsRequest = [t \in NsThreads |-> nsRequest[t]]
    /\ \A t \in NsThreads : "op" \in DOMAIN nsRequest[t]
    /\ nsRequestsLeft \in 0..MaxNsRequests
    /\ DOMAIN nsPg = NsTables
    /\ DOMAIN intended = {"grants", "metadata"}
    /\ Ids \subseteq DOMAIN intended.grants /\ Ids \subseteq DOMAIN intended.metadata

\* Three kinds of request.
CreateOp == "create script"
DeployOp == "managed deploy"
DeleteOp == "delete script"
Creating(r) == r.op = CreateOp
Deploying(r) == r.op = DeployOp

-----------------------------------------------------------------------------
\* What a client that edits grants has read: the grants it means to write are those of the
\* namespace with its edit, unless the namespace has moved on to a later revision.
GrantsRead(db, r, fresh) ==
    /\ r.ns \in Int /\ r.ns < fresh /\ r.revision \in Nat
    /\ \A n \in db.dispatch_namespaces : n.id = r.ns =>
          /\ r.revision <= n.revision
          /\ r.revision = n.revision => r.grants = Toggled(n.grants, r.resource)
\* The grants of a namespace are the ones intended.
NamespaceRow(n, int, fresh) ==
    /\ {"id", "org", "name", "revision", "grants"} \subseteq DOMAIN n
    /\ n.id \in Ids /\ n.id < fresh /\ n.revision \in Nat
    /\ n.grants = int.grants[n.id]
GrantsHeld(db, int, req, fresh) ==
    /\ \A n \in db.dispatch_namespaces : NamespaceRow(n, int, fresh)
    /\ \A n, m \in db.dispatch_namespaces : n.id = m.id => n = m
    /\ \A i \in Ids : i >= fresh => int.grants[i] = {}
    /\ \A t \in NsThreads : req[t].op = "grants" => GrantsRead(db, req[t], fresh)
GrantsInv == GrantsHeld(nsPg, intended, nsRequest, Fresh)

-----------------------------------------------------------------------------
\* The id of a worker that exists or existed: no request creates it again.
Born(w, req, fresh) ==
    /\ w \in Int /\ 1 <= w /\ w < fresh
    /\ \A u \in NsThreads : Creating(req[u]) => req[u].app.id # w
\* The metadata of an artifact is an edit of the state at the revision it expects, or that
\* state has been replaced since.
Derived(db, a) ==
    /\ a.expected \in Int
    /\ a.expected >= 1 =>
          \E s \in db.worker_management :
             /\ s.worker = a.worker /\ a.expected <= s.revision
             /\ s.revision = a.expected => a.metadata = Edited(s.metadata, a.edit)
\* The same of one that is not stored yet, while its worker is there.
Pending(db, a, req, fresh) ==
    /\ a.expected \in Int
    /\ a.expected >= 1 =>
          /\ Born(a.worker, req, fresh)
          /\ (\E w \in db.workers : w.id = a.worker) => Derived(db, a)
\* A request for a script has an id of its own; the deployment that follows starts from
\* nothing.
CreatingOK(r, fresh) ==
    /\ "id" \in DOMAIN r.app /\ r.app.id \in Int /\ 1 <= r.app.id /\ r.app.id < fresh
    /\ "op" \in DOMAIN r.then
    /\ \/ r.then.op = "idle"
       \/ Deploying(r.then) /\ r.then.expected = 0
\* Workers have one row each, and one name in their namespace.
WorkersHeld(db, req, fresh) ==
    /\ \A w \in db.workers : "id" \in DOMAIN w /\ Born(w.id, req, fresh)
    /\ \A v, w \in db.workers : v.id = w.id => v = w
    /\ \A v, w \in db.workers : v.ns = w.ns /\ v.script = w.script => v = w
    /\ \A t \in NsThreads : Creating(req[t]) => CreatingOK(req[t], fresh)
    /\ \A t, u \in NsThreads :
          Creating(req[t]) /\ Creating(req[u])
          /\ req[t].app.id = req[u].app.id => t = u
\* States have one row each and hold the metadata that was intended.
StatesHeld(db, int) ==
    /\ \A s \in db.worker_management :
          /\ "worker" \in DOMAIN s /\ s.worker \in Ids /\ s.revision \in Nat /\ s.revision >= 1
          /\ s.metadata = int.metadata[s.worker]
    /\ \A r, s \in db.worker_management : r.worker = s.worker => r = s
    /\ \A a \in db.deployment_artifacts : Derived(db, a)
PendingHeld(db, req, fresh) ==
    \A t \in NsThreads :
       /\ Deploying(req[t]) => Pending(db, req[t], req, fresh)
       /\ req[t].op = "build" => Pending(db, req[t].artifact, req, fresh)
EditsInv == /\ WorkersHeld(nsPg, nsRequest, Fresh) /\ StatesHeld(nsPg, intended)
            /\ PendingHeld(nsPg, nsRequest, Fresh)

-----------------------------------------------------------------------------
\* A stored artifact, or one being built, has used a completed upload for a worker.
Claimed(req, deployed, session, w) ==
    \/ <<session, w>> \in deployed
    \/ \E t \in NsThreads :
          /\ req[t].op = "build" /\ req[t].token # NoToken
          /\ req[t].token.session = session /\ req[t].worker = w
\* A row of an upload session.
SessionRow(s, fresh) ==
    /\ {"id", "org", "ns", "worker", "revision"} \subseteq DOMAIN s
    /\ s.id \in Int /\ s.id < fresh
SessionsHeld(sessions, fresh) ==
    /\ \A s \in sessions : SessionRow(s, fresh)
    /\ \A r, s \in sessions : r.id = s.id => r = s
\* A completion that is claimed is bound, if its session is still there.
ClaimHeld(sessions, i, w, fresh) ==
    /\ i \in Int /\ i < fresh /\ w # 0
    /\ \A s \in sessions : s.id = i => s.worker = w
ClaimsHeld(sessions, req, deployed, fresh) ==
    /\ \A i, w : Claimed(req, deployed, i, w) => ClaimHeld(sessions, i, w, fresh)
    /\ \A i, v, w : Claimed(req, deployed, i, v) /\ Claimed(req, deployed, i, w) => v = w
AssetsInv ==
    /\ SessionsHeld(nsPg.asset_upload_sessions, Fresh)
    /\ ClaimsHeld(nsPg.asset_upload_sessions, nsRequest, deployedAssets, Fresh)
    /\ \A x \in deployedAssets : x = <<x[1], x[2]>>
NsInv == NsTyped /\ GrantsInv /\ EditsInv /\ AssetsInv

-----------------------------------------------------------------------------
\* What a call on the repository leaves alone.
NsKeeps(db, new, tables) == DOMAIN new = NsTables /\ \A f \in NsTables \ tables : new[f] = db[f]

\* Every call changes its own tables only, and creates or drops none.
LEMMA NsCallsKeep ==
    ASSUME NEW db, DOMAIN db = NsTables
    PROVE  /\ \A n : NsKeeps(db, PgCreateDispatchNamespace(db, n).db,
                           {"dispatch_namespaces", "dispatch_namespace_policies"})
           /\ \A i, name : NsKeeps(db, PgRenameDispatchNamespace(db, i, name).db, {"dispatch_namespaces"})
           /\ \A i : NsKeeps(db, PgDeleteDispatchNamespace(db, i).db,
                           {"dispatch_namespaces", "dispatch_namespace_policies",
                            "asset_upload_sessions"})
           /\ \A i, x, g : NsKeeps(db, PgSetNamespaceGrants(db, i, x, g).db,
                           {"dispatch_namespaces", "dispatch_namespace_policies"})
           /\ \A a : NsKeeps(db, PgCreateScript(db, a).db, {"workers"})
           /\ \A ids : NsKeeps(db, PgWithoutWorkers(db, ids),
                           {"workers", "worker_management", "deployment_artifacts"})
           /\ \A o, n, ids : NsKeeps(db, PgDeleteNamespaceScripts(db, o, n, ids).db,
                           {"workers", "worker_management", "deployment_artifacts"})
           /\ \A a : NsKeeps(db, PgPutDeploymentArtifact(db, a).db, {"deployment_artifacts"})
           /\ \A s, x : NsKeeps(db, PgCommitScriptManagementState(db, s, x).db, {"worker_management"})
           /\ \A s, x : NsKeeps(db, PgSaveAssetUploadSession(db, s, x).db, {"asset_upload_sessions"})
           /\ \A now : NsKeeps(db, PgPruneAssetUploadSessions(db, now).db, {"asset_upload_sessions"})
<1> USE DEF NsKeeps, NsTables, Refused, Done
<1>1. \A n : NsKeeps(db, PgCreateDispatchNamespace(db, n).db,
                   {"dispatch_namespaces", "dispatch_namespace_policies"})
    BY DEF PgCreateDispatchNamespace
<1>2. \A i, name : NsKeeps(db, PgRenameDispatchNamespace(db, i, name).db, {"dispatch_namespaces"})
    BY DEF PgRenameDispatchNamespace
<1>3. \A i : NsKeeps(db, PgDeleteDispatchNamespace(db, i).db,
                   {"dispatch_namespaces", "dispatch_namespace_policies", "asset_upload_sessions"})
    BY DEF PgDeleteDispatchNamespace
<1>4. \A i, x, g : NsKeeps(db, PgSetNamespaceGrants(db, i, x, g).db,
                   {"dispatch_namespaces", "dispatch_namespace_policies"})
    <2> SUFFICES ASSUME NEW i, NEW x, NEW g
                 PROVE  NsKeeps(db, PgSetNamespaceGrants(db, i, x, g).db,
                                {"dispatch_namespaces", "dispatch_namespace_policies"})
        OBVIOUS
    <2> DEFINE row == One({r \in db.dispatch_namespaces : r.id = i /\ r.revision = x})
               new == [row EXCEPT !.revision = @ + 1, !.grants = g]
               p == {[ns |-> i, revision |-> new.revision, grants |-> g]}
               to == [db EXCEPT !.dispatch_namespaces = Replace(@, {row}, {new}),
                                !.dispatch_namespace_policies = @ \cup p]
    <2>1. NsKeeps(db, to, {"dispatch_namespaces", "dispatch_namespace_policies"}) OBVIOUS
    <2>2. PgSetNamespaceGrants(db, i, x, g).db \in {db, to} BY DEF PgSetNamespaceGrants
    <2> HIDE DEF to
    <2> QED BY <2>1, <2>2
<1>5. \A a : NsKeeps(db, PgCreateScript(db, a).db, {"workers"})
    BY DEF PgCreateScript
<1>6. \A ids : NsKeeps(db, PgWithoutWorkers(db, ids),
                   {"workers", "worker_management", "deployment_artifacts"})
    BY DEF PgWithoutWorkers
<1>7. \A o, n, ids : NsKeeps(db, PgDeleteNamespaceScripts(db, o, n, ids).db,
                   {"workers", "worker_management", "deployment_artifacts"})
    BY <1>6 DEF PgDeleteNamespaceScripts
<1>8. \A a : NsKeeps(db, PgPutDeploymentArtifact(db, a).db, {"deployment_artifacts"})
    BY DEF PgPutDeploymentArtifact
<1>9. \A s, x : NsKeeps(db, PgCommitScriptManagementState(db, s, x).db, {"worker_management"})
    BY DEF PgCommitScriptManagementState
<1>10. \A s, x : NsKeeps(db, PgSaveAssetUploadSession(db, s, x).db, {"asset_upload_sessions"})
    BY DEF PgSaveAssetUploadSession
<1>11. \A now : NsKeeps(db, PgPruneAssetUploadSessions(db, now).db, {"asset_upload_sessions"})
    BY DEF PgPruneAssetUploadSessions
<1> QED BY <1>1, <1>2, <1>3, <1>4, <1>5, <1>6, <1>7, <1>8, <1>9, <1>10, <1>11

\* What a query by key finds.
LEMMA OneFound ==
    ASSUME NEW rows
    PROVE  /\ rows = {} => One(rows) = NotFound
           /\ rows # {} => One(rows) \in rows
BY DEF One

\* The answer of a call that is accepted,
LEMMA Accepted == \A db : Done(db).db = db /\ Done(db).out = "ok"
BY DEF Done

\* and of one that is refused, whatever the reason: nothing is changed then.
LEMMA Denied == \A db, why : Refused(db, why).db = db /\ Refused(db, why).out = why
BY DEF Refused

\* A row is not the answer of a query that finds none.
LEMMA RowFound ==
    ASSUME NEW r, "id" \in DOMAIN r \/ "worker" \in DOMAIN r
    PROVE  r # NotFound
BY DEF NotFound

-----------------------------------------------------------------------------
(* What steps do to requests.                                              *)

\* One thread's request becomes r.
Turns(req, new, t, r) == t \in NsThreads /\ "op" \in DOMAIN r /\ new = [req EXCEPT ![t] = r]

\* The thread goes on with r, and every other thread with what it had.
LEMMA Turned ==
    ASSUME NEW req, NEW new, NEW t, NEW r, Turns(req, new, t, r),
           req = [u \in NsThreads |-> req[u]], \A u \in NsThreads : "op" \in DOMAIN req[u]
    PROVE  /\ new = [u \in NsThreads |-> new[u]]
           /\ \A u \in NsThreads : "op" \in DOMAIN new[u]
           /\ new[t] = r /\ \A u \in NsThreads : u # t => new[u] = req[u]
BY DEF Turns

\* Fresh is an id, above every id in use, as long as a request is left, and each request
\* that enters moves it.
LEMMA FreshBounds ==
    ASSUME NsTyped
    PROVE  /\ Fresh \in Int /\ 3 <= Fresh /\ \A i \in Int : 1 <= i /\ i < Fresh => i \in Ids
           /\ nsRequestsLeft > 0 => Fresh \in Ids
           /\ nsRequestsLeft' = nsRequestsLeft => Fresh' = Fresh
           /\ nsRequestsLeft > 0 /\ nsRequestsLeft' = nsRequestsLeft - 1
              => Fresh' = Fresh + 1 /\ nsRequestsLeft' \in 0..MaxNsRequests
BY NamespacesAssumption DEF NsTyped, Fresh, Ids
-----------------------------------------------------------------------------
(* What each step touches.                                                 *)

IntendedTyped(int) ==
    DOMAIN int = {"grants", "metadata"} /\ Ids \subseteq DOMAIN int.grants
    /\ Ids \subseteq DOMAIN int.metadata
Shape(tables, ops) ==
    /\ NsTyped' /\ NsKeeps(nsPg, nsPg', tables)
    /\ Fresh' \in {Fresh, Fresh + 1} /\ (nsRequest' = nsRequest => nsRequestsLeft' <= nsRequestsLeft)
    /\ \A u \in NsThreads : nsRequest'[u] = nsRequest[u] \/ nsRequest'[u].op \in ops
TurnsTo(ops) ==
    \/ nsRequest' = nsRequest
    \/ \E t, r : Turns(nsRequest, nsRequest', t, r) /\ r.op \in ops
CountsDown ==
    \/ nsRequestsLeft' = nsRequestsLeft
    \/ nsRequestsLeft > 0 /\ nsRequestsLeft' = nsRequestsLeft - 1

RequestsTyped(new, ops) ==
    /\ new = [u \in NsThreads |-> new[u]]
    /\ \A u \in NsThreads : "op" \in DOMAIN new[u]
    /\ \A u \in NsThreads : new[u] = nsRequest[u] \/ new[u].op \in ops

\* What a step has to show to have a shape.
LEMMA ShapeOf ==
    ASSUME NsTyped, NEW tables, NEW ops, NsKeeps(nsPg, nsPg', tables), TurnsTo(ops), CountsDown,
           IntendedTyped(intended')
    PROVE  Shape(tables, ops)
<1>1. RequestsTyped(nsRequest', ops)
    <2>1. CASE nsRequest' = nsRequest BY <2>1 DEF NsTyped, RequestsTyped
    <2>2. ASSUME NEW t, NEW r, Turns(nsRequest, nsRequest', t, r), r.op \in ops
          PROVE  RequestsTyped(nsRequest', ops) BY <2>2, Turned DEF NsTyped, RequestsTyped
    <2> QED BY <2>1, <2>2 DEF TurnsTo
<1>2. Fresh' \in {Fresh, Fresh + 1} /\ nsRequestsLeft' \in 0..MaxNsRequests /\ nsRequestsLeft' <= nsRequestsLeft
    BY FreshBounds, NamespacesAssumption DEF NsTyped, CountsDown
<1>3. DOMAIN nsPg' = NsTables BY DEF NsKeeps
<1> QED BY <1>1, <1>2, <1>3 DEF Shape, NsTyped, IntendedTyped, RequestsTyped

\* A commit of a script's management state, as part of some step.
CommitStep ==
    \/ UNCHANGED <<nsRepositories, intended>>
    \/ \E w, d, ok : CommitManagedArtifact(w, d, ok)

\* Replaying a publication, and reconciling an active deployment, commit a state or nothing.
LEMMA Commits ==
    /\ \A k : ReplayPublication(k) => CommitStep
    /\ \A k, i : Replayed(k, i) => CommitStep
    /\ \A d : ReconcileDerivedManagement(d) => CommitStep
BY DEF ReplayPublication, CommitStep, Replayed, ReconcileDerivedManagement

\* What a commit does, spelt out: it is refused, or the state of the worker is replaced.
CommitTo(w, a) ==
    LET prior == One({s \in nsPg.worker_management : s.worker = w})
    IN  /\ a \in nsPg.deployment_artifacts /\ a.worker = w /\ a.expected >= 0
        /\ \E x \in nsPg.workers : x.id = w
        /\ IF prior = NotFound THEN a.expected = 0 ELSE prior.revision = a.expected
        /\ nsPg' = [nsPg EXCEPT !.worker_management =
                      Replace(@, {prior}, {[worker |-> w, revision |-> a.expected + 1,
                                            deployment |-> a.id, metadata |-> a.metadata]})]
        /\ intended' = [intended EXCEPT !.metadata[w] =
                           IF a.expected + 1 = 1 THEN a.metadata ELSE Edited(@, a.edit)]

\* A commit that changes anything is of an artifact that is stored, whose revision is the
\* one of the latest upload, and the edit is applied to what was intended.
LEMMA CommitEffect ==
    ASSUME NsTyped, CommitStep
    PROVE  (nsPg' = nsPg /\ intended' = intended) \/ \E w, a : CommitTo(w, a)
<1>1. CASE UNCHANGED <<nsRepositories, intended>> BY <1>1 DEF nsRepositories
<1>2. ASSUME NEW w, NEW d, NEW ok, CommitManagedArtifact(w, d, ok)
      PROVE  (nsPg' = nsPg /\ intended' = intended) \/ \E x, a : CommitTo(x, a)
    <2>1. PICK a : a = PgGetDeploymentArtifact(nsPg, w, d) OBVIOUS
    <2>2. PICK next : next = [worker |-> w, revision |-> a.expected + 1, deployment |-> d,
                              metadata |-> a.metadata] OBVIOUS
    <2>3. PICK p : p = PgCommitScriptManagementState(nsPg, next, a.expected) OBVIOUS
    <2>4. \/ UNCHANGED <<nsRepositories, intended>>
          \/ /\ ~(a.expected < 0)
             /\ nsPg' = p.db /\ ok = (p.out = "ok")
             /\ intended' = IF ~ok THEN intended
                            ELSE [intended EXCEPT !.metadata[w] =
                                     IF next.revision = 1 THEN a.metadata ELSE Edited(@, a.edit)]
        BY <1>2, <2>1, <2>2, <2>3 DEF CommitManagedArtifact, Writes
    <2>5. CASE p.out # "ok"
        BY <2>3, <2>5, <2>4 DEF PgCommitScriptManagementState, Refused, Done, nsRepositories
    <2>6. CASE p.out = "ok"
        <3> DEFINE prior == One({s \in nsPg.worker_management : s.worker = w})
        <3>1. /\ a.expected >= 0 /\ \E x \in nsPg.workers : x.id = w
              /\ PgGetDeploymentArtifact(nsPg, w, d) # NotFound
              /\ IF prior = NotFound THEN a.expected = 0 ELSE prior.revision = a.expected
              /\ p.db = [nsPg EXCEPT !.worker_management = Replace(@, {prior}, {next})]
            BY <2>2, <2>3, <2>6 DEF PgGetScriptManagementState, PgCommitScriptManagementState,
               Refused, Done
        <3>2. a \in nsPg.deployment_artifacts /\ a.worker = w /\ a.id = d
            BY <2>1, <3>1, OneFound DEF PgGetDeploymentArtifact
        <3>3. CASE UNCHANGED <<nsRepositories, intended>> BY <3>3 DEF nsRepositories
        <3>4. CASE ~UNCHANGED <<nsRepositories, intended>>
            <4>1. intended' = [intended EXCEPT !.metadata[w] =
                                     IF a.expected + 1 = 1 THEN a.metadata ELSE Edited(@, a.edit)]
                BY <2>2, <2>4, <2>6, <3>4
            <4>2. nsPg' = p.db BY <2>4, <3>4
            <4>3. next = [worker |-> w, revision |-> a.expected + 1, deployment |-> a.id,
                          metadata |-> a.metadata] BY <2>2, <3>2
            <4>4. CommitTo(w, a) BY <3>1, <3>2, <4>1, <4>2, <4>3 DEF CommitTo
            <4> QED BY <4>4
        <3> QED BY <3>3, <3>4
    <2> QED BY <2>5, <2>6
<1> QED BY <1>1, <1>2 DEF CommitStep

\* So a commit touches management states and the intended metadata only.
LEMMA CommitKeeps ==
    ASSUME NsTyped, CommitStep
    PROVE  /\ NsKeeps(nsPg, nsPg', {"worker_management"}) /\ IntendedTyped(intended')
           /\ intended'.grants = intended.grants
<1>1. CASE nsPg' = nsPg /\ intended' = intended
    BY <1>1 DEF NsTyped, NsKeeps, IntendedTyped
<1>2. ASSUME NEW w, NEW a, CommitTo(w, a)
      PROVE  /\ NsKeeps(nsPg, nsPg', {"worker_management"}) /\ IntendedTyped(intended')
             /\ intended'.grants = intended.grants
    BY <1>2 DEF CommitTo, NsTyped, NsKeeps, IntendedTyped, NsTables
<1> QED BY <1>1, <1>2, CommitEffect

\* The steps a request can be at are told apart by their names.
OtherOps == {"idle", "grants", "retry", "build", "snapshot", "save", "publish", "reconcile"}

\* The names of the requests differ.
LEMMA OpNames ==
    /\ CreateOp \notin OtherOps /\ DeployOp \notin OtherOps /\ DeleteOp \notin OtherOps
    /\ CreateOp # DeployOp /\ CreateOp # DeleteOp /\ DeployOp # DeleteOp
BY Zenon DEF CreateOp, DeployOp, DeleteOp, OtherOps

\* The answer of a repository call is what both repositories become.
LEMMA WritesEffect ==
    ASSUME NEW s, NEW p, Writes(s, p)
    PROVE  nsPg' = p.db
BY DEF Writes

\* A step that leaves the repository alone, and the intended content.
LEMMA KeepsAll ==
    ASSUME NsTyped
    PROVE  /\ nsPg' = nsPg => \A tables : NsKeeps(nsPg, nsPg', tables)
           /\ intended' = intended => IntendedTyped(intended')
BY DEF NsTyped, NsKeeps, IntendedTyped

\* A request that enters, or goes on, is one request that turns.
LEMMA EntersTurns ==
    ASSUME NEW t \in NsThreads, NEW r, "op" \in DOMAIN r, NEW ops, r.op \in ops
    PROVE  /\ Enters(t, r) => TurnsTo(ops) /\ CountsDown
           /\ Goes(t, r) => TurnsTo(ops)
BY DEF Goes, TurnsTo, Turns, Enters, CountsDown

-----------------------------------------------------------------------------

\* Namespaces and policies.
LEMMA PolicyShapes ==
    ASSUME NsTyped
    PROVE  /\ \A org, name, mode : CreateDispatchNamespace(org, name, mode)
                 => Shape({"dispatch_namespaces", "dispatch_namespace_policies"}, {})
           /\ \A org, ns, name : RenameDispatchNamespace(org, ns, name)
                 => Shape({"dispatch_namespaces"}, {})
           /\ \A org, ns : DeleteDispatchNamespace(org, ns)
                 => Shape({"dispatch_namespaces", "dispatch_namespace_policies",
                           "asset_upload_sessions"}, {})
           /\ \A t \in NsThreads : \A org, ns : GetDispatchNamespace(t, org, ns) => Shape({}, {"grants"})
           /\ \A t \in NsThreads : SetNamespaceGrants(t)
                 => Shape({"dispatch_namespaces", "dispatch_namespace_policies"}, {"idle"})
<1>0. DOMAIN nsPg = NsTables BY DEF NsTyped
<1>1. ASSUME NEW org, NEW name, NEW mode, CreateDispatchNamespace(org, name, mode)
      PROVE  Shape({"dispatch_namespaces", "dispatch_namespace_policies"}, {})
    BY <1>1, WritesEffect, <1>0, NsCallsKeep, KeepsAll, ShapeOf DEF CreateDispatchNamespace,
       TurnsTo, CountsDown
<1>2. ASSUME NEW org, NEW ns, NEW name, RenameDispatchNamespace(org, ns, name)
      PROVE  Shape({"dispatch_namespaces"}, {})
    BY <1>2, WritesEffect, <1>0, NsCallsKeep, KeepsAll, ShapeOf DEF RenameDispatchNamespace,
       TurnsTo, CountsDown
<1>3. ASSUME NEW org, NEW ns, DeleteDispatchNamespace(org, ns)
      PROVE  Shape({"dispatch_namespaces", "dispatch_namespace_policies", "asset_upload_sessions"}, {})
    BY <1>3, WritesEffect, <1>0, NsCallsKeep, KeepsAll, ShapeOf DEF DeleteDispatchNamespace,
       TurnsTo, CountsDown
<1>4. ASSUME NEW t \in NsThreads, NEW org, NEW ns, GetDispatchNamespace(t, org, ns)
      PROVE  Shape({}, {"grants"})
    BY <1>4, EntersTurns, KeepsAll, ShapeOf DEF GetDispatchNamespace, nsRepositories
<1>5. ASSUME NEW t \in NsThreads, SetNamespaceGrants(t)
      PROVE  Shape({"dispatch_namespaces", "dispatch_namespace_policies"}, {"idle"})
    <2> DEFINE r == nsRequest[t]
    <2>1. Goes(t, NoRequest) /\ nsRequestsLeft' = nsRequestsLeft
        BY <1>5 DEF SetNamespaceGrants, nsBudget
    <2>2. TurnsTo({"idle"}) /\ CountsDown
        BY <2>1, EntersTurns DEF NoRequest, CountsDown
    <2>3. \/ nsPg' = nsPg /\ intended' = intended
          \/ /\ nsPg' = PgSetNamespaceGrants(nsPg, r.ns, r.revision, r.grants).db
             /\ \/ intended' = intended
                \/ intended' = [intended EXCEPT !.grants[r.ns] = Toggled(@, r.resource)]
        BY <1>5, WritesEffect DEF SetNamespaceGrants, nsRepositories
    <2>4. NsKeeps(nsPg, nsPg', {"dispatch_namespaces", "dispatch_namespace_policies"})
        BY <1>0, <2>3, NsCallsKeep, KeepsAll
    <2>5. IntendedTyped(intended') BY KeepsAll, <2>3 DEF NsTyped, IntendedTyped
    <2> QED BY <2>2, <2>4, <2>5, ShapeOf
<1> QED BY <1>1, <1>2, <1>3, <1>4, <1>5

\* A request for a script carries what follows it.
ScriptRequests == \A t \in NsThreads : Creating(nsRequest[t]) =>
    "op" \in DOMAIN nsRequest[t].then /\ nsRequest[t].then.op \in {"idle", DeployOp}

WorkerTables == {"workers", "worker_management", "deployment_artifacts"}

\* Scripts: their creation and deletion.
LEMMA ScriptShapes ==
    ASSUME NsTyped, ScriptRequests, NEW t \in NsThreads
    PROVE  /\ \A org, ns, kind, customer : RequestScript(t, org, ns, kind, customer)
                 => Shape({}, {CreateOp})
           /\ CreateNamespaceScript(t) => Shape({"workers"}, {"idle", DeployOp})
           /\ \A org, ns : FindScript(t, org, ns) => Shape({}, {DeleteOp})
           /\ DeleteNamespaceScript(t) => Shape(WorkerTables, {"idle"})
           /\ \A org, ns, tag, present : DeleteNamespaceScriptsByTag(t, org, ns, tag, present)
                 => Shape(WorkerTables, {"idle"})
           /\ \A org, ns, key, token : UploadNewScript(t, org, ns, key, token)
                 => Shape({}, {CreateOp})
<1>0. DOMAIN nsPg = NsTables BY DEF NsTyped
<1>1. ASSUME NEW org, NEW ns, NEW kind, NEW customer, RequestScript(t, org, ns, kind, customer)
      PROVE  Shape({}, {CreateOp})
    BY <1>1, EntersTurns, KeepsAll, ShapeOf DEF RequestScript, CreateOp, nsRepositories
<1>2. ASSUME CreateNamespaceScript(t) PROVE Shape({"workers"}, {"idle", DeployOp})
    <2>1. nsPg' = PgCreateScript(nsPg, nsRequest[t].app).db
        BY <1>2, WritesEffect DEF CreateNamespaceScript
    <2>2. NsKeeps(nsPg, nsPg', {"workers"}) BY <1>0, <2>1, NsCallsKeep
    <2>3. PICK r : Goes(t, r) /\ r \in {nsRequest[t].then, NoRequest} BY <1>2 DEF CreateNamespaceScript
    <2>a. Creating(nsRequest[t]) BY <1>2, Zenon DEF CreateNamespaceScript, Has, Creating, CreateOp
    <2>4. "op" \in DOMAIN r /\ r.op \in {"idle", DeployOp}
        BY <2>a, <2>3 DEF ScriptRequests, NoRequest
    <2>5. nsRequestsLeft' = nsRequestsLeft /\ intended' = intended
        BY <1>2 DEF CreateNamespaceScript, nsBudget
    <2>6. TurnsTo({"idle", DeployOp}) /\ CountsDown
        BY <2>3, <2>4, <2>5, EntersTurns DEF CountsDown
    <2> QED BY <2>2, <2>5, <2>6, KeepsAll, ShapeOf
<1>3. ASSUME NEW org, NEW ns, FindScript(t, org, ns) PROVE Shape({}, {DeleteOp})
    BY <1>3, EntersTurns, KeepsAll, ShapeOf DEF FindScript, DeleteOp, nsRepositories
<1>4. ASSUME DeleteNamespaceScript(t) PROVE Shape(WorkerTables, {"idle"})
    <2>1. Goes(t, NoRequest) /\ nsRequestsLeft' = nsRequestsLeft /\ intended' = intended
        BY <1>4 DEF DeleteNamespaceScript, nsBudget
    <2>2. TurnsTo({"idle"}) /\ CountsDown BY <2>1, EntersTurns DEF NoRequest, CountsDown
    <2>3. nsPg' = nsPg \/ nsPg' = PgWithoutWorkers(nsPg, {nsRequest[t].app.id})
        <3>1. nsPg' = nsPg
              \/ Writes(Done(StoreWithoutWorkers(nsStore, {nsRequest[t].app.id})),
                        Done(PgWithoutWorkers(nsPg, {nsRequest[t].app.id})))
            BY <1>4 DEF DeleteNamespaceScript, nsRepositories
        <3> QED BY <3>1, WritesEffect DEF Done
    <2>4. NsKeeps(nsPg, nsPg', WorkerTables) BY <1>0, <2>3, NsCallsKeep, KeepsAll DEF WorkerTables
    <2> QED BY <2>1, <2>2, <2>4, KeepsAll, ShapeOf
<1>5. ASSUME NEW org, NEW ns, NEW tag, NEW present,
             DeleteNamespaceScriptsByTag(t, org, ns, tag, present)
      PROVE  Shape(WorkerTables, {"idle"})
    BY <1>5, EntersTurns, WritesEffect, <1>0, NsCallsKeep, KeepsAll, ShapeOf DEF
       DeleteNamespaceScriptsByTag, NoRequest, WorkerTables
<1>6. ASSUME NEW org, NEW ns, NEW key, NEW token, UploadNewScript(t, org, ns, key, token)
      PROVE  Shape({}, {CreateOp})
    BY <1>6, EntersTurns, KeepsAll, ShapeOf DEF UploadNewScript, CreateOp, nsRepositories
<1> QED BY <1>1, <1>2, <1>3, <1>4, <1>5, <1>6

\* Uploads and the clock.
LEMMA UploadShapes ==
    ASSUME NsTyped
    PROVE  /\ \A org, ns, customer, manifest : CreateAssetUpload(org, ns, customer, manifest)
                 => Shape({"asset_upload_sessions"}, {})
           /\ \A token, files : UploadAssetFiles(token, files) => Shape({"asset_upload_sessions"}, {})
           /\ PruneExpiredAssetUploads => Shape({"asset_upload_sessions"}, {})
           /\ NsTick => Shape({}, {})
<1>0. DOMAIN nsPg = NsTables BY DEF NsTyped
<1>1. ASSUME NEW org, NEW ns, NEW customer, NEW manifest, CreateAssetUpload(org, ns, customer, manifest)
      PROVE  Shape({"asset_upload_sessions"}, {})
    <2>0. PICK a, s : Writes(a, PgSaveAssetUploadSession(nsPg, s, 0))
        BY <1>1, Zenon DEF CreateAssetUpload
    <2>1. nsPg' = PgSaveAssetUploadSession(nsPg, s, 0).db BY <2>0, WritesEffect
    <2>2. NsKeeps(nsPg, nsPg', {"asset_upload_sessions"}) BY <1>0, <2>1, NsCallsKeep
    <2>3. TurnsTo({}) /\ CountsDown /\ intended' = intended
        BY <1>1 DEF CreateAssetUpload, TurnsTo, CountsDown
    <2> QED BY <2>2, <2>3, KeepsAll, ShapeOf
<1>2. ASSUME NEW token, NEW files, UploadAssetFiles(token, files)
      PROVE  Shape({"asset_upload_sessions"}, {})
    <2>0. UNCHANGED nsRepositories \/ \E a, s, x : Writes(a, PgSaveAssetUploadSession(nsPg, s, x))
        BY <1>2, Zenon DEF UploadAssetFiles
    <2>1. nsPg' = nsPg \/ \E s, x : nsPg' = PgSaveAssetUploadSession(nsPg, s, x).db
        BY <2>0, WritesEffect DEF nsRepositories
    <2>2. NsKeeps(nsPg, nsPg', {"asset_upload_sessions"}) BY <1>0, <2>1, NsCallsKeep, KeepsAll
    <2>3. TurnsTo({}) /\ CountsDown /\ intended' = intended
        BY <1>2 DEF UploadAssetFiles, TurnsTo, CountsDown
    <2> QED BY <2>2, <2>3, KeepsAll, ShapeOf
<1>3. ASSUME PruneExpiredAssetUploads PROVE Shape({"asset_upload_sessions"}, {})
    BY <1>3, WritesEffect, <1>0, NsCallsKeep, KeepsAll, ShapeOf DEF PruneExpiredAssetUploads,
       TurnsTo, CountsDown, nsBudget
<1>4. ASSUME NsTick PROVE Shape({}, {})
    BY <1>4, KeepsAll, ShapeOf DEF NsTick, TurnsTo, CountsDown, nsRepositories
<1> QED BY <1>1, <1>2, <1>3, <1>4

\* The steps the requests of a publication are at.
LEMMA OpsOf ==
    /\ "op" \in DOMAIN NoRequest /\ NoRequest.op = "idle"
    /\ \A r : "op" \in DOMAIN Retry(r) /\ Retry(r).op = "retry"
    /\ \A r, x, b, m : "op" \in DOMAIN Deploy(r, x, b, m) /\ Deploy(r, x, b, m).op = DeployOp
    /\ \A r, x, m : "op" \in DOMAIN Build(r, x, m) /\ Build(r, x, m).op = "build"
BY Zenon DEF NoRequest, Retry, Deploy, Build, DeployOp

\* The steps of a publication.
LEMMA ManagedShapes ==
    ASSUME NsTyped, NEW t \in NsThreads
    PROVE  /\ \A w, key, e, token : ReplayManagedRequest(t, w, key, e, token)
                 => Shape({"worker_management"}, {"idle", "snapshot"})
           /\ ReplayOnce(t) => Shape({"worker_management"}, {"idle"})
           /\ ReadSnapshot(t) => Shape({}, {"idle", "retry", DeployOp})
           /\ DeployManagedPublication(t)
                 => Shape({"worker_management", "asset_upload_sessions"}, {"idle", "build", "retry"})
           /\ \A w : NativeDeploy(t, w) => Shape({}, {"build"})
           /\ StoreArtifact(t) => Shape({"deployment_artifacts"}, {"save", "retry"})
           /\ SavePublication(t) => Shape({}, {"publish", "retry"})
           /\ PublishStored(t) => Shape({"worker_management"}, {"idle", "retry"})
<1>0. DOMAIN nsPg = NsTables /\ "op" \in DOMAIN nsRequest[t] BY DEF NsTyped
<1>1. ASSUME NEW w, NEW key, NEW e, NEW token, ReplayManagedRequest(t, w, key, e, token)
      PROVE  Shape({"worker_management"}, {"idle", "snapshot"})
    BY <1>1, Commits, EntersTurns, CommitKeeps, ShapeOf DEF ReplayManagedRequest, NoRequest
<1>2. ASSUME ReplayOnce(t) PROVE Shape({"worker_management"}, {"idle"})
    BY <1>2, Commits, EntersTurns, CommitKeeps, ShapeOf DEF ReplayOnce, nsBudget, NoRequest,
       CountsDown
<1>3. ASSUME ReadSnapshot(t) PROVE Shape({}, {"idle", "retry", DeployOp})
    BY <1>3, OpsOf, EntersTurns, KeepsAll, ShapeOf DEF ReadSnapshot, nsBudget, nsRepositories,
       CountsDown
<1>4. ASSUME DeployManagedPublication(t)
      PROVE  Shape({"worker_management", "asset_upload_sessions"}, {"idle", "build", "retry"})
    <2>0. Goes(t, NoRequest) \/ (\E r : Goes(t, Retry(r))) \/ (\E r, x, m : Goes(t, Build(r, x, m)))
        BY <1>4, Zenon DEF DeployManagedPublication
    <2>1. PICK r : Goes(t, r) /\ "op" \in DOMAIN r /\ r.op \in {"idle", "build", "retry"}
        BY <2>0, OpsOf
    <2>2. nsRequestsLeft' = nsRequestsLeft BY <1>4 DEF DeployManagedPublication, nsBudget
    <2>3. TurnsTo({"idle", "build", "retry"}) /\ CountsDown
        BY <2>1, <2>2, EntersTurns DEF CountsDown
    <2>4. \/ nsPg' = nsPg /\ intended' = intended
          \/ \E k, i : Replayed(k, i)
          \/ (\E s, x : nsPg' = PgSaveAssetUploadSession(nsPg, s, x).db) /\ intended' = intended
        BY <1>4, WritesEffect DEF DeployManagedPublication, BindCompletedAssetUpload, nsRepositories
    <2>5. CASE nsPg' = nsPg /\ intended' = intended BY <2>3, <2>5, KeepsAll, ShapeOf
    <2>6. ASSUME NEW k, NEW i, Replayed(k, i)
          PROVE  Shape({"worker_management", "asset_upload_sessions"}, {"idle", "build", "retry"})
        BY <2>6, Commits, CommitKeeps, <2>3, ShapeOf DEF NsKeeps
    <2>7. ASSUME NEW s, NEW x, nsPg' = PgSaveAssetUploadSession(nsPg, s, x).db, intended' = intended
          PROVE  Shape({"worker_management", "asset_upload_sessions"}, {"idle", "build", "retry"})
        BY <1>0, <2>7, NsCallsKeep, <2>3, KeepsAll, ShapeOf DEF NsKeeps
    <2> QED BY <2>4, <2>5, <2>6, <2>7
<1>5. ASSUME NEW w, NativeDeploy(t, w) PROVE Shape({}, {"build"})
    BY <1>5, EntersTurns, KeepsAll, ShapeOf DEF NativeDeploy, Build, nsRepositories
<1>6. ASSUME StoreArtifact(t) PROVE Shape({"deployment_artifacts"}, {"save", "retry"})
    BY <1>0, <1>6, EntersTurns, WritesEffect, NsCallsKeep, KeepsAll, ShapeOf DEF StoreArtifact,
       Retry, nsBudget, CountsDown, nsRepositories
<1>7. ASSUME SavePublication(t) PROVE Shape({}, {"publish", "retry"})
    BY <1>0, <1>7, EntersTurns, KeepsAll, ShapeOf DEF SavePublication, Retry, nsBudget,
       nsRepositories, CountsDown
<1>8. ASSUME PublishStored(t) PROVE Shape({"worker_management"}, {"idle", "retry"})
    BY <1>8, OpsOf, EntersTurns, CommitKeeps, ShapeOf DEF PublishStored, CommitStep, nsBudget,
       CountsDown
<1> QED BY <1>1, <1>2, <1>3, <1>4, <1>5, <1>6, <1>7, <1>8

\* Publications that are derived from the latest upload, and a process that stops.
LEMMA DerivedShapes ==
    ASSUME NsTyped, NEW t \in NsThreads
    PROVE  /\ \A w, e : MutateManagedSecret(t, w, e) => Shape({"deployment_artifacts"}, {"save"})
           /\ \A d : UpdateVars(t, d) => Shape({"deployment_artifacts"}, {"reconcile"})
           /\ ReconcileVars(t) => Shape({"worker_management"}, {"idle"})
           /\ StopProcess(t) => Shape({}, {"idle"})
<1>0. DOMAIN nsPg = NsTables BY DEF NsTyped
<1>1. ASSUME NEW w, NEW e, MutateManagedSecret(t, w, e) PROVE Shape({"deployment_artifacts"}, {"save"})
    BY <1>1, EntersTurns, WritesEffect, <1>0, NsCallsKeep, KeepsAll, ShapeOf DEF
       MutateManagedSecret, Build
<1>2. ASSUME NEW d, UpdateVars(t, d) PROVE Shape({"deployment_artifacts"}, {"reconcile"})
    BY <1>2, EntersTurns, WritesEffect, <1>0, NsCallsKeep, KeepsAll, ShapeOf DEF UpdateVars
<1>3. ASSUME ReconcileVars(t) PROVE Shape({"worker_management"}, {"idle"})
    BY <1>3, Commits, EntersTurns, CommitKeeps, ShapeOf DEF ReconcileVars, nsBudget, NoRequest,
       CountsDown
<1>4. ASSUME StopProcess(t) PROVE Shape({}, {"idle"})
    BY <1>4, EntersTurns, KeepsAll, ShapeOf DEF StopProcess, nsRepositories, NoRequest,
       CountsDown
<1> QED BY <1>1, <1>2, <1>3, <1>4

\* Recovery.
LEMMA RecoveryShapes ==
    ASSUME NsTyped
    PROVE  /\ \A d : RecoverActive(d) => Shape({"worker_management"}, {})
           /\ \A k : RecoverPublications(k) => Shape({"worker_management"}, {})
BY Commits, CommitKeeps, ShapeOf DEF RecoverActive, TurnsTo, CountsDown, nsBudget,
   RecoverPublications

-----------------------------------------------------------------------------
(* Policies.                                                               *)

\* Steps that leave namespaces, grants and their readers alone.
LEMMA GrantsAside ==
    ASSUME GrantsInv, NsTyped, NEW tables, NEW ops, Shape(tables, ops),
           "dispatch_namespaces" \notin tables, "grants" \notin ops,
           intended'.grants = intended.grants
    PROVE  GrantsInv'
BY FreshBounds DEF Shape, NsKeeps, NsTables, NamespaceRow, Ids, GrantsRead, GrantsInv, GrantsHeld

\* The same when namespaces are only taken away, or renamed.
LEMMA GrantsFewer ==
    ASSUME GrantsInv, NsTyped, NEW tables, Shape(tables, {}),
           intended' = intended,
           \A n \in nsPg'.dispatch_namespaces : \E o \in nsPg.dispatch_namespaces :
              /\ n.id = o.id /\ n.revision = o.revision /\ n.grants = o.grants
              /\ DOMAIN n = DOMAIN o,
           \A n, m \in nsPg'.dispatch_namespaces : n.id = m.id => n = m
    PROVE  GrantsInv'
<1>2. Fresh \in Int /\ Fresh' \in Int /\ Fresh <= Fresh' BY FreshBounds DEF Shape
<1>3. \A u \in NsThreads : nsRequest'[u] = nsRequest[u] BY DEF Shape
<1>4. ASSUME NEW n \in nsPg'.dispatch_namespaces PROVE NamespaceRow(n, intended', Fresh')
    BY <1>2 DEF GrantsInv, GrantsHeld, NamespaceRow, Ids
<1>5. ASSUME NEW u \in NsThreads, nsRequest'[u].op = "grants"
      PROVE  GrantsRead(nsPg', nsRequest'[u], Fresh')
    BY <1>3, <1>5, <1>2 DEF GrantsInv, GrantsHeld, GrantsRead
<1>6. \A i \in Ids : i >= Fresh' => intended'.grants[i] = {}
    BY <1>2 DEF GrantsInv, GrantsHeld, Ids
<1> QED BY <1>4, <1>5, <1>6 DEF GrantsInv, GrantsHeld

\* A new namespace has a fresh id, nobody has read it and it grants nothing.
LEMMA CreateNamespaceGrants ==
    ASSUME GrantsInv, NsTyped, NEW org, NEW name, NEW mode, CreateDispatchNamespace(org, name, mode)
    PROVE  GrantsInv'
<1>1. Shape({"dispatch_namespaces", "dispatch_namespace_policies"}, {}) BY PolicyShapes
<1>2. PICK ns : ns = [id |-> Fresh, org |-> org, name |-> name, mode |-> mode, revision |-> 1,
                      grants |-> {}] OBVIOUS
<1>3. /\ nsPg' = PgCreateDispatchNamespace(nsPg, ns).db /\ intended' = intended
      /\ nsRequestsLeft > 0 /\ nsRequestsLeft' = nsRequestsLeft - 1
    BY <1>2, WritesEffect DEF CreateDispatchNamespace
<1>4. \/ nsPg'.dispatch_namespaces = nsPg.dispatch_namespaces
      \/ nsPg'.dispatch_namespaces = nsPg.dispatch_namespaces \cup {ns}
    BY <1>3 DEF PgCreateDispatchNamespace, Refused, Done, NsTyped, NsTables
<1>5. Fresh \in Int /\ Fresh \in Ids /\ Fresh' = Fresh + 1 BY <1>3, FreshBounds
<1>6. NamespaceRow(ns, intended', Fresh')
    BY <1>2, <1>3, <1>5 DEF NamespaceRow, GrantsInv, GrantsHeld
<1>7. \A n \in nsPg.dispatch_namespaces : NamespaceRow(n, intended', Fresh') /\ n.id # ns.id
    BY <1>2, <1>3, <1>5 DEF NamespaceRow, GrantsInv, GrantsHeld, Ids
<1>8. \A u \in NsThreads : nsRequest'[u] = nsRequest[u] BY <1>1 DEF Shape
<1>9. ASSUME NEW u \in NsThreads, nsRequest'[u].op = "grants"
      PROVE  GrantsRead(nsPg', nsRequest'[u], Fresh')
    BY <1>8, <1>9, <1>2, <1>5, <1>4 DEF GrantsInv, GrantsHeld, GrantsRead
<1>10. \A i \in Ids : i >= Fresh' => intended'.grants[i] = {}
    BY <1>3, <1>5 DEF GrantsInv, GrantsHeld, Ids
<1>11. \A n, m \in nsPg'.dispatch_namespaces : n.id = m.id => n = m
    BY <1>4, <1>7 DEF GrantsInv, GrantsHeld
<1>12. \A n \in nsPg'.dispatch_namespaces : NamespaceRow(n, intended', Fresh')
    BY <1>4, <1>6, <1>7
<1> QED BY <1>9, <1>10, <1>11, <1>12 DEF GrantsInv, GrantsHeld

\* Renaming a namespace leaves its revision and its grants as they are.
LEMMA RenameNamespaceGrants ==
    ASSUME GrantsInv, NsTyped, NEW org, NEW ns, NEW name, RenameDispatchNamespace(org, ns, name)
    PROVE  GrantsInv'
<1>1. Shape({"dispatch_namespaces"}, {}) BY PolicyShapes
<1>2. nsPg' = PgRenameDispatchNamespace(nsPg, ns, name).db /\ intended' = intended
    BY WritesEffect DEF RenameDispatchNamespace
<1> DEFINE old == {r \in nsPg.dispatch_namespaces : r.id = ns}
           new == {[r EXCEPT !.name = name] : r \in old}
<1>3. nsPg'.dispatch_namespaces \in {nsPg.dispatch_namespaces,
                                     (nsPg.dispatch_namespaces \ old) \cup new}
    BY <1>2 DEF PgRenameDispatchNamespace, Refused, Done, Replace, NsTyped, NsTables
<1>4. \A r \in nsPg.dispatch_namespaces : NamespaceRow(r, intended, Fresh)
    BY DEF GrantsInv, GrantsHeld
<1>5. ASSUME NEW n \in new
      PROVE  \E o \in old : /\ n.id = o.id /\ n.revision = o.revision /\ n.grants = o.grants
                            /\ DOMAIN n = DOMAIN o /\ n = [o EXCEPT !.name = name]
    BY <1>4 DEF NamespaceRow
<1>6. \A n \in nsPg'.dispatch_namespaces : \E o \in nsPg.dispatch_namespaces :
         /\ n.id = o.id /\ n.revision = o.revision /\ n.grants = o.grants /\ DOMAIN n = DOMAIN o
    BY <1>3, <1>5
<1>7. \A n, m \in nsPg.dispatch_namespaces : n.id = m.id => n = m BY DEF GrantsInv, GrantsHeld
<1>8. ASSUME NEW n \in nsPg'.dispatch_namespaces, NEW m \in nsPg'.dispatch_namespaces, n.id = m.id
      PROVE  n = m
    <2> HIDE DEF new
    <2>1. CASE nsPg'.dispatch_namespaces = nsPg.dispatch_namespaces BY <1>7, <1>8, <2>1
    <2>2. CASE nsPg'.dispatch_namespaces = (nsPg.dispatch_namespaces \ old) \cup new
        BY <1>5, <1>7, <1>8, <2>2
    <2> QED BY <1>3, <2>1, <2>2
<1> QED
    <2> HIDE DEF old, new
    <2> QED BY <1>1, <1>2, <1>6, <1>8, GrantsFewer

\* Deleting one takes its row away.
LEMMA DeleteNamespaceGrants ==
    ASSUME GrantsInv, NsTyped, NEW org, NEW ns, DeleteDispatchNamespace(org, ns)
    PROVE  GrantsInv'
<1>1. Shape({"dispatch_namespaces", "dispatch_namespace_policies", "asset_upload_sessions"}, {})
    BY PolicyShapes
<1>2. nsPg' = PgDeleteDispatchNamespace(nsPg, ns).db /\ intended' = intended
    BY WritesEffect DEF DeleteDispatchNamespace
<1>3. nsPg'.dispatch_namespaces \subseteq nsPg.dispatch_namespaces
    BY <1>2 DEF PgDeleteDispatchNamespace, Refused, Done, NsTyped, NsTables
<1>4. \A n, m \in nsPg'.dispatch_namespaces : n.id = m.id => n = m
    BY <1>3 DEF GrantsInv, GrantsHeld
<1> QED BY <1>1, <1>2, <1>3, <1>4, GrantsFewer

\* A client is handed the grants it changes together with their revision.
LEMMA GetNamespaceGrants ==
    ASSUME GrantsInv, NsTyped, NEW t \in NsThreads, NEW org, NEW ns, GetDispatchNamespace(t, org, ns)
    PROVE  GrantsInv'
<1>1. Shape({}, {"grants"}) BY PolicyShapes
<1>2. nsPg' = nsPg /\ intended' = intended BY DEF GetDispatchNamespace, nsRepositories
<1>3. PICK n : n = DispatchNamespaceForOrg(org, ns) OBVIOUS
<1>4. n \in nsPg.dispatch_namespaces /\ n.id = ns
    BY <1>3, OneFound DEF GetDispatchNamespace, DispatchNamespaceForOrg, PgGetDispatchNamespace
<1>5. PICK x, r : /\ Enters(t, r)
                  /\ r = [op |-> "grants", org |-> org, ns |-> ns, revision |-> n.revision,
                          resource |-> x, grants |-> Toggled(n.grants, x)]
    BY <1>3, Zenon DEF GetDispatchNamespace
<1>6. /\ nsRequest' = [nsRequest EXCEPT ![t] = r]
      /\ Fresh' = Fresh + 1 /\ Fresh \in Int
    BY <1>5, FreshBounds DEF Enters, Goes
<1>7. NamespaceRow(n, intended, Fresh) /\ \A m \in nsPg.dispatch_namespaces : m.id = n.id => m = n
    BY <1>4 DEF GrantsInv, GrantsHeld
<1>8. r.ns = ns /\ r.revision = n.revision /\ r.resource = x /\ r.grants = Toggled(n.grants, x)
    BY <1>5
<1>9. GrantsRead(nsPg', r, Fresh')
    BY <1>2, <1>4, <1>6, <1>7, <1>8 DEF GrantsRead, NamespaceRow, Ids
<1>10. ASSUME NEW u \in NsThreads, nsRequest'[u].op = "grants"
       PROVE  GrantsRead(nsPg', nsRequest'[u], Fresh')
    BY <1>6, <1>9, <1>10, <1>2 DEF NsTyped, GrantsInv, GrantsHeld, GrantsRead
<1>11. \A m \in nsPg'.dispatch_namespaces : NamespaceRow(m, intended', Fresh')
    BY <1>2, <1>6 DEF GrantsInv, GrantsHeld, NamespaceRow, Ids
<1>12. \A i \in Ids : i >= Fresh' => intended'.grants[i] = {}
    BY <1>2, <1>6 DEF GrantsInv, GrantsHeld, Ids
<1>13. \A p, m \in nsPg'.dispatch_namespaces : p.id = m.id => p = m
    BY <1>2 DEF GrantsInv, GrantsHeld
<1> QED BY <1>10, <1>11, <1>12, <1>13 DEF GrantsInv, GrantsHeld

\* The conditional update is taken only by a client that read the current grants, and gives it
\* the next revision, so every other client's revision is older from then on.
LEMMA SetNamespaceGrantsHeld ==
    ASSUME GrantsInv, NsTyped, NEW t \in NsThreads, SetNamespaceGrants(t)
    PROVE  GrantsInv'
<1> DEFINE r == nsRequest[t]
           row == One({n \in nsPg.dispatch_namespaces : n.id = r.ns /\ n.revision = r.revision})
           new == [row EXCEPT !.revision = @ + 1, !.grants = r.grants]
           rows == nsPg.dispatch_namespaces
<1>1. Shape({"dispatch_namespaces", "dispatch_namespace_policies"}, {"idle"}) BY PolicyShapes
<1>2. PICK p : p = PgSetNamespaceGrants(nsPg, r.ns, r.revision, r.grants) OBVIOUS
<1>3. \/ nsPg' = nsPg /\ intended' = intended
      \/ /\ nsPg' = p.db
         /\ intended' = IF p.out # "ok" THEN intended
                        ELSE [intended EXCEPT !.grants[r.ns] = Toggled(@, r.resource)]
    BY <1>2, WritesEffect DEF SetNamespaceGrants, nsRepositories
<1>4. \/ p = Refused(nsPg, "not found") \/ p = Refused(nsPg, "conflict")
      \/ /\ row # NotFound
         /\ p = Done([nsPg EXCEPT
                 !.dispatch_namespaces = Replace(@, {row}, {new}),
                 !.dispatch_namespace_policies =
                     @ \cup {[ns |-> r.ns, revision |-> new.revision, grants |-> r.grants]}])
    BY <1>2, Zenon DEF PgSetNamespaceGrants
<1>5. CASE p = Refused(nsPg, "not found") \/ p = Refused(nsPg, "conflict")
           \/ (nsPg' = nsPg /\ intended' = intended)
    <2>1. nsPg' = nsPg /\ intended' = intended
        <3>1. CASE nsPg' = nsPg /\ intended' = intended BY <3>1
        <3>2. CASE p = Refused(nsPg, "not found") \/ p = Refused(nsPg, "conflict")
            <4>1. p.db = nsPg /\ p.out # "ok"
                <5>1. \A why : Refused(nsPg, why).db = nsPg /\ Refused(nsPg, why).out = why BY DEF Refused
                <5>2. p.db = nsPg /\ p.out \in {"not found", "conflict"} BY <3>2, <5>1
                <5> QED BY <5>2
            <4>2. PICK int : int = [intended EXCEPT !.grants[r.ns] = Toggled(@, r.resource)] OBVIOUS
            <4>3. \/ nsPg' = nsPg /\ intended' = intended
                  \/ nsPg' = p.db /\ intended' = IF p.out # "ok" THEN intended ELSE int
                BY <1>3, <4>2, Zenon
            <4> QED BY <4>1, <4>3
        <3> QED BY <1>5, <3>1, <3>2
    <2>2. \A n \in nsPg'.dispatch_namespaces : NamespaceRow(n, intended', Fresh')
        BY <1>1, <2>1, FreshBounds DEF GrantsInv, GrantsHeld, NamespaceRow, Shape, Ids
    <2>3. ASSUME NEW u \in NsThreads, nsRequest'[u].op = "grants"
          PROVE  GrantsRead(nsPg', nsRequest'[u], Fresh')
        BY <1>1, <2>3, <2>1, FreshBounds DEF Shape, GrantsInv, GrantsHeld, GrantsRead
    <2>4. \A i \in Ids : i >= Fresh' => intended'.grants[i] = {}
        BY <1>1, <2>1, FreshBounds DEF GrantsInv, GrantsHeld, Ids, Shape
    <2>5. \A n, m \in nsPg'.dispatch_namespaces : n.id = m.id => n = m
        BY <2>1 DEF GrantsInv, GrantsHeld
    <2> QED BY <2>2, <2>3, <2>4, <2>5 DEF GrantsInv, GrantsHeld
<1>6. CASE row # NotFound /\ ~(nsPg' = nsPg /\ intended' = intended)
           /\ p = Done([nsPg EXCEPT
                 !.dispatch_namespaces = Replace(@, {row}, {new}),
                 !.dispatch_namespace_policies =
                     @ \cup {[ns |-> r.ns, revision |-> new.revision, grants |-> r.grants]}])
    <2>1. row \in rows /\ row.id = r.ns /\ row.revision = r.revision BY <1>6, OneFound
    <2>2. NamespaceRow(row, intended, Fresh) /\ \A n \in rows : n.id = row.id => n = row
        BY <2>1 DEF GrantsInv, GrantsHeld
    <2>3. /\ new.id = row.id /\ new.revision = row.revision + 1 /\ new.grants = r.grants
          /\ DOMAIN new = DOMAIN row BY <2>2 DEF NamespaceRow
    <2>4. p.out = "ok" /\ nsPg'.dispatch_namespaces = (rows \ {row}) \cup {new}
        BY <1>6, <1>3 DEF Done, Replace, NsTyped, NsTables
    <2>5. intended' = [intended EXCEPT !.grants[r.ns] = Toggled(@, r.resource)]
        BY <1>3, <1>6, <2>4
    <2>6. GrantsRead(nsPg, r, Fresh)
        BY DEF GrantsInv, GrantsHeld, SetNamespaceGrants, Has
    <2>7. r.grants = Toggled(row.grants, r.resource) /\ row.grants = intended.grants[r.ns] /\ r.ns \in Ids
        BY <2>1, <2>2, <2>6 DEF GrantsRead, NamespaceRow
    <2>8. /\ intended'.grants[r.ns] = r.grants
          /\ \A i \in Ids : i # r.ns => intended'.grants[i] = intended.grants[i]
        BY <2>5, <2>7 DEF NsTyped
    <2>9. Fresh \in Int /\ Fresh' \in Int /\ Fresh <= Fresh' BY <1>1, FreshBounds DEF Shape
    <2> HIDE DEF new, row
    <2>10. NamespaceRow(new, intended', Fresh')
        BY <2>1, <2>2, <2>3, <2>8, <2>9 DEF NamespaceRow, Ids
    <2>11. ASSUME NEW n \in rows, n # row PROVE NamespaceRow(n, intended', Fresh') /\ n.id # new.id
        BY <2>2, <2>11, <2>1, <2>3, <2>8, <2>9 DEF GrantsInv, GrantsHeld, NamespaceRow, Ids
    <2>12. ASSUME NEW u \in NsThreads, nsRequest'[u].op = "grants"
           PROVE  GrantsRead(nsPg', nsRequest'[u], Fresh')
        BY <1>1, <2>12, <2>1, <2>2, <2>3, <2>4, <2>9, <2>11 DEF Shape, GrantsInv, GrantsHeld,
           GrantsRead, NamespaceRow
    <2>13. \A n \in nsPg'.dispatch_namespaces : NamespaceRow(n, intended', Fresh')
        BY <2>4, <2>10, <2>11
    <2>14. \A n, m \in nsPg'.dispatch_namespaces : n.id = m.id => n = m
        BY <2>4, <2>11 DEF GrantsInv, GrantsHeld
    <2>15. \A i \in Ids : i >= Fresh' => intended'.grants[i] = {}
        BY <2>6, <2>9, <2>8 DEF GrantsRead, GrantsInv, GrantsHeld, Ids
    <2> QED BY <2>12, <2>13, <2>14, <2>15 DEF GrantsInv, GrantsHeld
<1> QED BY <1>4, <1>5, <1>6

-----------------------------------------------------------------------------
(* All the other steps leave policies, and who reads them, alone.          *)

\* Scripts,
LEMMA ScriptGrants ==
    ASSUME GrantsInv, NsTyped, ScriptRequests, NEW t \in NsThreads
    PROVE  /\ \A org, ns, kind, customer : RequestScript(t, org, ns, kind, customer) => GrantsInv'
           /\ CreateNamespaceScript(t) => GrantsInv'
           /\ \A org, ns : FindScript(t, org, ns) => GrantsInv'
           /\ DeleteNamespaceScript(t) => GrantsInv'
           /\ \A org, ns, tag, present : DeleteNamespaceScriptsByTag(t, org, ns, tag, present) => GrantsInv'
           /\ \A org, ns, key, token : UploadNewScript(t, org, ns, key, token) => GrantsInv'
<1>1. ASSUME NEW org, NEW ns, NEW kind, NEW customer, RequestScript(t, org, ns, kind, customer)
      PROVE  GrantsInv' BY <1>1, ScriptShapes, OpNames, GrantsAside DEF RequestScript, OtherOps
<1>2. ASSUME CreateNamespaceScript(t) PROVE GrantsInv'
    BY <1>2, ScriptShapes, OpNames, GrantsAside DEF CreateNamespaceScript, OtherOps
<1>3. ASSUME NEW org, NEW ns, FindScript(t, org, ns) PROVE GrantsInv'
    BY <1>3, ScriptShapes, OpNames, GrantsAside DEF FindScript, OtherOps
<1>4. ASSUME DeleteNamespaceScript(t) PROVE GrantsInv'
    BY <1>4, ScriptShapes, OpNames, GrantsAside DEF DeleteNamespaceScript, OtherOps, WorkerTables
<1>5. ASSUME NEW org, NEW ns, NEW tag, NEW present,
             DeleteNamespaceScriptsByTag(t, org, ns, tag, present)
      PROVE  GrantsInv'
    <2>1. Shape(WorkerTables, {"idle"}) BY <1>5, ScriptShapes
    <2>2. intended' = intended BY <1>5, Zenon DEF DeleteNamespaceScriptsByTag
    <2> QED BY <2>1, <2>2, OpNames, GrantsAside DEF OtherOps, WorkerTables
<1>6. ASSUME NEW org, NEW ns, NEW key, NEW token, UploadNewScript(t, org, ns, key, token)
      PROVE  GrantsInv' BY <1>6, ScriptShapes, OpNames, GrantsAside DEF UploadNewScript, OtherOps
<1> QED BY <1>1, <1>2, <1>3, <1>4, <1>5, <1>6

\* uploads,
LEMMA UploadGrants ==
    ASSUME GrantsInv, NsTyped
    PROVE  /\ \A org, ns, customer, manifest : CreateAssetUpload(org, ns, customer, manifest) => GrantsInv'
           /\ \A token, files : UploadAssetFiles(token, files) => GrantsInv'
           /\ PruneExpiredAssetUploads => GrantsInv'
           /\ NsTick => GrantsInv'
<1>1. ASSUME NEW org, NEW ns, NEW customer, NEW manifest, CreateAssetUpload(org, ns, customer, manifest)
      PROVE  GrantsInv'
    BY <1>1, UploadShapes, OpNames, GrantsAside DEF CreateAssetUpload, OtherOps
<1>2. ASSUME NEW token, NEW files, UploadAssetFiles(token, files) PROVE GrantsInv'
    BY <1>2, UploadShapes, OpNames, GrantsAside DEF UploadAssetFiles, OtherOps
<1>3. ASSUME PruneExpiredAssetUploads PROVE GrantsInv'
    BY <1>3, UploadShapes, OpNames, GrantsAside DEF PruneExpiredAssetUploads, OtherOps
<1>4. ASSUME NsTick PROVE GrantsInv'
    BY <1>4, UploadShapes, OpNames, GrantsAside DEF NsTick, OtherOps
<1> QED BY <1>1, <1>2, <1>3, <1>4

\* publications,
LEMMA ManagedGrants ==
    ASSUME GrantsInv, NsTyped, NEW t \in NsThreads
    PROVE  /\ \A w, key, e, token : ReplayManagedRequest(t, w, key, e, token) => GrantsInv'
           /\ ReplayOnce(t) => GrantsInv'
           /\ ReadSnapshot(t) => GrantsInv'
           /\ DeployManagedPublication(t) => GrantsInv'
           /\ \A w : NativeDeploy(t, w) => GrantsInv'
           /\ StoreArtifact(t) => GrantsInv'
           /\ SavePublication(t) => GrantsInv'
           /\ PublishStored(t) => GrantsInv'
<1>1. ASSUME NEW w, NEW key, NEW e, NEW token, ReplayManagedRequest(t, w, key, e, token)
      PROVE  GrantsInv'
    BY <1>1, Commits, ManagedShapes, CommitKeeps, OpNames, GrantsAside DEF ReplayManagedRequest,
       OtherOps
<1>2. ASSUME ReplayOnce(t) PROVE GrantsInv'
    BY <1>2, Commits, ManagedShapes, CommitKeeps, OpNames, GrantsAside DEF ReplayOnce, OtherOps
<1>3. ASSUME ReadSnapshot(t) PROVE GrantsInv'
    BY <1>3, ManagedShapes, OpNames, GrantsAside DEF ReadSnapshot, OtherOps
<1>4. ASSUME DeployManagedPublication(t) PROVE GrantsInv'
    BY <1>4, ManagedShapes, Commits, CommitKeeps, OpNames, GrantsAside DEF
       DeployManagedPublication, OtherOps
<1>5. ASSUME NEW w, NativeDeploy(t, w) PROVE GrantsInv'
    BY <1>5, ManagedShapes, OpNames, GrantsAside DEF NativeDeploy, OtherOps
<1>6. ASSUME StoreArtifact(t) PROVE GrantsInv'
    BY <1>6, ManagedShapes, OpNames, GrantsAside DEF StoreArtifact, OtherOps
<1>7. ASSUME SavePublication(t) PROVE GrantsInv'
    BY <1>7, ManagedShapes, OpNames, GrantsAside DEF SavePublication, OtherOps
<1>8. ASSUME PublishStored(t) PROVE GrantsInv'
    BY <1>8, ManagedShapes, CommitKeeps, OpNames, GrantsAside DEF PublishStored, CommitStep,
       OtherOps
<1> QED BY <1>1, <1>2, <1>3, <1>4, <1>5, <1>6, <1>7, <1>8

\* what is derived from them,
LEMMA DerivedGrants ==
    ASSUME GrantsInv, NsTyped, NEW t \in NsThreads
    PROVE  /\ \A w, e : MutateManagedSecret(t, w, e) => GrantsInv'
           /\ \A d : UpdateVars(t, d) => GrantsInv'
           /\ ReconcileVars(t) => GrantsInv'
           /\ StopProcess(t) => GrantsInv'
BY DerivedShapes, OpNames, GrantsAside, Commits, CommitKeeps DEF MutateManagedSecret, OtherOps,
   UpdateVars, ReconcileVars, StopProcess

\* and recovery.
LEMMA RecoveryGrants ==
    ASSUME GrantsInv, NsTyped
    PROVE  /\ \A d : RecoverActive(d) => GrantsInv'
           /\ \A k : RecoverPublications(k) => GrantsInv'
BY Commits, RecoveryShapes, CommitKeeps, OpNames, GrantsAside DEF RecoverActive, OtherOps,
   RecoverPublications

\* So every step keeps what is known of policies.
LEMMA GrantsKept ==
    ASSUME GrantsInv, NsTyped, ScriptRequests, [NamespacesNext]_namespacesVars
    PROVE  GrantsInv'
<1>1. CASE PoliciesNext
    BY <1>1, CreateNamespaceGrants, RenameNamespaceGrants, DeleteNamespaceGrants,
       GetNamespaceGrants, SetNamespaceGrantsHeld, ScriptGrants DEF PoliciesNext
<1>2. CASE PublicationSteps BY <1>2, ManagedGrants, DerivedGrants, RecoveryGrants DEF PublicationSteps
<1>3. CASE ManagedNext
    BY <1>2, <1>3, ManagedGrants, DerivedGrants, RecoveryGrants, ScriptGrants DEF ManagedNext
<1>4. CASE AssetsNext
    BY <1>2, <1>4, ManagedGrants, ScriptGrants, UploadGrants, DeleteNamespaceGrants DEF AssetsNext
<1>5. CASE UNCHANGED namespacesVars
    BY <1>5 DEF namespacesVars, nsRepositories, nsBudget, GrantsInv, GrantsHeld, Fresh,
       GrantsRead, NamespaceRow
<1> QED BY <1>1, <1>3, <1>4, <1>5 DEF NamespacesNext

-----------------------------------------------------------------------------
(* Scripts and their management states.                                    *)

BornGrows == \A w : Born(w, nsRequest, Fresh) => Born(w, nsRequest', Fresh')
IsWorker(db, w) == \E x \in db.workers : x.id = w
NoneRevived == \A w : Born(w, nsRequest, Fresh) /\ IsWorker(nsPg', w) => IsWorker(nsPg, w)
DerivedStays == \A a : Derived(nsPg, a) /\ IsWorker(nsPg', a.worker) => Derived(nsPg', a)
PendingIn(db, r, req, fresh) ==
    /\ Deploying(r) => Pending(db, r, req, fresh)
    /\ r.op = "build" => Pending(db, r.artifact, req, fresh)

\* Ids are handed out in increasing order.
LEMMA FreshGrows ==
    ASSUME NsTyped, NEW tables, NEW ops, Shape(tables, ops)
    PROVE  Fresh \in Int /\ Fresh' \in Int /\ Fresh <= Fresh'
BY FreshBounds DEF Shape

\* A worker that was created is not created again.
LEMMA BornAside ==
    ASSUME NsTyped, NEW tables, NEW ops, Shape(tables, ops), CreateOp \notin ops
    PROVE  BornGrows
<1>1. Fresh \in Int /\ Fresh' \in Int /\ Fresh <= Fresh' BY FreshGrows
<1>2. \A u \in NsThreads : Creating(nsRequest'[u]) => nsRequest'[u] = nsRequest[u]
    BY DEF Shape, Creating
<1>3. ASSUME NEW w, Born(w, nsRequest, Fresh) PROVE Born(w, nsRequest', Fresh')
    BY <1>3, <1>1, <1>2 DEF Born
<1> QED BY <1>3 DEF BornGrows

\* What is being published stays derived from the revision it was read at.
LEMMA PendingMoves ==
    ASSUME BornGrows, NoneRevived, DerivedStays, NEW a, Pending(nsPg, a, nsRequest, Fresh)
    PROVE  Pending(nsPg', a, nsRequest', Fresh')
BY DEF Pending, BornGrows, NoneRevived, IsWorker, DerivedStays

\* It is enough to look at the requests that turn.
LEMMA PendingKept ==
    ASSUME PendingHeld(nsPg, nsRequest, Fresh), BornGrows, NoneRevived, DerivedStays,
           \A u \in NsThreads : \/ nsRequest'[u] = nsRequest[u]
                                \/ PendingIn(nsPg', nsRequest'[u], nsRequest', Fresh')
    PROVE  PendingHeld(nsPg', nsRequest', Fresh')
<1>1. \A a : Pending(nsPg, a, nsRequest, Fresh) => Pending(nsPg', a, nsRequest', Fresh')
    BY PendingMoves
<1>2. ASSUME NEW u \in NsThreads PROVE PendingIn(nsPg', nsRequest'[u], nsRequest', Fresh')
    BY <1>1 DEF PendingHeld, PendingIn
<1> QED BY <1>2 DEF PendingHeld, PendingIn

\* Workers are only taken away, and no request for a script is new.
LEMMA WorkersAside ==
    ASSUME NsTyped, WorkersHeld(nsPg, nsRequest, Fresh), NEW tables, NEW ops, Shape(tables, ops),
           CreateOp \notin ops, nsPg'.workers \subseteq nsPg.workers
    PROVE  WorkersHeld(nsPg', nsRequest', Fresh') /\ NoneRevived
<1>1. Fresh \in Int /\ Fresh' \in Int /\ Fresh <= Fresh' BY FreshGrows
<1>2. \A u \in NsThreads : Creating(nsRequest'[u]) => nsRequest'[u] = nsRequest[u]
    BY DEF Shape, Creating
<1>3. \A w \in nsPg'.workers : "id" \in DOMAIN w /\ Born(w.id, nsRequest', Fresh')
    BY BornAside DEF WorkersHeld, BornGrows
<1>4. ASSUME NEW t \in NsThreads, Creating(nsRequest'[t])
      PROVE  CreatingOK(nsRequest'[t], Fresh') BY <1>2, <1>4, <1>1 DEF WorkersHeld, CreatingOK
<1>5. \A t, u \in NsThreads :
         Creating(nsRequest'[t]) /\ Creating(nsRequest'[u])
         /\ nsRequest'[t].app.id = nsRequest'[u].app.id => t = u
    BY <1>2 DEF WorkersHeld
<1>6. /\ \A v, w \in nsPg'.workers : v.id = w.id => v = w
      /\ \A v, w \in nsPg'.workers : v.ns = w.ns /\ v.script = w.script => v = w
    BY DEF WorkersHeld
<1>7. NoneRevived BY DEF NoneRevived, IsWorker
<1> QED BY <1>3, <1>4, <1>5, <1>6, <1>7 DEF WorkersHeld

\* Steps that touch no worker, state or artifact, and let no publication go on.
LEMMA EditsAside ==
    ASSUME NsTyped, EditsInv, NEW tables, NEW ops, Shape(tables, ops),
           tables \cap {"workers", "worker_management", "deployment_artifacts"} = {},
           ops \cap {CreateOp, DeployOp, "build"} = {},
           intended'.metadata = intended.metadata
    PROVE  EditsInv'
<1>1. /\ nsPg'.workers = nsPg.workers /\ nsPg'.worker_management = nsPg.worker_management
      /\ nsPg'.deployment_artifacts = nsPg.deployment_artifacts
    BY DEF Shape, NsKeeps, NsTables
<1>2. WorkersHeld(nsPg', nsRequest', Fresh') /\ NoneRevived
    BY <1>1, WorkersAside DEF EditsInv
<1>3. StatesHeld(nsPg', intended') BY <1>1 DEF EditsInv, StatesHeld, Derived
<1>4. DerivedStays BY <1>1 DEF DerivedStays, Derived
<1>5. \A u \in NsThreads : \/ nsRequest'[u] = nsRequest[u]
                           \/ PendingIn(nsPg', nsRequest'[u], nsRequest', Fresh')
    BY OpNames DEF Shape, PendingIn, Deploying, OtherOps
<1>6. PendingHeld(nsPg', nsRequest', Fresh')
    BY <1>2, <1>4, <1>5, BornAside, PendingKept DEF EditsInv
<1> QED BY <1>2, <1>3, <1>6 DEF EditsInv

\* Deleting workers takes their states and artifacts along.
LEMMA DeletedEdits ==
    ASSUME NsTyped, EditsInv, NEW ids, Shape(WorkerTables, {"idle"}), intended' = intended,
           nsPg' = PgWithoutWorkers(nsPg, ids)
    PROVE  EditsInv'
<1>1. /\ nsPg'.workers = {r \in nsPg.workers : r.id \notin ids}
      /\ nsPg'.worker_management = {r \in nsPg.worker_management : r.worker \notin ids}
      /\ nsPg'.deployment_artifacts = {r \in nsPg.deployment_artifacts : r.worker \notin ids}
    BY DEF PgWithoutWorkers, NsTyped, NsTables
<1>2. WorkersHeld(nsPg', nsRequest', Fresh') /\ NoneRevived
    BY <1>1, OpNames, WorkersAside DEF EditsInv, OtherOps
<1>3. \A a : Derived(nsPg, a) /\ a.worker \notin ids => Derived(nsPg', a)
    BY <1>1 DEF Derived
<1>4. StatesHeld(nsPg', intended') BY <1>1, <1>3 DEF EditsInv, StatesHeld
<1>5. DerivedStays BY <1>1, <1>3 DEF DerivedStays, IsWorker
<1>6. \A u \in NsThreads : \/ nsRequest'[u] = nsRequest[u]
                           \/ PendingIn(nsPg', nsRequest'[u], nsRequest', Fresh')
    BY OpNames DEF Shape, PendingIn, Deploying, OtherOps
<1>7. PendingHeld(nsPg', nsRequest', Fresh')
    BY <1>2, <1>5, <1>6, OpNames, BornAside, PendingKept DEF EditsInv, OtherOps
<1> QED BY <1>2, <1>4, <1>7 DEF EditsInv

\* A request for a new script carries an id of its own.
LEMMA RequestedEdits ==
    ASSUME NsTyped, EditsInv, NEW t \in NsThreads, NEW r, Enters(t, r), Creating(r),
           CreatingOK(r, Fresh + 1), r.app.id = Fresh, Shape({}, {CreateOp}),
           intended' = intended
    PROVE  EditsInv'
<1>1. nsPg'.workers = nsPg.workers /\ nsPg'.worker_management = nsPg.worker_management
      /\ nsPg'.deployment_artifacts = nsPg.deployment_artifacts
    BY DEF Shape, NsKeeps, NsTables
<1>2. /\ Fresh \in Int /\ Fresh' = Fresh + 1 /\ nsRequest'[t] = r
      /\ \A u \in NsThreads : u # t => nsRequest'[u] = nsRequest[u]
    BY FreshBounds DEF Enters, Goes, NsTyped
<1>3. ASSUME NEW w, Born(w, nsRequest, Fresh) PROVE Born(w, nsRequest', Fresh')
    <2>1. w \in Int /\ 1 <= w /\ w < Fresh BY <1>3 DEF Born
    <2>2. w < Fresh' /\ w # Fresh BY <1>2, <2>1
    <2>3. ASSUME NEW u \in NsThreads, Creating(nsRequest'[u])
          PROVE  nsRequest'[u].app.id # w BY <1>2, <2>2, <1>3, <2>3 DEF Born
    <2> QED BY <2>1, <2>2, <2>3 DEF Born
<1>4. NoneRevived BY <1>1 DEF NoneRevived, IsWorker
<1>5. DerivedStays BY <1>1 DEF DerivedStays, Derived
<1>6. StatesHeld(nsPg', intended') BY <1>1 DEF EditsInv, StatesHeld, Derived
<1>7. \A u \in NsThreads : \/ nsRequest'[u] = nsRequest[u]
                           \/ PendingIn(nsPg', nsRequest'[u], nsRequest', Fresh')
    BY <1>2, OpNames DEF PendingIn, Deploying, Creating, OtherOps
<1>8. PendingHeld(nsPg', nsRequest', Fresh')
    BY <1>3, <1>4, <1>5, <1>7, PendingKept DEF EditsInv, BornGrows
<1>9. ASSUME NEW u \in NsThreads, Creating(nsRequest[u])
      PROVE  CreatingOK(nsRequest[u], Fresh) /\ nsRequest[u].app.id # Fresh
    BY <1>9, <1>2 DEF EditsInv, WorkersHeld, CreatingOK
<1>10. ASSUME NEW u \in NsThreads, Creating(nsRequest'[u])
       PROVE  CreatingOK(nsRequest'[u], Fresh') BY <1>2, <1>9, <1>10 DEF CreatingOK
<1>11. \A u, v \in NsThreads :
         Creating(nsRequest'[u]) /\ Creating(nsRequest'[v])
         /\ nsRequest'[u].app.id = nsRequest'[v].app.id => u = v
    BY <1>2, <1>9 DEF EditsInv, WorkersHeld
<1>12. WorkersHeld(nsPg', nsRequest', Fresh')
    BY <1>1, <1>3, <1>10, <1>11 DEF EditsInv, WorkersHeld
<1> QED BY <1>6, <1>8, <1>12 DEF EditsInv

\* A created script is a new worker; what is to follow starts from no revision.
LEMMA CreatedEdits ==
    ASSUME NsTyped, EditsInv, ScriptRequests, NEW t \in NsThreads, CreateNamespaceScript(t)
    PROVE  EditsInv'
<1>1. Shape({"workers"}, {"idle", DeployOp}) /\ intended' = intended
    BY ScriptShapes DEF CreateNamespaceScript
<1>2. PICK r, a : r = nsRequest[t] /\ a = r.app OBVIOUS
<1>3. PICK p : p = PgCreateScript(nsPg, a) OBVIOUS
<1>4. /\ Creating(r) /\ nsPg' = p.db
      /\ nsRequest' = [nsRequest EXCEPT ![t] = IF p.out = "ok" THEN r.then ELSE NoRequest]
    BY <1>2, <1>3, WritesEffect, Zenon DEF CreateNamespaceScript, Goes, Has, Creating, CreateOp
<1>5. CreatingOK(r, Fresh) BY <1>2, <1>4 DEF EditsInv, WorkersHeld
<1>6. \/ p.db = nsPg
      \/ /\ p.db = [nsPg EXCEPT !.workers = @ \cup {a}]
         /\ ~\E x \in nsPg.workers : x.ns = a.ns /\ x.script = a.script
    BY <1>3, Accepted, Denied DEF PgCreateScript
<1>7. /\ nsPg'.worker_management = nsPg.worker_management
      /\ nsPg'.deployment_artifacts = nsPg.deployment_artifacts
    BY <1>1 DEF Shape, NsKeeps, NsTables
<1>8. BornGrows BY <1>1, OpNames, BornAside DEF OtherOps
<1>9. Fresh \in Int /\ Fresh' \in Int /\ Fresh <= Fresh' BY <1>1, FreshGrows
<1>10. ~Creating(nsRequest'[t]) /\ PendingIn(nsPg', nsRequest'[t], nsRequest', Fresh')
    BY <1>4, OpNames, <1>5 DEF NsTyped, NoRequest, Creating, PendingIn, Deploying, OtherOps,
       CreatingOK, Pending
<1>11. \A u \in NsThreads : u # t => nsRequest'[u] = nsRequest[u] BY <1>4 DEF NsTyped
<1>12. nsPg'.workers = nsPg.workers \/ nsPg'.workers = nsPg.workers \cup {a}
    BY <1>4, <1>6 DEF NsTyped, NsTables
<1>13. ASSUME NEW w, Born(w, nsRequest, Fresh) PROVE w # a.id
    BY <1>2, <1>4, <1>13 DEF Born
<1>14. NoneRevived BY <1>12, <1>13 DEF NoneRevived, IsWorker
<1>15. DerivedStays BY <1>7 DEF DerivedStays, Derived
<1>16. StatesHeld(nsPg', intended') BY <1>1, <1>7 DEF EditsInv, StatesHeld, Derived
<1>17. PendingHeld(nsPg', nsRequest', Fresh')
    BY <1>8, <1>10, <1>11, <1>14, <1>15, PendingKept DEF EditsInv
<1>18. Born(a.id, nsRequest', Fresh')
    BY <1>2, <1>5, <1>9, <1>10, <1>11, <1>4 DEF CreatingOK, EditsInv, WorkersHeld, Born
<1>19. \A w \in nsPg'.workers : "id" \in DOMAIN w /\ Born(w.id, nsRequest', Fresh')
    BY <1>2, <1>5, <1>8, <1>12, <1>18 DEF EditsInv, WorkersHeld, BornGrows, CreatingOK
<1>20. \A v, w \in nsPg'.workers : v.id = w.id => v = w BY <1>13, <1>12 DEF EditsInv, WorkersHeld
<1>21. \A v, w \in nsPg'.workers : v.ns = w.ns /\ v.script = w.script => v = w
    BY <1>4, <1>6 DEF NsTyped, NsTables, EditsInv, WorkersHeld
<1>22. ASSUME NEW u \in NsThreads, Creating(nsRequest'[u]) PROVE CreatingOK(nsRequest'[u], Fresh')
    BY <1>10, <1>11, <1>22, <1>9 DEF EditsInv, WorkersHeld, CreatingOK
<1>23. \A u, v \in NsThreads :
          Creating(nsRequest'[u]) /\ Creating(nsRequest'[v])
          /\ nsRequest'[u].app.id = nsRequest'[v].app.id => u = v
    BY <1>10, <1>11 DEF EditsInv, WorkersHeld
<1>24. WorkersHeld(nsPg', nsRequest', Fresh')
    BY <1>19, <1>20, <1>21, <1>22, <1>23 DEF WorkersHeld
<1> QED BY <1>16, <1>17, <1>24 DEF EditsInv

-----------------------------------------------------------------------------
\* A commit replaces the state of one worker with the one derived from it.
LEMMA CommitRows ==
    ASSUME NsTyped, StatesHeld(nsPg, intended), NEW w, NEW a, CommitTo(w, a),
           NEW new, new = [worker |-> w, revision |-> a.expected + 1, deployment |-> a.id,
                           metadata |-> a.metadata]
    PROVE  /\ nsPg'.worker_management = {s \in nsPg.worker_management : s.worker # w} \cup {new}
           /\ nsPg'.workers = nsPg.workers /\ nsPg'.deployment_artifacts = nsPg.deployment_artifacts
           /\ \A s \in nsPg.worker_management : s.worker = w => s.revision = a.expected
           /\ a.expected \in Nat
           /\ (\E s \in nsPg.worker_management : s.worker = w) \/ a.expected = 0
<1>1. PICK prior : prior = One({s \in nsPg.worker_management : s.worker = w}) OBVIOUS
<1>2. /\ a \in nsPg.deployment_artifacts /\ a.worker = w /\ a.expected >= 0
      /\ IF prior = NotFound THEN a.expected = 0 ELSE prior.revision = a.expected
      /\ nsPg' = [nsPg EXCEPT !.worker_management = Replace(@, {prior}, {new})]
    BY <1>1 DEF CommitTo
<1>3. /\ nsPg'.worker_management = (nsPg.worker_management \ {prior}) \cup {new}
      /\ nsPg'.workers = nsPg.workers /\ nsPg'.deployment_artifacts = nsPg.deployment_artifacts
    BY <1>2 DEF NsTyped, NsTables, Replace
<1>4. a.expected \in Nat BY <1>2 DEF StatesHeld, Derived
<1>5. \A s \in nsPg.worker_management : s # NotFound BY RowFound DEF StatesHeld
<1>6. CASE \E s \in nsPg.worker_management : s.worker = w
    <2>1. prior \in {s \in nsPg.worker_management : s.worker = w} BY <1>1, <1>6, OneFound
    <2>2. \A s \in nsPg.worker_management : s.worker = w <=> s = prior BY <2>1 DEF StatesHeld
    <2>3. prior.revision = a.expected BY <1>2, <1>5, <2>1
    <2> QED BY <1>3, <1>4, <1>6, <2>2, <2>3
<1>7. CASE ~\E s \in nsPg.worker_management : s.worker = w
    <2>1. prior = NotFound BY <1>1, <1>7, OneFound
    <2> QED BY <1>2, <1>3, <1>4, <1>5, <1>7, <2>1
<1> QED BY <1>6, <1>7

\* After a commit every state is again what was intended, and what was derived from the
\* revision it replaced can no longer be committed.
LEMMA CommitStates ==
    ASSUME NsTyped, WorkersHeld(nsPg, nsRequest, Fresh), StatesHeld(nsPg, intended), CommitStep
    PROVE  /\ StatesHeld(nsPg', intended') /\ DerivedStays
           /\ nsPg'.workers = nsPg.workers /\ nsPg'.deployment_artifacts = nsPg.deployment_artifacts
<1>1. CASE nsPg' = nsPg /\ intended' = intended BY <1>1 DEF StatesHeld, DerivedStays, Derived
<1>2. ASSUME NEW w, NEW a, CommitTo(w, a)
      PROVE  /\ StatesHeld(nsPg', intended') /\ DerivedStays
             /\ nsPg'.workers = nsPg.workers
             /\ nsPg'.deployment_artifacts = nsPg.deployment_artifacts
    <2>1. PICK new : new = [worker |-> w, revision |-> a.expected + 1, deployment |-> a.id,
                            metadata |-> a.metadata] OBVIOUS
    <2>2. /\ nsPg'.worker_management = {s \in nsPg.worker_management : s.worker # w} \cup {new}
          /\ nsPg'.workers = nsPg.workers /\ nsPg'.deployment_artifacts = nsPg.deployment_artifacts
          /\ \A s \in nsPg.worker_management : s.worker = w => s.revision = a.expected
          /\ a.expected \in Nat
          /\ (\E s \in nsPg.worker_management : s.worker = w) \/ a.expected = 0
        BY <1>2, <2>1, CommitRows
    <2>3. /\ new.worker = w /\ new.revision = a.expected + 1 /\ new.metadata = a.metadata
          /\ "worker" \in DOMAIN new
        BY <2>1
    <2>4. a \in nsPg.deployment_artifacts /\ a.worker = w /\ \E x \in nsPg.workers : x.id = w
        BY <1>2 DEF CommitTo
    <2>5. w \in Ids BY <2>4, FreshBounds DEF WorkersHeld, Born
    <2>6. PICK m : m = IF a.expected + 1 = 1 THEN a.metadata ELSE Edited(intended.metadata[w], a.edit)
        OBVIOUS
    <2>7. intended' = [intended EXCEPT !.metadata[w] = m] BY <1>2, <2>6 DEF CommitTo
    <2>8. /\ intended'.metadata[w] = m
          /\ \A i \in Ids : i # w => intended'.metadata[i] = intended.metadata[i]
        BY <2>5, <2>7 DEF NsTyped
    <2>9. m = a.metadata BY <2>6, <2>2, <2>4 DEF StatesHeld, Derived
    <2>10. ASSUME NEW s \in nsPg'.worker_management
           PROVE  /\ "worker" \in DOMAIN s /\ s.worker \in Ids /\ s.revision \in Nat /\ s.revision >= 1
                  /\ s.metadata = intended'.metadata[s.worker]
        BY <2>2, <2>3, <2>5, <2>8, <2>9 DEF StatesHeld
    <2>11. \A r, s \in nsPg'.worker_management : r.worker = s.worker => r = s
        BY <2>2, <2>3 DEF StatesHeld
    <2>12. ASSUME NEW b, Derived(nsPg, b) PROVE Derived(nsPg', b)
        <3>1. b.expected \in Int BY <2>12 DEF Derived
        <3>2. ASSUME b.expected >= 1
              PROVE  \E s \in nsPg'.worker_management :
                        /\ s.worker = b.worker /\ b.expected <= s.revision
                        /\ s.revision = b.expected => b.metadata = Edited(s.metadata, b.edit)
            BY <2>12, <3>2, <2>2, <2>3, <3>1 DEF Derived
        <3> QED BY <3>1, <3>2 DEF Derived
    <2>13. \A b \in nsPg'.deployment_artifacts : Derived(nsPg', b)
        BY <2>2, <2>12 DEF StatesHeld
    <2>14. DerivedStays BY <2>12 DEF DerivedStays
    <2> QED BY <2>2, <2>10, <2>11, <2>13, <2>14 DEF StatesHeld
<1> QED BY <1>1, <1>2, CommitEffect

\* Any step that replays or commits, and no more.
LEMMA CommittedEdits ==
    ASSUME NsTyped, EditsInv, CommitStep, NEW tables, NEW ops, Shape(tables, ops),
           CreateOp \notin ops, DeployOp \notin ops, "build" \notin ops
    PROVE  EditsInv'
BY CommitStates, WorkersAside, BornAside, PendingKept DEF EditsInv, Shape, PendingIn, Deploying

\* New content keeps tags and secrets.
LEMMA ContentEdited ==
    ASSUME NEW m, NEW f
    PROVE  Edited(m, Edit("content.put", CfContentPut(Blank, f))) = CfContentPut(m, f)
BY DEF Edit, CfContentPut, Blank, Edited

-----------------------------------------------------------------------------
(* Deriving the next upload from the latest.                               *)

\* The latest state is a row of the worker.
LEMMA LatestFound ==
    ASSUME NEW w, LatestState(w) # NotFound
    PROVE  LatestState(w) \in nsPg.worker_management /\ LatestState(w).worker = w
BY OneFound DEF LatestState, PgGetScriptManagementState

\* Metadata edited from the latest state, at its revision, is derived.
LEMMA DerivedFromLatest ==
    ASSUME StatesHeld(nsPg, intended), NEW a, NEW state, state \in nsPg.worker_management,
           state.worker = a.worker, a.expected = state.revision,
           a.metadata = Edited(state.metadata, a.edit)
    PROVE  Derived(nsPg, a)
BY DEF StatesHeld, Derived

\* The latest upload is the state, or has revision 0.
LEMMA UploadDerived ==
    ASSUME StatesHeld(nsPg, intended), NEW w, NEW u, u = ManagementUpload(w), u # NotFound
    PROVE  \/ u.revision = 0
           \/ \E s \in nsPg.worker_management :
                 s.worker = w /\ s.revision = u.revision /\ s.metadata = u.metadata
BY LatestFound DEF ManagementUpload

\* What is pending is known by four of its fields.
LEMMA PendingSame ==
    ASSUME NEW db, NEW a, NEW b, NEW req, NEW fresh, Pending(db, a, req, fresh),
           b.expected = a.expected, b.worker = a.worker, b.metadata = a.metadata, b.edit = a.edit
    PROVE  Pending(db, b, req, fresh)
BY DEF Pending, Derived

\* A new request of one thread, when nothing that is stored changes.
LEMMA RequestEdits ==
    ASSUME NsTyped, EditsInv, NEW t \in NsThreads, NEW tables, NEW ops, Shape(tables, ops),
           CreateOp \notin ops, intended'.metadata = intended.metadata,
           nsPg'.workers = nsPg.workers, nsPg'.worker_management = nsPg.worker_management,
           nsPg'.deployment_artifacts = nsPg.deployment_artifacts,
           \A u \in NsThreads : u # t => nsRequest'[u] = nsRequest[u],
           BornGrows /\ NoneRevived /\ DerivedStays
           => PendingIn(nsPg', nsRequest'[t], nsRequest', Fresh')
    PROVE  EditsInv'
BY WorkersAside, BornAside, PendingKept DEF EditsInv, StatesHeld, Derived, DerivedStays

\* A snapshot carries the revision it was read at.
LEMMA SnapshotEdits ==
    ASSUME NsTyped, EditsInv, NEW t \in NsThreads, ReadSnapshot(t)
    PROVE  EditsInv'
<1>1. Shape({}, {"idle", "retry", DeployOp}) /\ nsPg' = nsPg /\ intended' = intended
    BY ManagedShapes DEF ReadSnapshot, nsRepositories
<1>2. PICK r, u : r = nsRequest[t] /\ u = ManagementUpload(r.worker) OBVIOUS
<1>3. \/ Goes(t, NoRequest) \/ Goes(t, Retry(r))
      \/ /\ One({w \in nsPg.workers : w.id = r.worker}) # NotFound
         /\ \/ Goes(t, Deploy(r, 0, 0, Edited(Blank, r.edit)))
            \/ /\ u # NotFound
               /\ Goes(t, Deploy(r, u.revision, u.deployment, Edited(u.metadata, r.edit)))
    BY <1>2, Zenon DEF ReadSnapshot
<1>4. PICK d, x, b, m :
         /\ Goes(t, d) /\ d \in {NoRequest, Retry(r), Deploy(r, x, b, m)}
         /\ d = Deploy(r, x, b, m)
            => /\ One({w \in nsPg.workers : w.id = r.worker}) # NotFound
               /\ x = 0 \/ (u # NotFound /\ x = u.revision /\ m = Edited(u.metadata, r.edit))
    <2>1. CASE Goes(t, NoRequest) BY OpsOf, OpNames, <2>1 DEF OtherOps
    <2>2. CASE Goes(t, Retry(r)) BY OpsOf, OpNames, <2>2 DEF OtherOps
    <2> QED BY <1>3, <2>1, <2>2
<1>5. /\ nsRequest'[t] = d /\ \A v \in NsThreads : v # t => nsRequest'[v] = nsRequest[v]
    BY <1>4 DEF Goes, NsTyped
<1>6. ASSUME BornGrows, NoneRevived, DerivedStays
      PROVE  PendingIn(nsPg', d, nsRequest', Fresh')
    <2>1. CASE d = NoRequest \/ d = Retry(r)
        BY <2>1, OpsOf, OpNames DEF PendingIn, Deploying, OtherOps
    <2>2. CASE d = Deploy(r, x, b, m)
        <3>1. d.expected = x /\ d.worker = r.worker /\ d.metadata = m /\ d.edit = r.edit
              /\ d.op = DeployOp
            BY <2>2, Zenon DEF Deploy, DeployOp
        <3>2. PICK w : w \in nsPg.workers /\ w.id = r.worker BY <1>4, <2>2, OneFound
        <3>3. Born(d.worker, nsRequest', Fresh')
            BY <1>6, <3>1, <3>2 DEF EditsInv, WorkersHeld, BornGrows
        <3>4. Derived(nsPg, d)
            BY <3>1, <1>2, UploadDerived, DerivedFromLatest, <1>4, <2>2 DEF Derived, EditsInv
        <3>5. Derived(nsPg', d) BY <1>1, <3>4 DEF Derived
        <3>6. d.op # "build" BY <3>1, OpNames DEF OtherOps
        <3> QED BY <3>3, <3>5, <3>6 DEF PendingIn, Pending, Derived
    <2> QED BY <1>4, <2>1, <2>2
<1> QED BY <1>1, <1>5, <1>6, OpNames, RequestEdits DEF OtherOps

\* Deploying takes the guard with what was derived from the latest upload, if it still is that.
LEMMA DeployEdits ==
    ASSUME NsTyped, EditsInv, NEW t \in NsThreads, DeployManagedPublication(t)
    PROVE  EditsInv'
<1>1. Shape({"worker_management", "asset_upload_sessions"}, {"idle", "build", "retry"})
    BY ManagedShapes
<1>2. PICK r : r = nsRequest[t] OBVIOUS
<1>3. Deploying(r) BY <1>2, Zenon DEF DeployManagedPublication, Has, Deploying, DeployOp
<1>4. \/ CommitStep /\ (Goes(t, NoRequest) \/ Goes(t, Retry(r)))
      \/ /\ Goes(t, Build(r, r.expected, r.metadata)) /\ intended' = intended
         /\ (r.token = NoToken /\ UNCHANGED nsRepositories) \/ BindCompletedAssetUpload(r.worker, r.token)
    BY <1>2, Commits, Zenon DEF DeployManagedPublication, CommitStep
<1>5. ASSUME CommitStep, Goes(t, NoRequest) \/ Goes(t, Retry(r)) PROVE EditsInv'
    BY <1>5, OpsOf, EntersTurns, CommitKeeps, ShapeOf, OpNames, CommittedEdits DEF
       DeployManagedPublication, nsBudget, CountsDown, OtherOps
<1>6. ASSUME Goes(t, Build(r, r.expected, r.metadata)), intended' = intended,
             (r.token = NoToken /\ UNCHANGED nsRepositories) \/ BindCompletedAssetUpload(r.worker, r.token)
      PROVE  EditsInv'
    <2>1. NsKeeps(nsPg, nsPg', {"asset_upload_sessions"})
        BY <1>6, WritesEffect, NsCallsKeep, KeepsAll DEF BindCompletedAssetUpload,
           nsRepositories, NsTyped
    <2>2. nsPg'.workers = nsPg.workers /\ nsPg'.worker_management = nsPg.worker_management
          /\ nsPg'.deployment_artifacts = nsPg.deployment_artifacts
        BY <2>1 DEF NsKeeps, NsTables
    <2>3. PICK b : b = Build(r, r.expected, r.metadata) OBVIOUS
    <2>4. nsRequest'[t] = b /\ \A v \in NsThreads : v # t => nsRequest'[v] = nsRequest[v]
        BY <1>6, <2>3 DEF Goes, NsTyped
    <2>5. ASSUME BornGrows, NoneRevived, DerivedStays
          PROVE  PendingIn(nsPg', b, nsRequest', Fresh')
        BY <1>2, <1>3, <2>3, PendingSame, <2>5, PendingMoves, OpNames DEF EditsInv, PendingHeld,
           Build, Deploying, OtherOps, PendingIn
    <2> QED BY <1>1, <1>6, <2>2, <2>4, <2>5, OpNames, RequestEdits DEF OtherOps
<1> QED BY <1>4, <1>5, <1>6

\* A native deployment keeps the tags and secrets of the latest upload.
LEMMA NativeEdits ==
    ASSUME NsTyped, EditsInv, NEW t \in NsThreads, NEW w, NativeDeploy(t, w)
    PROVE  EditsInv'
<1>1. Shape({}, {"build"}) /\ nsPg' = nsPg /\ intended' = intended
    BY ManagedShapes DEF NativeDeploy, nsRepositories
<1>2. PICK state, e, r, f :
         /\ state = LatestState(w) /\ f = Fresh /\ e = Edit("content.put", CfContentPut(Blank, f))
         /\ r = [worker |-> w, key |-> <<"native", f>>, edit |-> e, token |-> NoToken, id |-> f]
    OBVIOUS
<1>3. \/ state = NotFound /\ Enters(t, Build(r, -1, CfContentPut(Blank, f)))
      \/ state # NotFound /\ Enters(t, Build(r, state.revision, CfContentPut(state.metadata, f)))
    BY <1>2, Zenon DEF NativeDeploy
<1>4. PICK x, m : /\ Enters(t, Build(r, x, m))
                  /\ x = -1 \/ (state # NotFound /\ x = state.revision /\ m = Edited(state.metadata, e))
    BY <1>2, ContentEdited, <1>3
<1>5. PICK b : b = Build(r, x, m) OBVIOUS
<1>6. nsRequest'[t] = b /\ \A v \in NsThreads : v # t => nsRequest'[v] = nsRequest[v]
    BY <1>4, <1>5 DEF Enters, Goes, NsTyped
<1>7. b.op = "build" /\ b.artifact.expected = x /\ b.artifact.worker = w
      /\ b.artifact.metadata = m /\ b.artifact.edit = e
    BY <1>2, <1>5 DEF Build
<1>8. ASSUME BornGrows, NoneRevived, DerivedStays
      PROVE  PendingIn(nsPg', b, nsRequest', Fresh')
    <2>1. IsWorker(nsPg, w) BY DEF NativeDeploy, IsWorker
    <2>2. Born(w, nsRequest', Fresh') BY <1>8, <2>1 DEF EditsInv, WorkersHeld, BornGrows, IsWorker
    <2>3. Derived(nsPg, b.artifact)
        BY <1>7, <1>2, LatestFound, DerivedFromLatest, <1>4 DEF Derived, EditsInv
    <2>4. Derived(nsPg', b.artifact) BY <1>1, <2>3 DEF Derived
    <2>5. ~Deploying(b) BY <1>7, OpNames DEF Deploying, OtherOps
    <2> QED BY <1>7, <2>2, <2>4, <2>5 DEF PendingIn, Pending, Derived
<1> QED BY <1>1, <1>6, <1>8, OpNames, RequestEdits DEF OtherOps

-----------------------------------------------------------------------------
\* An artifact that is derived from the latest upload is stored.
LEMMA ArtifactEdits ==
    ASSUME NsTyped, EditsInv, NEW a, nsPg' = PgPutDeploymentArtifact(nsPg, a).db,
           a.expected \in Int, IsWorker(nsPg, a.worker) => Derived(nsPg, a), intended' = intended,
           NEW ops, Shape({"deployment_artifacts"}, ops),
           CreateOp \notin ops, DeployOp \notin ops, "build" \notin ops
    PROVE  EditsInv'
<1>1. nsPg'.workers = nsPg.workers /\ nsPg'.worker_management = nsPg.worker_management
    BY DEF Shape, NsKeeps, NsTables
<1>2. \/ nsPg' = nsPg
      \/ /\ IsWorker(nsPg, a.worker)
         /\ nsPg'.deployment_artifacts = nsPg.deployment_artifacts \cup {a}
    <2>1. PICK p : p = PgPutDeploymentArtifact(nsPg, a) OBVIOUS
    <2>2. \/ p = Done(nsPg) \/ \E why : p = Refused(nsPg, why)
          \/ /\ \E x \in nsPg.workers : x.id = a.worker
             /\ p = Done([nsPg EXCEPT !.deployment_artifacts = @ \cup {a}])
        BY <2>1, Zenon DEF PgPutDeploymentArtifact
    <2>3. PICK db : db = [nsPg EXCEPT !.deployment_artifacts = @ \cup {a}] OBVIOUS
    <2>4. db.deployment_artifacts = nsPg.deployment_artifacts \cup {a} BY <2>3 DEF NsTyped, NsTables
    <2>5. nsPg' = nsPg \/ (IsWorker(nsPg, a.worker) /\ nsPg' = db)
        BY <2>1, <2>2, <2>3, Accepted, Denied DEF IsWorker
    <2> QED BY <2>4, <2>5
<1>3. \A b : Derived(nsPg, b) => Derived(nsPg', b) BY <1>1 DEF Derived
<1>4. StatesHeld(nsPg', intended') BY <1>2, <1>3, <1>1 DEF EditsInv, StatesHeld
<1>5. WorkersHeld(nsPg', nsRequest', Fresh') /\ NoneRevived BY <1>1, WorkersAside DEF EditsInv
<1>6. DerivedStays BY <1>3 DEF DerivedStays
<1>7. \A u \in NsThreads : \/ nsRequest'[u] = nsRequest[u]
                           \/ PendingIn(nsPg', nsRequest'[u], nsRequest', Fresh')
    BY DEF Shape, PendingIn, Deploying
<1>8. PendingHeld(nsPg', nsRequest', Fresh')
    BY <1>5, <1>6, <1>7, BornAside, PendingKept DEF EditsInv
<1> QED BY <1>4, <1>5, <1>8 DEF EditsInv

\* The artifact that is stored is the one that was built.
LEMMA StoreEdits ==
    ASSUME NsTyped, EditsInv, NEW t \in NsThreads, StoreArtifact(t)
    PROVE  EditsInv'
<1>1. Shape({"deployment_artifacts"}, {"save", "retry"}) /\ intended' = intended
    BY ManagedShapes DEF StoreArtifact
<1>2. PICK a : a = nsRequest[t].artifact OBVIOUS
<1>3. nsPg' = nsPg \/ nsPg' = PgPutDeploymentArtifact(nsPg, a).db
    BY <1>2, WritesEffect DEF StoreArtifact, nsRepositories
<1>4. Pending(nsPg, a, nsRequest, Fresh)
    BY <1>2 DEF StoreArtifact, Has, EditsInv, PendingHeld
<1>5. a.expected \in Int /\ (IsWorker(nsPg, a.worker) => Derived(nsPg, a))
    BY <1>4 DEF Pending, Derived, IsWorker
<1>6. CASE nsPg' = nsPg BY <1>6, KeepsAll, <1>1, OpNames, EditsAside DEF Shape, OtherOps
<1>7. CASE nsPg' = PgPutDeploymentArtifact(nsPg, a).db
    BY <1>1, <1>5, <1>7, OpNames, ArtifactEdits DEF OtherOps
<1> QED BY <1>3, <1>6, <1>7

\* A native secret change derives an artifact of the latest upload under the guard.
LEMMA SecretEdits ==
    ASSUME NsTyped, EditsInv, NEW t \in NsThreads, NEW w, NEW e, MutateManagedSecret(t, w, e)
    PROVE  EditsInv'
BY DerivedShapes, WritesEffect, LatestFound, DerivedFromLatest, OpNames, ArtifactEdits DEF
   MutateManagedSecret, Build, EditsInv, Derived, OtherOps

\* So does a vars update, though what is active may be older than the latest upload.
LEMMA VarsEdits ==
    ASSUME NsTyped, EditsInv, NEW t \in NsThreads, NEW d, UpdateVars(t, d)
    PROVE  EditsInv'
<1>1. Shape({"deployment_artifacts"}, {"reconcile"}) /\ intended' = intended
    BY DerivedShapes DEF UpdateVars
<1>2. PICK base, f, a : /\ base = One({x \in nsPg.deployment_artifacts : x.id = d}) /\ f = Fresh
                        /\ a = FreezeArtifact(base, f)
    OBVIOUS
<1>3. nsPg' = PgPutDeploymentArtifact(nsPg, a).db BY <1>2, WritesEffect DEF UpdateVars
<1>4. PICK state, e, m :
         /\ state = LatestState(base.worker) /\ e = Edit("vars", base.metadata)
         /\ m = Edited(state.metadata, e)
    OBVIOUS
<1>5. a = [id |-> f, worker |-> base.worker, edit |-> e,
           expected |-> IF state = NotFound THEN -1 ELSE state.revision,
           metadata |-> IF state = NotFound THEN base.metadata ELSE m]
    BY <1>2, <1>4, Zenon DEF FreezeArtifact
<1>6. CASE state = NotFound
    BY <1>5, <1>6, <1>1, <1>3, OpNames, ArtifactEdits DEF Derived, OtherOps
<1>7. CASE state # NotFound
    <2>1. a.expected = state.revision /\ a.worker = base.worker /\ a.metadata = m /\ a.edit = e
        BY <1>5, <1>7
    <2>2. state \in nsPg.worker_management /\ state.worker = base.worker
        BY <1>4, <1>7, LatestFound
    <2>3. Derived(nsPg, a) BY <1>4, <2>1, <2>2, DerivedFromLatest DEF EditsInv
    <2>4. a.expected \in Int BY <2>3 DEF Derived
    <2> QED BY <1>1, <1>3, <2>3, <2>4, OpNames, ArtifactEdits DEF OtherOps
<1> QED BY <1>6, <1>7
-----------------------------------------------------------------------------
(* Every step keeps what is pending derived.                               *)

\* A request for a script is followed by nothing, or by the first deployment.
LEMMA ScriptsRequested == EditsInv => ScriptRequests
BY DEF EditsInv, WorkersHeld, CreatingOK, Deploying, ScriptRequests

\* Policies are no part of a managed script.
LEMMA PolicyEdits ==
    ASSUME EditsInv, NsTyped
    PROVE  /\ \A org, name, mode : CreateDispatchNamespace(org, name, mode) => EditsInv'
           /\ \A org, ns, name : RenameDispatchNamespace(org, ns, name) => EditsInv'
           /\ \A org, ns : DeleteDispatchNamespace(org, ns) => EditsInv'
           /\ \A t \in NsThreads : \A org, ns : GetDispatchNamespace(t, org, ns) => EditsInv'
           /\ \A t \in NsThreads : SetNamespaceGrants(t) => EditsInv'
<1>1. ASSUME NEW org, NEW name, NEW mode, CreateDispatchNamespace(org, name, mode) PROVE EditsInv'
    BY <1>1, PolicyShapes, EditsAside DEF CreateDispatchNamespace
<1>2. ASSUME NEW org, NEW ns, NEW name, RenameDispatchNamespace(org, ns, name) PROVE EditsInv'
    BY <1>2, PolicyShapes, EditsAside DEF RenameDispatchNamespace
<1>3. ASSUME NEW org, NEW ns, DeleteDispatchNamespace(org, ns) PROVE EditsInv'
    BY <1>3, PolicyShapes, EditsAside DEF DeleteDispatchNamespace
<1>4. ASSUME NEW t \in NsThreads, NEW org, NEW ns, GetDispatchNamespace(t, org, ns) PROVE EditsInv'
    BY <1>4, PolicyShapes, OpNames, EditsAside DEF GetDispatchNamespace, OtherOps
<1>5. ASSUME NEW t \in NsThreads, SetNamespaceGrants(t) PROVE EditsInv'
    <2>1. Shape({"dispatch_namespaces", "dispatch_namespace_policies"}, {"idle"})
        BY <1>5, PolicyShapes
    <2> DEFINE r == nsRequest[t]
    <2>2. \/ intended' = intended
          \/ intended' = [intended EXCEPT !.grants[r.ns] = Toggled(@, r.resource)]
        BY <1>5 DEF SetNamespaceGrants
    <2>3. intended'.metadata = intended.metadata BY <2>2 DEF NsTyped
    <2> QED BY <2>1, <2>3, OpNames, EditsAside DEF OtherOps
<1> QED BY <1>1, <1>2, <1>3, <1>4, <1>5

\* Scripts.
LEMMA ScriptEdits ==
    ASSUME EditsInv, NsTyped, NEW t \in NsThreads
    PROVE  /\ \A org, ns, kind, customer : RequestScript(t, org, ns, kind, customer) => EditsInv'
           /\ CreateNamespaceScript(t) => EditsInv'
           /\ \A org, ns : FindScript(t, org, ns) => EditsInv'
           /\ DeleteNamespaceScript(t) => EditsInv'
           /\ \A org, ns, tag, present : DeleteNamespaceScriptsByTag(t, org, ns, tag, present) => EditsInv'
           /\ \A org, ns, key, token : UploadNewScript(t, org, ns, key, token) => EditsInv'
<1>0. ScriptRequests BY ScriptsRequested
<1>1. ASSUME NEW org, NEW ns, NEW kind, NEW customer, RequestScript(t, org, ns, kind, customer)
      PROVE  EditsInv'
    <2>1. Shape({}, {CreateOp}) BY <1>0, <1>1, ScriptShapes
    <2>2. intended' = intended BY <1>1 DEF RequestScript
    <2>3. PICK f : f = Fresh OBVIOUS
    <2>4. PICK a : a = [id |-> f, org |-> org, ns |-> ns, script |-> "s", kind |-> kind,
                        customer |-> customer] OBVIOUS
    <2>5. PICK r : r = [op |-> CreateOp, then |-> NoRequest, app |-> a] OBVIOUS
    <2>6. Enters(t, r) BY <1>1, <2>3, <2>4, <2>5, Zenon DEF RequestScript, CreateOp
    <2>7. r.app = a /\ r.then = NoRequest /\ r.op = CreateOp BY <2>5
    <2>8. "id" \in DOMAIN a /\ a.id = f BY <2>4
    <2>9. "op" \in DOMAIN NoRequest /\ NoRequest.op = "idle" BY OpsOf
    <2>10. Creating(r) BY <2>7 DEF Creating
    <2>11. f \in Int /\ 1 <= f BY <2>3, FreshBounds
    <2>12. CreatingOK(r, Fresh + 1) BY <2>3, <2>7, <2>8, <2>9, <2>11 DEF CreatingOK
    <2>13. r.app.id = Fresh BY <2>3, <2>7, <2>8
    <2> QED BY <2>1, <2>2, <2>6, <2>10, <2>12, <2>13, RequestedEdits
<1>2. ASSUME CreateNamespaceScript(t) PROVE EditsInv'
    BY <1>0, <1>2, CreatedEdits
<1>3. ASSUME NEW org, NEW ns, FindScript(t, org, ns) PROVE EditsInv'
    BY <1>0, <1>3, ScriptShapes, OpNames, EditsAside DEF FindScript, OtherOps
<1>4. ASSUME DeleteNamespaceScript(t) PROVE EditsInv'
    <2>1. Shape(WorkerTables, {"idle"}) BY <1>0, <1>4, ScriptShapes
    <2>2. intended' = intended BY <1>4 DEF DeleteNamespaceScript
    <2>3. nsPg' = nsPg \/ nsPg' = PgWithoutWorkers(nsPg, {nsRequest[t].app.id})
        <3>1. nsPg' = nsPg
              \/ Writes(Done(StoreWithoutWorkers(nsStore, {nsRequest[t].app.id})),
                        Done(PgWithoutWorkers(nsPg, {nsRequest[t].app.id})))
            BY <1>4 DEF DeleteNamespaceScript, nsRepositories
        <3> QED BY <3>1, WritesEffect DEF Done
    <2>4. CASE nsPg' = nsPg BY <2>1, <2>4, <2>2, OpNames, EditsAside DEF Shape, NsKeeps, OtherOps
    <2> QED BY <2>1, <2>2, <2>3, <2>4, DeletedEdits
<1>5. ASSUME NEW org, NEW ns, NEW tag, NEW present,
             DeleteNamespaceScriptsByTag(t, org, ns, tag, present)
      PROVE  EditsInv'
    <2>1. Shape(WorkerTables, {"idle"}) BY <1>0, <1>5, ScriptShapes
    <2>2. intended' = intended BY <1>5, Zenon DEF DeleteNamespaceScriptsByTag
    <2>3. PICK ids : nsPg' = PgDeleteNamespaceScripts(nsPg, org, ns, ids).db
        BY <1>5, WritesEffect DEF DeleteNamespaceScriptsByTag
    <2>4. (\E why : PgDeleteNamespaceScripts(nsPg, org, ns, ids) = Refused(nsPg, why))
          \/ PgDeleteNamespaceScripts(nsPg, org, ns, ids) = Done(PgWithoutWorkers(nsPg, ids))
        BY Zenon DEF PgDeleteNamespaceScripts
    <2>5. nsPg' = nsPg \/ nsPg' = PgWithoutWorkers(nsPg, ids)
        BY <2>3, <2>4, Accepted, Denied, Zenon
    <2>6. CASE nsPg' = nsPg BY <2>1, <2>6, <2>2, OpNames, EditsAside DEF Shape, NsKeeps, OtherOps
    <2> QED BY <2>1, <2>2, <2>5, <2>6, DeletedEdits
<1>6. ASSUME NEW org, NEW ns, NEW key, NEW token, UploadNewScript(t, org, ns, key, token)
      PROVE  EditsInv'
    <2>1. Shape({}, {CreateOp}) BY <1>0, <1>6, ScriptShapes
    <2>2. intended' = intended BY <1>6 DEF UploadNewScript
    <2>3. PICK f : f = Fresh OBVIOUS
    <2>4. PICK a : a = [id |-> f, org |-> org, ns |-> ns, script |-> "s", kind |-> "customer",
                        customer |-> ""] OBVIOUS
    <2>5. PICK q, m : Enters(t, [op |-> CreateOp, then |-> Deploy(q, 0, 0, m), app |-> a])
        BY <1>6, <2>3, <2>4, Zenon DEF UploadNewScript, CreateOp
    <2>6. PICK d : d = Deploy(q, 0, 0, m) OBVIOUS
    <2>7. PICK r : r = [op |-> CreateOp, then |-> d, app |-> a] OBVIOUS
    <2>8. Enters(t, r) BY <2>5, <2>6, <2>7
    <2>9. r.app = a /\ r.then = d /\ r.op = CreateOp BY <2>7
    <2>10. "id" \in DOMAIN a /\ a.id = f BY <2>4
    <2>11. "op" \in DOMAIN d /\ d.op = DeployOp BY <2>6, OpsOf
    <2>12. d.expected = 0 BY <2>6, Zenon DEF Deploy
    <2>13. Creating(r) BY <2>9 DEF Creating
    <2>14. f \in Int /\ 1 <= f BY <2>3, FreshBounds
    <2>15. CreatingOK(r, Fresh + 1)
        BY <2>3, <2>9, <2>10, <2>11, <2>12, <2>14 DEF CreatingOK, Deploying
    <2>16. r.app.id = Fresh BY <2>3, <2>9, <2>10
    <2> QED BY <2>1, <2>2, <2>8, <2>13, <2>15, <2>16, RequestedEdits
<1> QED BY <1>1, <1>2, <1>3, <1>4, <1>5, <1>6

\* Uploads.
LEMMA UploadEdits ==
    ASSUME EditsInv, NsTyped
    PROVE  /\ \A org, ns, customer, manifest : CreateAssetUpload(org, ns, customer, manifest) => EditsInv'
           /\ \A token, files : UploadAssetFiles(token, files) => EditsInv'
           /\ PruneExpiredAssetUploads => EditsInv'
           /\ NsTick => EditsInv'
<1>1. ASSUME NEW org, NEW ns, NEW customer, NEW manifest, CreateAssetUpload(org, ns, customer, manifest)
      PROVE  EditsInv' BY <1>1, UploadShapes, EditsAside DEF CreateAssetUpload
<1>2. ASSUME NEW token, NEW files, UploadAssetFiles(token, files) PROVE EditsInv'
    BY <1>2, UploadShapes, EditsAside DEF UploadAssetFiles
<1>3. ASSUME PruneExpiredAssetUploads PROVE EditsInv'
    BY <1>3, UploadShapes, EditsAside DEF PruneExpiredAssetUploads
<1>4. ASSUME NsTick PROVE EditsInv' BY <1>4, UploadShapes, EditsAside DEF NsTick
<1> QED BY <1>1, <1>2, <1>3, <1>4

\* The steps of a publication.
LEMMA ManagedEdits ==
    ASSUME EditsInv, NsTyped, NEW t \in NsThreads
    PROVE  /\ \A w, key, e, token : ReplayManagedRequest(t, w, key, e, token) => EditsInv'
           /\ ReplayOnce(t) => EditsInv'
           /\ ReadSnapshot(t) => EditsInv'
           /\ DeployManagedPublication(t) => EditsInv'
           /\ \A w : NativeDeploy(t, w) => EditsInv'
           /\ StoreArtifact(t) => EditsInv'
           /\ SavePublication(t) => EditsInv'
           /\ PublishStored(t) => EditsInv'
<1>0. CreateOp \notin OtherOps /\ DeployOp \notin OtherOps BY OpNames
<1>1. ASSUME NEW w, NEW key, NEW e, NEW token, ReplayManagedRequest(t, w, key, e, token)
      PROVE  EditsInv'
    BY <1>1, Commits, ManagedShapes, <1>0, CommittedEdits DEF ReplayManagedRequest, OtherOps
<1>2. ASSUME ReplayOnce(t) PROVE EditsInv'
    BY <1>2, Commits, ManagedShapes, <1>0, CommittedEdits DEF ReplayOnce, OtherOps
<1>3. ASSUME ReadSnapshot(t) PROVE EditsInv' BY <1>3, SnapshotEdits
<1>4. ASSUME DeployManagedPublication(t) PROVE EditsInv' BY <1>4, DeployEdits
<1>5. ASSUME NEW w, NativeDeploy(t, w) PROVE EditsInv' BY <1>5, NativeEdits
<1>6. ASSUME StoreArtifact(t) PROVE EditsInv' BY <1>6, StoreEdits
<1>7. ASSUME SavePublication(t) PROVE EditsInv'
    BY <1>7, ManagedShapes, <1>0, EditsAside DEF SavePublication, OtherOps
<1>8. ASSUME PublishStored(t) PROVE EditsInv'
    BY <1>8, ManagedShapes, <1>0, CommittedEdits DEF PublishStored, CommitStep, OtherOps
<1> QED BY <1>1, <1>2, <1>3, <1>4, <1>5, <1>6, <1>7, <1>8

\* Publications that are derived, and a process that stops.
LEMMA DerivedEdits ==
    ASSUME EditsInv, NsTyped, NEW t \in NsThreads
    PROVE  /\ \A w, e : MutateManagedSecret(t, w, e) => EditsInv'
           /\ \A d : UpdateVars(t, d) => EditsInv'
           /\ ReconcileVars(t) => EditsInv'
           /\ StopProcess(t) => EditsInv'
BY OpNames, SecretEdits, VarsEdits, Commits, DerivedShapes, CommittedEdits, EditsAside DEF
   ReconcileVars, OtherOps, StopProcess

\* Recovery.
LEMMA RecoveryEdits ==
    ASSUME EditsInv, NsTyped
    PROVE  /\ \A d : RecoverActive(d) => EditsInv'
           /\ \A k : RecoverPublications(k) => EditsInv'
BY Commits, RecoveryShapes, CommittedEdits DEF RecoverActive, RecoverPublications

\* So every step keeps what is known of managed scripts.
LEMMA EditsKept ==
    ASSUME EditsInv, NsTyped, [NamespacesNext]_namespacesVars
    PROVE  EditsInv'
<1>1. CASE PoliciesNext BY <1>1, PolicyEdits, ScriptEdits DEF PoliciesNext
<1>2. CASE PublicationSteps BY <1>2, ManagedEdits, DerivedEdits, RecoveryEdits DEF PublicationSteps
<1>3. CASE ManagedNext
    BY <1>2, <1>3, ManagedEdits, DerivedEdits, RecoveryEdits, ScriptEdits DEF ManagedNext
<1>4. CASE AssetsNext
    BY <1>2, <1>4, ManagedEdits, ScriptEdits, UploadEdits, PolicyEdits DEF AssetsNext
<1>5. CASE UNCHANGED namespacesVars
    <2>1. nsPg' = nsPg /\ nsRequest' = nsRequest /\ nsRequestsLeft' = nsRequestsLeft /\ intended' = intended
        BY <1>5 DEF namespacesVars, nsRepositories, nsBudget
    <2>2. Fresh' = Fresh BY <2>1 DEF Fresh
    <2> QED BY <2>1, <2>2 DEF EditsInv, WorkersHeld, StatesHeld, PendingHeld, Born, Pending,
                              CreatingOK, Derived
<1> QED BY <1>1, <1>3, <1>4, <1>5 DEF NamespacesNext

-----------------------------------------------------------------------------
(* Asset uploads.                                                          *)

\* No step but a deployment with a token claims a completed upload.
NoNewClaims ==
    \A i, w : Claimed(nsRequest', deployedAssets', i, w) => Claimed(nsRequest, deployedAssets, i, w)

\* A step that builds nothing and stores nothing claims nothing.
LEMMA ClaimsAside ==
    ASSUME NEW tables, NEW ops, Shape(tables, ops), "build" \notin ops,
           deployedAssets' = deployedAssets
    PROVE  NoNewClaims
BY DEF Shape, NoNewClaims, Claimed

\* Sessions are only taken away, or keep their worker.
LEMMA AssetsFewer ==
    ASSUME NsTyped, AssetsInv, NEW tables, NEW ops, Shape(tables, ops), NoNewClaims,
           \A x \in deployedAssets' : x = <<x[1], x[2]>>,
           \A s \in nsPg'.asset_upload_sessions : \E o \in nsPg.asset_upload_sessions :
              s.id = o.id /\ s.worker = o.worker /\ DOMAIN s = DOMAIN o,
           \A r, s \in nsPg'.asset_upload_sessions : r.id = s.id => r = s
    PROVE  AssetsInv'
BY FreshGrows DEF SessionRow, AssetsInv, SessionsHeld, NoNewClaims, ClaimsHeld, ClaimHeld

\* Sessions are only taken away.
LEMMA AssetsAside ==
    ASSUME NsTyped, AssetsInv, NEW tables, NEW ops, Shape(tables, ops), NoNewClaims,
           \A x \in deployedAssets' : x = <<x[1], x[2]>>,
           nsPg'.asset_upload_sessions \subseteq nsPg.asset_upload_sessions
    PROVE  AssetsInv'
BY AssetsFewer DEF AssetsInv, SessionsHeld

\* The most frequent case: neither sessions nor what was deployed changes.
LEMMA AssetsSame ==
    ASSUME NsTyped, AssetsInv, NEW tables, NEW ops, Shape(tables, ops),
           "asset_upload_sessions" \notin tables, "build" \notin ops,
           deployedAssets' = deployedAssets
    PROVE  AssetsInv'
BY ClaimsAside, AssetsAside DEF Shape, NsKeeps, NsTables, AssetsInv

\* A row is found by its key.
LEMMA SessionFound ==
    ASSUME AssetsInv, NEW i, PgGetAssetUploadSession(nsPg, i) # NotFound
    PROVE  /\ PgGetAssetUploadSession(nsPg, i) \in nsPg.asset_upload_sessions
           /\ PgGetAssetUploadSession(nsPg, i).id = i
BY OneFound DEF PgGetAssetUploadSession

\* A row is the one its id finds.
LEMMA SessionThere ==
    ASSUME AssetsInv, NEW s \in nsPg.asset_upload_sessions
    PROVE  PgGetAssetUploadSession(nsPg, s.id) = s
BY OneFound DEF PgGetAssetUploadSession, AssetsInv, SessionsHeld

\* A new session has an id no upload has.
LEMMA CreateUploadAssets ==
    ASSUME NsTyped, AssetsInv, NEW org, NEW ns, NEW customer, NEW manifest,
           CreateAssetUpload(org, ns, customer, manifest)
    PROVE  AssetsInv'
<1>1. Shape({"asset_upload_sessions"}, {}) BY UploadShapes
<1>2. deployedAssets' = deployedAssets /\ nsRequestsLeft > 0 /\ nsRequestsLeft' = nsRequestsLeft - 1
    BY DEF CreateAssetUpload
<1>3. PICK f : f = Fresh OBVIOUS
<1>4. PICK st, c, w, m, done, x, s :
         /\ s = [id |-> f, org |-> org, ns |-> ns, script |-> "s", customer |-> c, worker |-> w,
                 revision |-> 1, manifest |-> m, blobs |-> {}, complete |-> done, expires |-> x]
         /\ Writes(st, PgSaveAssetUploadSession(nsPg, s, 0))
    BY <1>3, ZenonT(30) DEF CreateAssetUpload
<1>5. s.id = f /\ {"id", "org", "ns", "worker", "revision"} \subseteq DOMAIN s BY <1>4
<1>6. f \in Int /\ Fresh' = f + 1 BY <1>2, <1>3, FreshBounds
<1>7. \A o \in nsPg.asset_upload_sessions : SessionRow(o, Fresh) /\ o.id # f
    BY <1>3, <1>6 DEF AssetsInv, SessionsHeld, SessionRow
<1>8. nsPg'.asset_upload_sessions = nsPg.asset_upload_sessions
      \/ nsPg'.asset_upload_sessions = nsPg.asset_upload_sessions \cup {s}
    BY <1>4, WritesEffect, <1>5, <1>7, SessionFound, Accepted, Denied, RowFound DEF
       PgSaveAssetUploadSession, SessionRow, Replace, NsTyped, NsTables
<1>9. NoNewClaims BY <1>1, <1>2, ClaimsAside
<1>10. SessionRow(s, Fresh') BY <1>5, <1>6 DEF SessionRow
<1>11. \A o : SessionRow(o, Fresh) => SessionRow(o, Fresh') BY <1>3, <1>6 DEF SessionRow
<1>12. SessionsHeld(nsPg'.asset_upload_sessions, Fresh')
    BY <1>5, <1>7, <1>8, <1>10, <1>11 DEF AssetsInv, SessionsHeld
<1>13. ASSUME NEW i, NEW v, Claimed(nsRequest', deployedAssets', i, v)
       PROVE  ClaimHeld(nsPg'.asset_upload_sessions, i, v, Fresh')
    BY <1>9, <1>13, <1>3, <1>5, <1>6, <1>8 DEF NoNewClaims, AssetsInv, ClaimsHeld, ClaimHeld
<1>14. \A i, u, v : Claimed(nsRequest', deployedAssets', i, u) /\ Claimed(nsRequest', deployedAssets', i, v)
                   => u = v
    BY <1>9 DEF NoNewClaims, AssetsInv, ClaimsHeld
<1> QED BY <1>2, <1>12, <1>13, <1>14 DEF AssetsInv, ClaimsHeld

\* Files are added to the session the token names; it keeps its worker.
LEMMA UploadFilesAssets ==
    ASSUME NsTyped, AssetsInv, NEW token, NEW files, UploadAssetFiles(token, files)
    PROVE  AssetsInv'
<1>1. Shape({"asset_upload_sessions"}, {}) BY UploadShapes
<1>2. deployedAssets' = deployedAssets BY DEF UploadAssetFiles
<1>3. NoNewClaims BY <1>1, <1>2, ClaimsAside
<1>4. \A x \in deployedAssets' : x = <<x[1], x[2]>> BY <1>2 DEF AssetsInv
<1>5. PICK s : s = AssetUploadFromToken(token, "upload") OBVIOUS
<1>6. s # NotFound BY <1>5 DEF UploadAssetFiles
<1>7. s \in nsPg.asset_upload_sessions BY <1>5, <1>6, SessionFound DEF AssetUploadFromToken
<1>8. UNCHANGED nsRepositories
      \/ \E st, b, d, x, y : Writes(st, PgSaveAssetUploadSession(nsPg,
             [s EXCEPT !.blobs = b, !.complete = d, !.revision = x, !.expires = y], s.revision))
    BY <1>5, Zenon DEF UploadAssetFiles
<1>9. CASE UNCHANGED nsRepositories BY <1>9, <1>1, <1>3, <1>4, AssetsAside DEF nsRepositories
<1>10. ASSUME NEW st, NEW b, NEW d, NEW x, NEW y,
              Writes(st, PgSaveAssetUploadSession(nsPg,
                 [s EXCEPT !.blobs = b, !.complete = d, !.revision = x, !.expires = y], s.revision))
       PROVE  AssetsInv'
    <2>1. PICK new : new = [s EXCEPT !.blobs = b, !.complete = d, !.revision = x, !.expires = y] OBVIOUS
    <2>2. SessionRow(s, Fresh) BY <1>7 DEF AssetsInv, SessionsHeld
    <2>3. new.id = s.id /\ new.worker = s.worker /\ DOMAIN new = DOMAIN s
        BY <2>1, <2>2 DEF SessionRow
    <2>4. nsPg' = PgSaveAssetUploadSession(nsPg, new, s.revision).db BY <1>10, <2>1, WritesEffect
    <2>5. PgGetAssetUploadSession(nsPg, new.id) = s BY <1>7, <2>3, SessionThere
    <2>6. (\E why : PgSaveAssetUploadSession(nsPg, new, s.revision) = Refused(nsPg, why))
          \/ PgSaveAssetUploadSession(nsPg, new, s.revision)
             = Done([nsPg EXCEPT !.asset_upload_sessions = Replace(@, {s}, {new})])
        BY <2>5, Zenon DEF PgSaveAssetUploadSession
    <2>7. nsPg' = nsPg \/ nsPg' = [nsPg EXCEPT !.asset_upload_sessions = Replace(@, {s}, {new})]
        BY <2>4, <2>6, Accepted, Denied, ZenonT(30)
    <2>8. nsPg'.asset_upload_sessions = nsPg.asset_upload_sessions
          \/ nsPg'.asset_upload_sessions = (nsPg.asset_upload_sessions \ {s}) \cup {new}
        BY <2>7 DEF Replace, NsTyped, NsTables
    <2>9. \A q \in nsPg'.asset_upload_sessions : \E o \in nsPg.asset_upload_sessions :
             q.id = o.id /\ q.worker = o.worker /\ DOMAIN q = DOMAIN o
        BY <1>7, <2>3, <2>8
    <2>10. \A p, q \in nsPg'.asset_upload_sessions : p.id = q.id => p = q
        BY <1>7, <2>3, <2>8 DEF AssetsInv, SessionsHeld
    <2> QED BY <1>1, <1>3, <1>4, <2>9, <2>10, AssetsFewer
<1> QED BY <1>8, <1>9, <1>10

\* Sessions expire, and go with their namespace.
LEMMA PruneAssets ==
    ASSUME NsTyped, AssetsInv
    PROVE  /\ PruneExpiredAssetUploads => AssetsInv'
           /\ \A org, ns : DeleteDispatchNamespace(org, ns) => AssetsInv'
<1>1. ASSUME PruneExpiredAssetUploads PROVE AssetsInv'
    BY <1>1, UploadShapes, WritesEffect, ClaimsAside, AssetsAside DEF PruneExpiredAssetUploads,
       PgPruneAssetUploadSessions, Done, NsTyped, NsTables, AssetsInv
<1>2. ASSUME NEW org, NEW ns, DeleteDispatchNamespace(org, ns) PROVE AssetsInv'
    <2>1. Shape({"dispatch_namespaces", "dispatch_namespace_policies", "asset_upload_sessions"}, {})
        BY <1>2, PolicyShapes
    <2>2. deployedAssets' = deployedAssets BY <1>2 DEF DeleteDispatchNamespace
    <2>3. nsPg' = PgDeleteDispatchNamespace(nsPg, ns).db BY <1>2, WritesEffect DEF DeleteDispatchNamespace
    <2>4. nsPg'.asset_upload_sessions \subseteq nsPg.asset_upload_sessions
        BY <2>3 DEF PgDeleteDispatchNamespace, Done, Refused, NsTyped, NsTables
    <2>5. \A x \in deployedAssets' : x = <<x[1], x[2]>> BY <2>2 DEF AssetsInv
    <2>6. NoNewClaims BY <2>1, <2>2, ClaimsAside
    <2> QED BY <2>1, <2>4, <2>5, <2>6, AssetsAside
<1> QED BY <1>1, <1>2

\* A native deployment is built without a token.
LEMMA NativeAssets ==
    ASSUME NsTyped, AssetsInv, NEW t \in NsThreads, NEW w, NativeDeploy(t, w)
    PROVE  AssetsInv'
<1>1. Shape({}, {"build"}) BY ManagedShapes
<1>2. nsPg' = nsPg /\ deployedAssets' = deployedAssets BY DEF NativeDeploy, nsRepositories
<1>3. PICK q, x, m : Enters(t, Build(q, x, m)) /\ q.token = NoToken BY DEF NativeDeploy
<1>4. PICK b : b = Build(q, x, m) OBVIOUS
<1>5. nsRequest'[t] = b /\ \A v \in NsThreads : v # t => nsRequest'[v] = nsRequest[v]
    BY <1>3, <1>4 DEF Enters, Goes, NsTyped
<1>6. b.token = NoToken BY <1>3, <1>4 DEF Build
<1>7. NoNewClaims BY <1>2, <1>5, <1>6 DEF NoNewClaims, Claimed
<1>8. nsPg'.asset_upload_sessions \subseteq nsPg.asset_upload_sessions BY <1>2
<1>9. \A y \in deployedAssets' : y = <<y[1], y[2]>> BY <1>2 DEF AssetsInv
<1> QED BY <1>1, <1>7, <1>8, <1>9, AssetsAside

\* What is stored was claimed when it was built.
LEMMA StoreAssets ==
    ASSUME NsTyped, AssetsInv, NEW t \in NsThreads, StoreArtifact(t)
    PROVE  AssetsInv'
<1>1. Shape({"deployment_artifacts"}, {"save", "retry"}) BY ManagedShapes
<1>2. PICK r : r = nsRequest[t] OBVIOUS
<1>3. r.op = "build" BY <1>2 DEF StoreArtifact, Has
<1>4. \/ deployedAssets' = deployedAssets
      \/ r.token # NoToken /\ deployedAssets' = deployedAssets \cup {<<r.token.session, r.worker>>}
    BY <1>2 DEF StoreArtifact
<1>5. nsPg'.asset_upload_sessions = nsPg.asset_upload_sessions BY <1>1 DEF Shape, NsKeeps, NsTables
<1>6. \A u \in NsThreads : nsRequest'[u].op = "build" => nsRequest'[u] = nsRequest[u]
    BY <1>1 DEF Shape
<1>7. ASSUME NEW i, NEW w, Claimed(nsRequest', deployedAssets', i, w)
      PROVE  Claimed(nsRequest, deployedAssets, i, w) BY <1>4, <1>2, <1>3, <1>6, <1>7 DEF Claimed
<1>8. \A y \in deployedAssets' : y = <<y[1], y[2]>> BY <1>4 DEF AssetsInv
<1>9. NoNewClaims BY <1>7 DEF NoNewClaims
<1> QED BY <1>1, <1>5, <1>8, <1>9, AssetsAside

\* The worker a publication is for.
AppOf(w) == One({x \in nsPg.workers : x.id = w})
\* The completion a deployment loads is not bound, or bound to the worker it deploys.
LEMMA CompletionOfWorker ==
    ASSUME EditsInv, AssetsInv, NEW w, NEW app, app = AppOf(w),
           app # NotFound, NEW token, NEW s,
           s = CompletedAssets(token, app.ns, app.script, app.customer), s # NotFound
    PROVE  /\ s \in nsPg.asset_upload_sessions /\ s.id = token.session
           /\ (s.worker = 0 \/ s.worker = w)
           /\ \E n \in nsPg.dispatch_namespaces : n.id = s.ns /\ n.org = s.org
<1>1. s = AssetUploadFromToken(token, "complete") /\ s.ns = app.ns /\ s.script = app.script
    BY Zenon DEF CompletedAssets
<1>2. PICK other : other = NamespaceScript(s.org, s.ns, s.script) OBVIOUS
<1>3. /\ s = PgGetAssetUploadSession(nsPg, token.session)
      /\ DispatchNamespaceForOrg(s.org, s.ns) # NotFound
      /\ s.worker # 0 => other # NotFound /\ other.id = s.worker
    BY <1>1, <1>2, Zenon DEF AssetUploadFromToken
<1>4. s \in nsPg.asset_upload_sessions /\ s.id = token.session BY <1>3, SessionFound
<1>5. app \in nsPg.workers /\ app.id = w BY OneFound DEF AppOf
<1>6. ASSUME s.worker # 0 PROVE s.worker = w
    BY <1>2, <1>3, <1>6, OneFound, <1>1, <1>5 DEF NamespaceScript, NamespaceScripts, EditsInv,
       WorkersHeld
<1>7. \E n \in nsPg.dispatch_namespaces : n.id = s.ns /\ n.org = s.org
    BY <1>3, OneFound DEF DispatchNamespaceForOrg, PgGetDispatchNamespace
<1> QED BY <1>4, <1>6, <1>7

\* After a binding the completion is the worker's, and all else is as before.
BoundTo(s, w) ==
    /\ s \in nsPg.asset_upload_sessions /\ (s.worker = 0 \/ s.worker = w)
    /\ \E new :
          /\ new.worker = w /\ new.id = s.id /\ DOMAIN new = DOMAIN s
          /\ nsPg'.asset_upload_sessions = (nsPg.asset_upload_sessions \ {s}) \cup {new}

\* Saving the bound session succeeds: the revision is the one that was read and the
\* namespace is there.
LEMMA Binding ==
    ASSUME NsTyped, EditsInv, AssetsInv, NEW w, NEW token, BindCompletedAssetUpload(w, token),
           \E x \in nsPg.workers : x.id = w
    PROVE  w # 0 /\ \E s : s \in nsPg.asset_upload_sessions /\ s.id = token.session /\ BoundTo(s, w)
<1>1. PICK app : app = AppOf(w) OBVIOUS
<1>2. app \in nsPg.workers /\ app.id = w BY <1>1, OneFound DEF AppOf
<1>3. w # 0 /\ app # NotFound BY <1>2, RowFound DEF EditsInv, WorkersHeld, Born
<1>4. PICK s : s = CompletedAssets(token, app.ns, app.script, app.customer) OBVIOUS
<1>5. /\ s # NotFound
      /\ IF Bound(s, w) = s THEN UNCHANGED nsRepositories
         ELSE \E st : Writes(st, PgSaveAssetUploadSession(nsPg, Bound(s, w), s.revision))
    BY <1>1, <1>4, Zenon DEF BindCompletedAssetUpload, AppOf
<1>6. /\ s \in nsPg.asset_upload_sessions /\ s.id = token.session /\ (s.worker = 0 \/ s.worker = w)
      /\ \E n \in nsPg.dispatch_namespaces : n.id = s.ns /\ n.org = s.org
    BY <1>1, <1>3, <1>4, <1>5, CompletionOfWorker
<1>7. SessionRow(s, Fresh) BY <1>6 DEF AssetsInv, SessionsHeld
<1>8. CASE s.worker # 0 BY <1>8, <1>5, <1>6, <1>3 DEF Bound, nsRepositories, BoundTo
<1>9. CASE s.worker = 0
    <2>1. PICK new : new = Bound(s, w) OBVIOUS
    <2>2. new = [s EXCEPT !.worker = w, !.revision = @ + 1] BY <1>9, <2>1 DEF Bound
    <2>3. /\ new.worker = w /\ new.id = s.id /\ DOMAIN new = DOMAIN s
          /\ new.revision = s.revision + 1 /\ new.org = s.org /\ new.ns = s.ns
        BY <1>7, <2>2 DEF SessionRow
    <2>4. nsPg' = PgSaveAssetUploadSession(nsPg, new, s.revision).db
        BY <1>3, <1>5, <1>9, <2>1, <2>3, WritesEffect
    <2>5. PgGetAssetUploadSession(nsPg, new.id) = s BY <1>6, <2>3, SessionThere
    <2>6. PgSaveAssetUploadSession(nsPg, new, s.revision)
             = Done([nsPg EXCEPT !.asset_upload_sessions = Replace(@, {s}, {new})])
        BY <1>5, <1>6, <2>3, <2>5 DEF PgSaveAssetUploadSession
    <2>7. nsPg' = [nsPg EXCEPT !.asset_upload_sessions = Replace(@, {s}, {new})]
        BY <2>4, <2>6, Accepted
    <2>8. nsPg'.asset_upload_sessions = (nsPg.asset_upload_sessions \ {s}) \cup {new}
        BY <2>7 DEF Replace, NsTyped, NsTables
    <2> QED BY <1>3, <1>6, <2>3, <2>8 DEF BoundTo
<1> QED BY <1>8, <1>9

\* So a claim that is added agrees with every claim there was.
LEMMA BoundAssets ==
    ASSUME NsTyped, AssetsInv, NEW tables, NEW ops, Shape(tables, ops), deployedAssets' = deployedAssets,
           NEW s, NEW w, w # 0, BoundTo(s, w),
           \A i, v : Claimed(nsRequest', deployedAssets, i, v)
                     => Claimed(nsRequest, deployedAssets, i, v) \/ (i = s.id /\ v = w)
    PROVE  AssetsInv'
<1> DEFINE rows == nsPg.asset_upload_sessions
<1>1. s \in rows /\ (s.worker = 0 \/ s.worker = w) BY DEF BoundTo
<1>2. PICK new : /\ new.worker = w /\ new.id = s.id /\ DOMAIN new = DOMAIN s
                 /\ nsPg'.asset_upload_sessions = (rows \ {s}) \cup {new}
    BY DEF BoundTo
<1>3. Fresh \in Int /\ Fresh' \in Int /\ Fresh <= Fresh' BY FreshGrows
<1>4. \A o : SessionRow(o, Fresh) => SessionRow(o, Fresh') BY <1>3 DEF SessionRow
<1>5. \A o \in rows : SessionRow(o, Fresh) BY DEF AssetsInv, SessionsHeld
<1>6. SessionRow(new, Fresh') BY <1>1, <1>2, <1>4, <1>5 DEF SessionRow
<1>7. \A o \in rows : o.id = s.id => o = s BY <1>1 DEF AssetsInv, SessionsHeld
<1>8. SessionsHeld(nsPg'.asset_upload_sessions, Fresh')
    BY <1>2, <1>4, <1>5, <1>6, <1>7 DEF AssetsInv, SessionsHeld
<1>9. \A i, v : Claimed(nsRequest, deployedAssets, i, v) => ClaimHeld(rows, i, v, Fresh)
    BY DEF AssetsInv, ClaimsHeld
<1>10. \A v : Claimed(nsRequest, deployedAssets, s.id, v) => v = w
    BY <1>1, <1>9 DEF ClaimHeld
<1>11. ASSUME NEW i, NEW v, Claimed(nsRequest', deployedAssets', i, v)
       PROVE  ClaimHeld(nsPg'.asset_upload_sessions, i, v, Fresh')
    BY <1>11, <1>10, <1>1, <1>5, <1>2, <1>3, <1>7, <1>9 DEF SessionRow, ClaimHeld
<1>12. ASSUME NEW i, NEW u, NEW v, Claimed(nsRequest', deployedAssets', i, u),
              Claimed(nsRequest', deployedAssets', i, v)
       PROVE  u = v BY <1>12, <1>10 DEF AssetsInv, ClaimsHeld
<1>13. \A x \in deployedAssets' : x = <<x[1], x[2]>> BY DEF AssetsInv
<1> QED BY <1>8, <1>11, <1>12, <1>13 DEF AssetsInv, ClaimsHeld

\* A deployment claims a completion in the same step that binds it.
LEMMA DeployAssets ==
    ASSUME NsTyped, EditsInv, AssetsInv, NEW t \in NsThreads, DeployManagedPublication(t)
    PROVE  AssetsInv'
<1>1. Shape({"worker_management", "asset_upload_sessions"}, {"idle", "build", "retry"})
    BY ManagedShapes
<1>2. deployedAssets' = deployedAssets BY DEF DeployManagedPublication
<1>3. PICK r : r = nsRequest[t] OBVIOUS
<1>4. \/ CommitStep /\ (Goes(t, NoRequest) \/ Goes(t, Retry(r)))
      \/ /\ Goes(t, Build(r, r.expected, r.metadata))
         /\ One({w \in nsPg.workers : w.id = r.worker}) # NotFound
         /\ (r.token = NoToken /\ UNCHANGED nsRepositories) \/ BindCompletedAssetUpload(r.worker, r.token)
    BY <1>3, Commits, Zenon DEF DeployManagedPublication, CommitStep
<1>5. ASSUME CommitStep, Goes(t, NoRequest) \/ Goes(t, Retry(r)) PROVE AssetsInv'
    BY <1>5, OpsOf, EntersTurns, CommitKeeps, ShapeOf, <1>2, AssetsSame DEF
       DeployManagedPublication, nsBudget, CountsDown
<1>6. ASSUME NEW b, b = Build(r, r.expected, r.metadata), Goes(t, b)
      PROVE  /\ b.token = r.token /\ b.worker = r.worker
             /\ nsRequest'[t] = b /\ \A v \in NsThreads : v # t => nsRequest'[v] = nsRequest[v]
    BY <1>6 DEF Goes, NsTyped, Build
<1>7. ASSUME Goes(t, Build(r, r.expected, r.metadata)), r.token = NoToken, UNCHANGED nsRepositories
      PROVE  AssetsInv'
    BY <1>2, <1>6, <1>7, <1>1, AssetsAside DEF NoNewClaims, Claimed, nsRepositories, AssetsInv
<1>8. ASSUME Goes(t, Build(r, r.expected, r.metadata)), BindCompletedAssetUpload(r.worker, r.token),
             One({w \in nsPg.workers : w.id = r.worker}) # NotFound
      PROVE  AssetsInv' BY <1>8, OneFound, Binding, <1>6, <1>1, <1>2, BoundAssets DEF Claimed
<1> QED BY <1>4, <1>5, <1>7, <1>8

-----------------------------------------------------------------------------
(* Every other step leaves claims and sessions alone.                      *)

\* Scripts: deleting a worker does not release what it claimed.
LEMMA ScriptAssets ==
    ASSUME NsTyped, EditsInv, AssetsInv, NEW t \in NsThreads
    PROVE  /\ \A org, ns, kind, customer : RequestScript(t, org, ns, kind, customer) => AssetsInv'
           /\ CreateNamespaceScript(t) => AssetsInv'
           /\ \A org, ns : FindScript(t, org, ns) => AssetsInv'
           /\ DeleteNamespaceScript(t) => AssetsInv'
           /\ \A org, ns, tag, present : DeleteNamespaceScriptsByTag(t, org, ns, tag, present) => AssetsInv'
           /\ \A org, ns, key, token : UploadNewScript(t, org, ns, key, token) => AssetsInv'
<1>0. /\ ScriptRequests /\ "build" \notin {CreateOp} /\ "build" \notin {"idle", DeployOp}
      /\ "build" \notin {DeleteOp}
    BY ScriptsRequested, OpNames DEF OtherOps
<1>1. ASSUME NEW org, NEW ns, NEW kind, NEW customer, RequestScript(t, org, ns, kind, customer)
      PROVE  AssetsInv' BY <1>0, <1>1, ScriptShapes, AssetsSame DEF RequestScript
<1>2. ASSUME CreateNamespaceScript(t) PROVE AssetsInv'
    BY <1>0, <1>2, ScriptShapes, AssetsSame DEF CreateNamespaceScript
<1>3. ASSUME NEW org, NEW ns, FindScript(t, org, ns) PROVE AssetsInv'
    BY <1>0, <1>3, ScriptShapes, AssetsSame DEF FindScript
<1>4. ASSUME DeleteNamespaceScript(t) PROVE AssetsInv'
    BY <1>0, <1>4, ScriptShapes, AssetsSame DEF DeleteNamespaceScript, WorkerTables
<1>5. ASSUME NEW org, NEW ns, NEW tag, NEW present,
             DeleteNamespaceScriptsByTag(t, org, ns, tag, present)
      PROVE  AssetsInv'
    <2>1. Shape(WorkerTables, {"idle"}) BY <1>0, <1>5, ScriptShapes
    <2>2. deployedAssets' = deployedAssets BY <1>5, Zenon DEF DeleteNamespaceScriptsByTag
    <2> QED BY <2>1, <2>2, AssetsSame DEF WorkerTables
<1>6. ASSUME NEW org, NEW ns, NEW key, NEW token, UploadNewScript(t, org, ns, key, token)
      PROVE  AssetsInv' BY <1>0, <1>6, ScriptShapes, AssetsSame DEF UploadNewScript
<1> QED BY <1>1, <1>2, <1>3, <1>4, <1>5, <1>6

\* Namespaces, policies and the clock.
LEMMA PolicyAssets ==
    ASSUME NsTyped, AssetsInv
    PROVE  /\ \A org, name, mode : CreateDispatchNamespace(org, name, mode) => AssetsInv'
           /\ \A org, ns, name : RenameDispatchNamespace(org, ns, name) => AssetsInv'
           /\ \A t \in NsThreads : \A org, ns : GetDispatchNamespace(t, org, ns) => AssetsInv'
           /\ \A t \in NsThreads : SetNamespaceGrants(t) => AssetsInv'
           /\ NsTick => AssetsInv'
BY PolicyShapes, AssetsSame, UploadShapes DEF CreateDispatchNamespace, RenameDispatchNamespace,
   GetDispatchNamespace, SetNamespaceGrants, NsTick

\* The steps of a publication.
LEMMA ManagedAssets ==
    ASSUME NsTyped, EditsInv, AssetsInv, NEW t \in NsThreads
    PROVE  /\ \A w, key, e, token : ReplayManagedRequest(t, w, key, e, token) => AssetsInv'
           /\ ReplayOnce(t) => AssetsInv'
           /\ ReadSnapshot(t) => AssetsInv'
           /\ DeployManagedPublication(t) => AssetsInv'
           /\ \A w : NativeDeploy(t, w) => AssetsInv'
           /\ StoreArtifact(t) => AssetsInv'
           /\ SavePublication(t) => AssetsInv'
           /\ PublishStored(t) => AssetsInv'
BY ManagedShapes, AssetsSame, OpNames, DeployAssets, NativeAssets, StoreAssets DEF
   ReplayManagedRequest, ReplayOnce, ReadSnapshot, OtherOps, SavePublication, PublishStored

\* What is derived, a process that stops, and recovery.
LEMMA DerivedAssets ==
    ASSUME NsTyped, AssetsInv
    PROVE  /\ \A t \in NsThreads : \A w, e : MutateManagedSecret(t, w, e) => AssetsInv'
           /\ \A t \in NsThreads : \A d : UpdateVars(t, d) => AssetsInv'
           /\ \A t \in NsThreads : ReconcileVars(t) => AssetsInv'
           /\ \A t \in NsThreads : StopProcess(t) => AssetsInv'
           /\ \A d : RecoverActive(d) => AssetsInv'
           /\ \A k : RecoverPublications(k) => AssetsInv'
BY DerivedShapes, AssetsSame, RecoveryShapes DEF MutateManagedSecret, UpdateVars, ReconcileVars,
   StopProcess, RecoverActive, RecoverPublications

\* So every step keeps what is known of uploads.
LEMMA AssetsKept ==
    ASSUME NsTyped, EditsInv, AssetsInv, [NamespacesNext]_namespacesVars
    PROVE  AssetsInv'
<1>1. CASE PoliciesNext BY <1>1, PolicyAssets, PruneAssets, ScriptAssets DEF PoliciesNext
<1>2. CASE PublicationSteps BY <1>2, ManagedAssets, DerivedAssets DEF PublicationSteps
<1>3. CASE ManagedNext BY <1>2, <1>3, ManagedAssets, DerivedAssets, ScriptAssets DEF ManagedNext
<1>4. CASE AssetsNext
    BY <1>2, <1>4, ManagedAssets, ScriptAssets, PolicyAssets, PruneAssets, CreateUploadAssets,
       UploadFilesAssets DEF AssetsNext
<1>5. CASE UNCHANGED namespacesVars
    <2>1. /\ nsPg' = nsPg /\ nsRequest' = nsRequest /\ nsRequestsLeft' = nsRequestsLeft
          /\ deployedAssets' = deployedAssets
        BY <1>5 DEF namespacesVars, nsRepositories, nsBudget
    <2>2. Fresh' = Fresh BY <2>1 DEF Fresh
    <2> QED BY <2>1, <2>2 DEF AssetsInv, SessionsHeld, SessionRow, ClaimsHeld, Claimed, ClaimHeld
<1> QED BY <1>1, <1>3, <1>4, <1>5 DEF NamespacesNext

-----------------------------------------------------------------------------
(* Types, what exists at first, and the theorems.                          *)

\* Every step has a shape.
LEMMA TypedKept ==
    ASSUME NsTyped, EditsInv, [NamespacesNext]_namespacesVars
    PROVE  NsTyped'
<1>0. ScriptRequests BY ScriptsRequested
<1>1. \A tables, ops : Shape(tables, ops) => NsTyped' BY DEF Shape
<1>2. ASSUME PublicationSteps PROVE NsTyped'
    BY <1>1, <1>2, ManagedShapes, DerivedShapes, RecoveryShapes DEF PublicationSteps
<1>3. CASE PoliciesNext BY <1>0, <1>1, <1>3, PolicyShapes, ScriptShapes DEF PoliciesNext
<1>4. CASE ManagedNext
    BY <1>0, <1>1, <1>2, <1>4, ManagedShapes, DerivedShapes, RecoveryShapes, ScriptShapes
       DEF ManagedNext
<1>5. CASE AssetsNext
    BY <1>0, <1>1, <1>2, <1>5, ManagedShapes, ScriptShapes, UploadShapes, PolicyShapes DEF AssetsNext
<1>6. CASE UNCHANGED namespacesVars
    BY <1>6 DEF namespacesVars, nsRepositories, nsBudget, NsTyped
<1> QED BY <1>3, <1>4, <1>5, <1>6 DEF NamespacesNext

\* The rows there can be at first; the state of the script only if it is managed.
StartRows(db, managed) ==
    /\ DOMAIN db = NsTables
    /\ db.dispatch_namespaces \subseteq {SeedNamespace} /\ db.workers \subseteq {SeedScript}
    /\ db.deployment_artifacts \subseteq {SeedArtifact(0), SeedArtifact(-1)}
    /\ db.worker_management \subseteq (IF managed THEN {SeedState} ELSE {})
    /\ db.asset_upload_sessions = {}

\* What the calls that make the seeds add.
LEMMA StartCalls ==
    /\ StartRows(PgCreateDispatchNamespace(PgNamespaces, SeedNamespace).db, FALSE)
    /\ \A db : StartRows(db, FALSE) => StartRows(PgCreateScript(db, SeedScript).db, FALSE)
    /\ \A db : \A x \in {0, -1} :
          StartRows(db, FALSE) => StartRows(PgPutDeploymentArtifact(db, SeedArtifact(x)).db, FALSE)
    /\ \A db : StartRows(db, FALSE)
          => StartRows(db, TRUE) /\ StartRows(PgCommitScriptManagementState(db, SeedState, 0).db, TRUE)
<1>1. StartRows(PgCreateDispatchNamespace(PgNamespaces, SeedNamespace).db, FALSE)
    <2>1. PICK n : n = SeedNamespace OBVIOUS
    <2>2. StartRows(PgNamespaces, FALSE) BY DEF StartRows, PgNamespaces, NsTables
    <2>3. (\E why : PgCreateDispatchNamespace(PgNamespaces, n) = Refused(PgNamespaces, why))
          \/ \E p : PgCreateDispatchNamespace(PgNamespaces, n)
                    = Done([PgNamespaces EXCEPT !.dispatch_namespaces = @ \cup {n},
                                                !.dispatch_namespace_policies = p])
        BY Zenon DEF PgCreateDispatchNamespace
    <2>4. CASE \E why : PgCreateDispatchNamespace(PgNamespaces, n) = Refused(PgNamespaces, why)
        BY <2>4, Denied, <2>1, <2>2
    <2>5. ASSUME NEW p, PgCreateDispatchNamespace(PgNamespaces, n)
                        = Done([PgNamespaces EXCEPT !.dispatch_namespaces = @ \cup {n},
                                                    !.dispatch_namespace_policies = p])
          PROVE  StartRows(PgCreateDispatchNamespace(PgNamespaces, n).db, FALSE)
        <3>1. PgCreateDispatchNamespace(PgNamespaces, n).db
              = [PgNamespaces EXCEPT !.dispatch_namespaces = @ \cup {n},
                                     !.dispatch_namespace_policies = p]
            BY <2>5, Accepted
        <3> QED BY <2>1, <2>2, <3>1 DEF StartRows, NsTables
    <2> QED BY <2>1, <2>3, <2>4, <2>5
<1>2. ASSUME NEW db, StartRows(db, FALSE) PROVE StartRows(PgCreateScript(db, SeedScript).db, FALSE)
    <2>1. PICK a : a = SeedScript OBVIOUS
    <2>2. (\E why : PgCreateScript(db, a) = Refused(db, why))
          \/ PgCreateScript(db, a) = Done([db EXCEPT !.workers = @ \cup {a}])
        BY Zenon DEF PgCreateScript
    <2>3. PgCreateScript(db, a).db = db \/ PgCreateScript(db, a).db = [db EXCEPT !.workers = @ \cup {a}]
        BY <2>2, Accepted, Denied, ZenonT(30)
    <2> QED BY <1>2, <2>1, <2>3 DEF StartRows, NsTables
<1>3. ASSUME NEW db, NEW x \in {0, -1}, StartRows(db, FALSE)
      PROVE  StartRows(PgPutDeploymentArtifact(db, SeedArtifact(x)).db, FALSE)
    <2>1. PICK a : a = SeedArtifact(x) OBVIOUS
    <2>2. (\E why : PgPutDeploymentArtifact(db, a) = Refused(db, why))
          \/ PgPutDeploymentArtifact(db, a) = Done(db)
          \/ PgPutDeploymentArtifact(db, a) = Done([db EXCEPT !.deployment_artifacts = @ \cup {a}])
        BY Zenon DEF PgPutDeploymentArtifact
    <2>3. \/ PgPutDeploymentArtifact(db, a).db = db
          \/ PgPutDeploymentArtifact(db, a).db = [db EXCEPT !.deployment_artifacts = @ \cup {a}]
        BY <2>2, Accepted, Denied, ZenonT(60)
    <2>4. a \in {SeedArtifact(0), SeedArtifact(-1)} BY <2>1
    <2> QED BY <1>3, <2>1, <2>3, <2>4 DEF StartRows, NsTables
<1>4. ASSUME NEW db, StartRows(db, FALSE)
      PROVE  StartRows(db, TRUE) /\ StartRows(PgCommitScriptManagementState(db, SeedState, 0).db, TRUE)
    BY Accepted, Denied, <1>4 DEF PgCommitScriptManagementState, StartRows, NsTables, Replace
<1> QED BY <1>1, <1>2, <1>3, <1>4

\* Whatever the seed, the rows are among these.
LEMMA StartState ==
    ASSUME NamespacesStart
    PROVE  \E managed \in BOOLEAN :
              /\ StartRows(nsPg, managed) /\ nsRequestsLeft \in 0..MaxNsRequests
              /\ nsRequest = [t \in NsThreads |-> NoRequest] /\ deployedAssets = {}
              /\ intended = [grants |-> [i \in Ids |-> {}],
                             metadata |-> [i \in Ids |-> IF managed /\ i = 1 THEN SeedMetadata
                                                         ELSE Blank]]
<1>1. PICK n \in 0..MaxNsRequests, seed \in {"empty", "native", "managed"} : NamespacesInit(n, seed)
    BY DEF NamespacesStart
<1>2. PICK managed : managed = (seed = "managed") OBVIOUS
<1>3. PICK x : x = IF seed = "managed" THEN 0 ELSE -1 OBVIOUS
<1>4. x \in {0, -1} BY <1>3
<1>5. PICK p : p = PgCreateDispatchNamespace(PgNamespaces, SeedNamespace).db OBVIOUS
<1>6. PICK q : q = PgPutDeploymentArtifact(PgCreateScript(p, SeedScript).db, SeedArtifact(x)).db OBVIOUS
<1>7. nsPg = CASE seed = "empty" -> p
               [] seed = "native" -> q
               [] seed = "managed" -> PgCommitScriptManagementState(q, SeedState, 0).db
    BY <1>1, <1>3, <1>5, <1>6, Zenon DEF NamespacesInit
<1>8. StartRows(p, FALSE) /\ StartRows(q, FALSE) BY <1>4, <1>5, <1>6, StartCalls
<1>9. StartRows(nsPg, managed) /\ managed \in BOOLEAN BY <1>2, <1>7, <1>8, StartCalls
<1>10. /\ nsRequestsLeft = n /\ nsRequest = [t \in NsThreads |-> NoRequest] /\ deployedAssets = {}
       /\ intended = [grants |-> [i \in Ids |-> {}],
                      metadata |-> [i \in Ids |-> IF managed /\ i = 1 THEN SeedMetadata ELSE Blank]]
    BY <1>1, <1>2, Zenon DEF NamespacesInit
<1> QED BY <1>1, <1>9, <1>10

\* The invariant holds at first.
LEMMA NamespacesStarted ==
    ASSUME NamespacesStart
    PROVE  NsInv
<1>1. PICK managed \in BOOLEAN :
         /\ StartRows(nsPg, managed) /\ nsRequestsLeft \in 0..MaxNsRequests
         /\ nsRequest = [t \in NsThreads |-> NoRequest] /\ deployedAssets = {}
         /\ intended = [grants |-> [i \in Ids |-> {}],
                        metadata |-> [i \in Ids |-> IF managed /\ i = 1 THEN SeedMetadata
                                                    ELSE Blank]]
    BY StartState
<1>2. NsTyped BY <1>1, OpsOf DEF NsTyped, StartRows
<1>3. Fresh \in Int /\ 3 <= Fresh /\ 1 \in Ids
    BY <1>2, FreshBounds, NamespacesAssumption DEF Ids
<1>4. \A t \in NsThreads : nsRequest[t] = NoRequest /\ nsRequest[t].op = "idle"
    BY <1>1, OpsOf
<1>5. \A t \in NsThreads : ~Creating(nsRequest[t]) /\ ~Deploying(nsRequest[t])
    BY <1>4, OpNames DEF Creating, Deploying, OtherOps
<1>6. GrantsInv
    <2>1. \A n \in nsPg.dispatch_namespaces : n = SeedNamespace BY <1>1 DEF StartRows
    <2>2. NamespaceRow(SeedNamespace, intended, Fresh)
        BY <1>1, <1>3 DEF NamespaceRow, SeedNamespace
    <2>3. \A i \in Ids : intended.grants[i] = {} BY <1>1
    <2> QED BY <1>4, <2>1, <2>2, <2>3 DEF GrantsInv, GrantsHeld
<1>7. WorkersHeld(nsPg, nsRequest, Fresh)
    <2>1. \A w \in nsPg.workers : w = SeedScript BY <1>1 DEF StartRows
    <2>2. "id" \in DOMAIN SeedScript /\ SeedScript.id = 1 BY DEF SeedScript
    <2>3. Born(1, nsRequest, Fresh) BY <1>3, <1>5 DEF Born
    <2> QED BY <1>5, <2>1, <2>2, <2>3 DEF WorkersHeld
<1>8. StatesHeld(nsPg, intended)
    BY <1>1, <1>3 DEF StartRows, SeedState, SeedArtifact, Derived, StatesHeld
<1>9. PendingHeld(nsPg, nsRequest, Fresh) BY <1>4, <1>5 DEF PendingHeld
<1>10. AssetsInv BY <1>1, <1>4 DEF Claimed, AssetsInv, SessionsHeld, ClaimsHeld, StartRows
<1> QED BY <1>2, <1>6, <1>7, <1>8, <1>9, <1>10 DEF NsInv, EditsInv

\* The inductive invariant of namespaces, managed scripts and uploads.
THEOREM NamespacesInvariant == NamespacesSpec => []NsInv
<1>1. NamespacesStart => NsInv BY NamespacesStarted
<1>2. NsInv /\ [NamespacesNext]_namespacesVars => NsInv'
    BY TypedKept, GrantsKept, EditsKept, AssetsKept, ScriptsRequested DEF NsInv
<1> QED BY <1>1, <1>2, PTL DEF NamespacesSpec

\* No accepted change of a policy or of a managed script is overwritten: neither by a client
\* that read an older revision, nor by a replay, a recovery or a derived artifact.
THEOREM NoUpdateLost == NamespacesSpec => []NoLostUpdate
<1>1. NsInv => NoLostUpdate
    BY DEF NsInv, GrantsInv, GrantsHeld, NamespaceRow, EditsInv, StatesHeld, NoLostUpdate
<1> QED BY <1>1, NamespacesInvariant, PTL

\* The files of a completed upload are deployed to one worker only, although a deleted
\* worker frees its name while the completion token is still good.
THEOREM AssetsBound == NamespacesSpec => []AssetsBoundOnce
<1>1. NsInv => AssetsBoundOnce BY DEF AssetsBoundOnce, NsInv, AssetsInv, Claimed, ClaimsHeld
<1> QED BY <1>1, NamespacesInvariant, PTL

\* Both hold in every part the run explores.
THEOREM PlatformUpdates ==
    ASSUME 4 <= MaxNsRequests
    PROVE  PlatformSpec => [](NoLostUpdate /\ AssetsBoundOnce)
<1>1. PlatformInit => NamespacesStart BY NamespacesAssumption DEF PlatformInit, NamespacesStart
<1>2. [PlatformNext]_platformVars => [NamespacesNext]_namespacesVars
    BY DEF PlatformNext, NamespacesNext, platformVars
<1> QED BY <1>1, <1>2, NoUpdateLost, AssetsBound, PTL DEF PlatformSpec, NamespacesSpec

---------------------------------------------------------------------------
(***************************************************************************)
(* Workers, for any number of threads, jobs and faults.  One invariant     *)
(* shows both properties: it says what the thread that holds configMu      *)
(* still has to do, and what it knows of the rows meanwhile.               *)
(***************************************************************************)

\* Rows of deployments as they are stored.
WBindings == {{}, {<<"KV", 1>>}}
WDeployment == [id : Nat, app : AppIDs, binds : WBindings, object : Nat]
WRow == [id : Nat, app : AppIDs, binds : WBindings, object : Nat, traffic : Nat]
WTables == {"workers", "deployments", "worker_secrets"}

\* A worker exists.
WHas(db, app) == \E a \in db.workers : a.id = app
WIdsOf(db, app) == {r.id : r \in {x \in db.deployments : x.app = app}}

\* The rows: keys are unique, a deployment belongs to a worker that exists.
WRowsOK(db) ==
    /\ WTables \subseteq DOMAIN db
    /\ db.deployments \subseteq WRow
    /\ \A a \in db.workers : "id" \in DOMAIN a /\ a.id \in AppIDs
    /\ \A r, s \in db.deployments : r.id = s.id => r = s
    /\ \A r \in db.deployments : WHas(db, r.app)

\* Ids are given out one after the other: what has an artifact, and the deployment that was
\* there first, are the ids so far.
WIdsOK(db, art) ==
    /\ \E n \in Nat : n >= 1 /\ DOMAIN art \cup {1} = 1..n
    /\ \A r \in db.deployments : r.id \in DOMAIN art \cup {1} /\ r.object \in DOMAIN art \cup {1}

\* Every deployment has its bundle, which it shares with deployments of its worker only.
WBundlesOK(db, bun) ==
    /\ \A r \in db.deployments : r.object \in bun
    /\ \A r, s \in db.deployments : r.object = s.object => r.app = s.app

\* What hydrating a deployment yields, for any contents; what is active serves what it yielded
\* when it became active.
WEff(db, art, id) == IF id \in DOMAIN art THEN art[id] ELSE SecretsIn(db, Deployed(db, id).app)
WServingOK(db, art, srv) ==
    /\ DOMAIN srv = {r.id : r \in {x \in db.deployments : x.traffic > 0}}
    /\ \A id \in DOMAIN srv : WEff(db, art, id) = srv[id]

\* The data together.
WDataOK(db, art, bun, srv) ==
    WRowsOK(db) /\ WIdsOK(db, art) /\ WBundlesOK(db, bun) /\ WServingOK(db, art, srv)

\* Ids of workers are numbers, 0 is none of them (it stands for "of all workers" in queries).
LEMMA WAppIDs == AppIDs \subseteq Nat /\ 0 \notin AppIDs /\ 1 \in AppIDs /\ MaxJobs \in Nat
  BY WorkersAssumption, SMT DEF AppIDs

\* A row with an id is not the answer of a query that finds none,
LEMMA WNotFound == ASSUME NEW a, "id" \in DOMAIN a PROVE a # NotFound
BY DEF NotFound

\* so that a worker is found exactly when it exists.
LEMMA WGet ==
  ASSUME NEW db, WRowsOK(db), NEW app
  PROVE  /\ (PgGetApp(db, app) # NotFound) <=> WHas(db, app)
         /\ (PgGetApp(db, app) = NotFound) <=> ~WHas(db, app)
BY WNotFound DEF PgGetApp, One, WHas, WRowsOK

\* A deployment is found under its id,
LEMMA WFound ==
  ASSUME NEW db, WRowsOK(db), NEW r \in db.deployments
  PROVE  Deployed(db, r.id) = r
  BY SMT DEF WRowsOK, Deployed

\* and under the ids of its worker.
LEMMA WFoundIn ==
  ASSUME NEW db, WRowsOK(db), NEW app, NEW id \in WIdsOf(db, app)
  PROVE  Deployed(db, id) \in db.deployments /\ Deployed(db, id).id = id /\ Deployed(db, id).app = app
BY WFound DEF WIdsOf

\* The next id follows those given out.
LEMMA WNewID ==
  ASSUME NEW art, NEW n \in Nat, n >= 1, DOMAIN art \cup {1} = 1..n, NEW D, D \subseteq 1..n
  PROVE  1 + Max({1} \cup D \cup DOMAIN art) = n + 1
<1>1. {1} \cup D \cup DOMAIN art = 1..n  OBVIOUS
<1>2. Max(1..n) = n BY DEF Max
<1>3. PICK S : S = {1} \cup D \cup DOMAIN art  OBVIOUS
<1>4. S = 1..n  BY <1>1, <1>3
<1>5. Max(S) = n  BY <1>2, <1>4, Zenon
<1> QED  BY <1>3, <1>5

\* No reason for a refusal is the outcome of an accepted call.
LEMMA WReasons == /\ "deployment not found" # "ok" /\ "foreign key" # "ok" /\ "worker exists" # "ok"
                  /\ "worker not found" # "ok" /\ "insert" # "ok" /\ "secret not found" # "ok"
BY Zenon

\* The row of a deployment when it is stored.
LEMMA WRowMade ==
  ASSUME NEW d \in WDeployment, NEW n \in Nat
  PROVE  LET x == Put(d, "traffic", n)
         IN  x \in WRow /\ x.id = d.id /\ x.app = d.app /\ x.object = d.object /\ x.binds = d.binds
             /\ x.traffic = n
BY DEF WDeployment, Put, WRow

\* What a row becomes when traffic moves.
WMoved(r, app, traffic) ==
    IF r.app = app THEN [r EXCEPT !.traffic = IF r.id \in DOMAIN traffic THEN traffic[r.id] ELSE 0]
    ELSE r

\* Only the traffic changes, and only of deployments of the worker.
LEMMA WMovedRow ==
  ASSUME NEW r \in WRow, NEW app, NEW traffic, \A id \in DOMAIN traffic : traffic[id] \in Nat
  PROVE  LET x == WMoved(r, app, traffic)
         IN  /\ x \in WRow /\ x.id = r.id /\ x.app = r.app /\ x.object = r.object
             /\ r.app # app => x = r
             /\ r.app = app => x.traffic = IF r.id \in DOMAIN traffic THEN traffic[r.id] ELSE 0
BY DEF WRow, WMoved

\* Moving traffic: refused, or every row is moved.
LEMMA WSetRows ==
  ASSUME NEW db, WRowsOK(db), NEW app, NEW traffic
  PROVE  LET p == PgSetActiveTraffic(db, app, traffic)
         IN  /\ p.out # "ok" => p.db = db
             /\ p.out = "ok" => /\ p.db.deployments = {WMoved(r, app, traffic) : r \in db.deployments}
                                /\ p.db.workers = db.workers
                                /\ p.db.worker_secrets = db.worker_secrets
                                /\ DOMAIN p.db = DOMAIN db
             /\ (DOMAIN traffic \subseteq WIdsOf(db, app) /\ WHas(db, app)) <=> p.out = "ok"
<1> DEFINE rows == {r \in db.deployments : r.app = app}
           new == {[r EXCEPT !.traffic = IF r.id \in DOMAIN traffic THEN traffic[r.id] ELSE 0] : r \in rows}
<1>1. WIdsOf(db, app) = {r.id : r \in rows}  BY DEF WIdsOf
<1>2. CASE ~(DOMAIN traffic \subseteq {r.id : r \in rows})
    BY <1>2, <1>1, Denied, WReasons, Zenon DEF PgSetActiveTraffic
<1>3. CASE DOMAIN traffic \subseteq {r.id : r \in rows} /\ PgGetApp(db, app) = NotFound
    BY <1>3, WGet, Denied, WReasons DEF PgSetActiveTraffic
<1>4. CASE DOMAIN traffic \subseteq {r.id : r \in rows} /\ PgGetApp(db, app) # NotFound
  <2>1. PICK D : D = Replace(db.deployments, rows, new)  OBVIOUS
  <2>2. PICK d : d = [db EXCEPT !.deployments = D]  OBVIOUS
  <2>3. PgSetActiveTraffic(db, app, traffic) = Done(d)
    BY <1>4, <2>1, <2>2, Zenon DEF PgSetActiveTraffic
  <2>4. PgSetActiveTraffic(db, app, traffic).db = d /\ PgSetActiveTraffic(db, app, traffic).out = "ok"
    BY <2>3 DEF Done
  <2>5. d.deployments = D /\ d.workers = db.workers /\ d.worker_secrets = db.worker_secrets
        /\ DOMAIN d = DOMAIN db
    BY <2>2 DEF WRowsOK, WTables
  <2>6. D = {WMoved(r, app, traffic) : r \in db.deployments} BY <2>1 DEF WMoved, Replace
  <2>7. WHas(db, app)  BY <1>4, WGet
  <2> QED  BY <2>4, <2>5, <2>6, <2>7, <1>1, <1>4, Zenon
<1> QED  BY <1>2, <1>3, <1>4, Zenon

\* What the traffic of a worker says of its deployments.
WTrafficOK(db, app, f) ==
    /\ \A r \in db.deployments : r.app = app => (r.id \in DOMAIN f <=> r.traffic > 0)
    /\ \A r \in db.deployments : r.app = app /\ r.traffic > 0 => f[r.id] = r.traffic
    /\ \A id \in DOMAIN f : f[id] \in Nat
    /\ DOMAIN f \subseteq WIdsOf(db, app)

\* TrafficIn says it.
LEMMA WTraffic ==
  ASSUME NEW db, WRowsOK(db), NEW app
  PROVE  /\ WTrafficOK(db, app, TrafficIn(db, app))
         /\ DOMAIN TrafficIn(db, app) = {r.id : r \in {x \in db.deployments : x.app = app /\ x.traffic > 0}}
BY DEF TrafficIn, WRowsOK, WRow, WIdsOf, WTrafficOK
-----------------------------------------------------------------------------
\* The data under each repository call.

\* Calls that leave deployments and secrets alone and remove no worker.
LEMMA WDataFrame ==
  ASSUME NEW db, NEW e, NEW art, NEW bun, NEW srv, WDataOK(db, art, bun, srv),
         WTables \subseteq DOMAIN e, e.deployments = db.deployments, e.worker_secrets = db.worker_secrets,
         \A a \in e.workers : "id" \in DOMAIN a /\ a.id \in AppIDs,
         \A app : WHas(db, app) => WHas(e, app)
  PROVE  WDataOK(e, art, bun, srv)
<1>1. WRowsOK(e)  BY DEF WDataOK, WRowsOK
<1>2. WIdsOK(e, art)  BY DEF WDataOK, WIdsOK
<1>3. WBundlesOK(e, bun)  BY DEF WDataOK, WBundlesOK
<1>4. \A id : WEff(e, art, id) = WEff(db, art, id)  BY DEF WEff, SecretsIn, Deployed
<1>5. WServingOK(e, art, srv)  BY <1>4 DEF WDataOK, WServingOK
<1> QED  BY <1>1, <1>2, <1>3, <1>5 DEF WDataOK

\* A worker is created, or refused.
LEMMA WCreate ==
  ASSUME NEW db, NEW a, WTables \subseteq DOMAIN db
  PROVE  LET e == PgCreateApp(db, a).db
         IN  \/ e = db
             \/ /\ ~WHas(db, a.id)
                /\ e.workers = db.workers \cup {a} /\ e.deployments = db.deployments
                /\ e.worker_secrets = db.worker_secrets /\ DOMAIN e = DOMAIN db
<1>1. PICK d : d = [db EXCEPT !.workers = @ \cup {a}]  OBVIOUS
<1>2. \/ PgCreateApp(db, a) = Refused(db, "worker exists")
      \/ PgCreateApp(db, a) = Done(d) /\ ~WHas(db, a.id)
  BY <1>1, Zenon DEF PgCreateApp, WHas
<1>3. /\ d.workers = db.workers \cup {a} /\ d.deployments = db.deployments
      /\ d.worker_secrets = db.worker_secrets /\ DOMAIN d = DOMAIN db
  BY <1>1 DEF WTables
<1>4. CASE PgCreateApp(db, a) = Refused(db, "worker exists") BY <1>4, Denied
<1>5. CASE PgCreateApp(db, a) = Done(d) /\ ~WHas(db, a.id) BY <1>5, Accepted, <1>3
<1> QED  BY <1>2, <1>4, <1>5, Zenon

\* The data stay as they should be then,
LEMMA WCreateData ==
  ASSUME NEW db, NEW art, NEW bun, NEW srv, WDataOK(db, art, bun, srv),
         NEW a, "id" \in DOMAIN a, a.id \in AppIDs
  PROVE  WDataOK(PgCreateApp(db, a).db, art, bun, srv)
<1>1. PICK e : e = PgCreateApp(db, a).db  OBVIOUS
<1>2. WRowsOK(db)  BY DEF WDataOK
<1>3. CASE e = db  BY <1>1, <1>3
<1>4. CASE e # db BY <1>1, <1>2, <1>4, WCreate, WDataFrame DEF WRowsOK, WHas
<1> QED  BY <1>3, <1>4

\* A worker is patched, or not.
LEMMA WPatch ==
  ASSUME NEW db, WRowsOK(db), NEW id, NEW in
  PROVE  LET p == PgPatchApp(db, id, in)
         IN  /\ p.out # "ok" => p.db = db
             /\ p.out = "ok" => WHas(db, id)
             /\ p.out = "ok" => /\ p.db.deployments = db.deployments
                                /\ p.db.worker_secrets = db.worker_secrets
                                /\ DOMAIN p.db = DOMAIN db
                                /\ \A app : WHas(db, app) => WHas(p.db, app)
                                /\ \A a \in p.db.workers : "id" \in DOMAIN a /\ a.id \in AppIDs
                                /\ \A app : app # id => PgGetApp(p.db, app) = PgGetApp(db, app)
<1> DEFINE rows == {r \in db.workers : r.id = id}
           new == {Patched(r, in) : r \in rows}
<1>1. PICK W : W = Replace(db.workers, rows, new)  OBVIOUS
<1>2. PICK d : d = [db EXCEPT !.workers = W]  OBVIOUS
<1>3. \/ PgPatchApp(db, id, in) = Refused(db, "worker not found")
      \/ PgPatchApp(db, id, in) = Refused(db, "worker exists")
      \/ PgPatchApp(db, id, in) = Done(d) /\ WHas(db, id)
  BY <1>1, <1>2, Zenon DEF PgPatchApp, WHas
<1>4. /\ d.workers = W /\ d.deployments = db.deployments
      /\ d.worker_secrets = db.worker_secrets /\ DOMAIN d = DOMAIN db
  BY <1>2 DEF WRowsOK, WTables
<1>5. \A r \in rows : DOMAIN Patched(r, in) = DOMAIN r /\ Patched(r, in).id = id
    BY DEF WRowsOK, Patched
<1>6. \A a \in W : "id" \in DOMAIN a /\ a.id \in AppIDs BY <1>1, <1>5 DEF Replace, WRowsOK
<1>7. \A app : WHas(db, app) => WHas(d, app)
  <2>1. ASSUME NEW app, NEW a \in db.workers, a.id = app PROVE \E x \in W : x.id = app
      BY <1>1, <1>5, <2>1 DEF Replace
  <2> QED  BY <1>4, <2>1 DEF WHas
<1>8. \A app : app # id => PgGetApp(d, app) = PgGetApp(db, app)
  <2>1. ASSUME NEW app, app # id PROVE {r \in W : r.id = app} = {r \in db.workers : r.id = app}
      BY <1>5, <2>1, <1>1 DEF Replace
  <2> QED  BY <1>4, <2>1 DEF PgGetApp
<1>9. CASE PgPatchApp(db, id, in) = Done(d) /\ WHas(db, id)
  BY <1>4, <1>6, <1>7, <1>8, <1>9, Accepted
<1>10. CASE PgPatchApp(db, id, in) = Refused(db, "worker not found")
            \/ PgPatchApp(db, id, in) = Refused(db, "worker exists")
  <2>0. \E why : why # "ok" /\ PgPatchApp(db, id, in) = Refused(db, why)  BY <1>10, WReasons, Zenon
  <2>1. PgPatchApp(db, id, in).db = db /\ PgPatchApp(db, id, in).out # "ok"  BY <2>0, Denied
  <2> QED  BY <2>1
<1> QED  BY <1>3, <1>9, <1>10, Zenon

\* and then.
LEMMA WPatchData ==
  ASSUME NEW db, NEW art, NEW bun, NEW srv, WDataOK(db, art, bun, srv), NEW id, NEW in
  PROVE  WDataOK(PgPatchApp(db, id, in).db, art, bun, srv)
BY WPatch, WDataFrame DEF WDataOK, WRowsOK

\* A worker is deleted, or was not there.
LEMMA WDelete ==
  ASSUME NEW db, WRowsOK(db), NEW id
  PROVE  LET p == PgDeleteApp(db, id)
         IN  /\ p.out # "ok" => p.db = db
             /\ p.out = "ok" => /\ p.db.deployments = {r \in db.deployments : r.app # id}
                                /\ p.db.worker_secrets = {r \in db.worker_secrets : r.app # id}
                                /\ p.db.workers = {a \in db.workers : a.id # id}
                                /\ DOMAIN p.db = DOMAIN db
<1> DEFINE rows == {r \in db.workers : r.id = id}
<1>1. PICK d : d = [db EXCEPT !.workers = @ \ rows,
                             !.deployments = {r \in @ : r.app # id},
                             !.worker_secrets = {r \in @ : r.app # id}]  OBVIOUS
<1>2. \/ PgDeleteApp(db, id) = Refused(db, "worker not found")
      \/ PgDeleteApp(db, id) = Done(d)
  BY <1>1, Zenon DEF PgDeleteApp
<1>3. d = [[[db EXCEPT !.workers = db.workers \ rows]
              EXCEPT !.deployments = {r \in db.deployments : r.app # id}]
              EXCEPT !.worker_secrets = {r \in db.worker_secrets : r.app # id}]
  BY <1>1
<1>4. PICK d1 : d1 = [db EXCEPT !.workers = db.workers \ rows]  OBVIOUS
<1>5. PICK d2 : d2 = [d1 EXCEPT !.deployments = {r \in db.deployments : r.app # id}]  OBVIOUS
<1>6. d = [d2 EXCEPT !.worker_secrets = {r \in db.worker_secrets : r.app # id}]
  BY <1>3, <1>4, <1>5
<1>7. d1.workers = {a \in db.workers : a.id # id} /\ DOMAIN d1 = DOMAIN db
  BY <1>4 DEF WRowsOK, WTables
<1>8. d2.workers = {a \in db.workers : a.id # id} /\ DOMAIN d2 = DOMAIN db
      /\ d2.deployments = {r \in db.deployments : r.app # id}
  BY <1>5, <1>7 DEF WRowsOK, WTables
<1>9. d.workers = {a \in db.workers : a.id # id} /\ DOMAIN d = DOMAIN db
      /\ d.deployments = {r \in db.deployments : r.app # id}
      /\ d.worker_secrets = {r \in db.worker_secrets : r.app # id}
  BY <1>6, <1>8 DEF WRowsOK, WTables
<1>10. CASE PgDeleteApp(db, id) = Refused(db, "worker not found")
  <2>0. \E why : why # "ok" /\ PgDeleteApp(db, id) = Refused(db, why)  BY <1>10, WReasons, Zenon
  <2>1. PgDeleteApp(db, id).db = db /\ PgDeleteApp(db, id).out # "ok"  BY <2>0, Denied
  <2> QED  BY <2>1
<1>11. CASE PgDeleteApp(db, id) = Done(d)
  BY <1>9, <1>11, Accepted
<1> QED  BY <1>2, <1>10, <1>11, Zenon

\* With fewer deployments each that stays is found as before.
LEMMA WDeleteData ==
  ASSUME NEW db, NEW art, NEW bun, NEW srv, WDataOK(db, art, bun, srv), NEW id
  PROVE  LET p == PgDeleteApp(db, id)
         IN  WDataOK(p.db, art, bun, [i \in DOMAIN srv \cap {r.id : r \in p.db.deployments} |-> srv[i]])
<1>1. PICK p : p = PgDeleteApp(db, id)  OBVIOUS
<1>2. WRowsOK(db)  BY DEF WDataOK
<1>3. PICK e : e = p.db  OBVIOUS
<1>4. PICK s : s = [i \in DOMAIN srv \cap {r.id : r \in e.deployments} |-> srv[i]]  OBVIOUS
<1>5. /\ e.deployments \subseteq db.deployments
      /\ \A a \in e.workers : a \in db.workers
      /\ \A r \in e.deployments : WHas(e, r.app) /\ SecretsIn(e, r.app) = SecretsIn(db, r.app)
      /\ DOMAIN e = DOMAIN db
  <2>1. CASE p.out # "ok" BY <1>1, <1>2, <1>3, <2>1, WDelete DEF WRowsOK
  <2>2. CASE p.out = "ok" BY <1>1, <1>2, <1>3, <2>2, WDelete DEF WRowsOK, WHas, SecretsIn
  <2> QED  BY <2>1, <2>2
<1>6. WRowsOK(e)  BY <1>2, <1>5 DEF WRowsOK
<1>7. WIdsOK(e, art) /\ WBundlesOK(e, bun)  BY <1>5 DEF WDataOK, WIdsOK, WBundlesOK
<1>8. DOMAIN s = {r.id : r \in {x \in e.deployments : x.traffic > 0}}
    BY <1>4, <1>2, <1>5 DEF WDataOK, WServingOK, WRowsOK
<1>9. ASSUME NEW i \in DOMAIN s PROVE WEff(e, art, i) = s[i]
    BY <1>8, <1>9, <1>2, <1>5, <1>6, WFound, <1>4 DEF WEff, WDataOK, WServingOK
<1>10. WServingOK(e, art, s)  BY <1>8, <1>9 DEF WServingOK
<1>11. WDataOK(e, art, bun, s)  BY <1>6, <1>7, <1>10 DEF WDataOK
<1> QED  BY <1>1, <1>3, <1>4, <1>11

\* Traffic moves: a deployment that becomes active serves what it is hydrated with.
WServingAfter(db, art, srv, e) ==
    [id \in {r.id : r \in {x \in e.deployments : x.traffic > 0}} |->
        IF id \in DOMAIN srv THEN srv[id] ELSE WEff(db, art, id)]

\* SetActiveTraffic, with what becomes active serving what it was hydrated with.
LEMMA WSetData ==
  ASSUME NEW db, NEW art, NEW bun, NEW srv, WDataOK(db, art, bun, srv), NEW app, NEW traffic,
         \A id \in DOMAIN traffic : traffic[id] \in Nat
  PROVE  LET e == PgSetActiveTraffic(db, app, traffic).db
         IN  WDataOK(e, art, bun, WServingAfter(db, art, srv, e))
<1>1. PICK e : e = PgSetActiveTraffic(db, app, traffic).db  OBVIOUS
<1>2. WRowsOK(db)  BY DEF WDataOK
<1>3. /\ \A r \in e.deployments : \E x \in db.deployments :
             r \in WRow /\ r.id = x.id /\ r.app = x.app /\ r.object = x.object
      /\ \A r, s \in e.deployments : r.id = s.id => r = s
      /\ e.workers = db.workers /\ e.worker_secrets = db.worker_secrets /\ DOMAIN e = DOMAIN db
  <2>1. CASE e = db  BY <1>2, <2>1 DEF WRowsOK
  <2>2. CASE e # db
    <3>1. /\ e.deployments = {WMoved(r, app, traffic) : r \in db.deployments}
          /\ e.workers = db.workers /\ e.worker_secrets = db.worker_secrets /\ DOMAIN e = DOMAIN db
      BY <1>1, <1>2, <2>2, WSetRows
    <3>2. \A r \in db.deployments : LET x == WMoved(r, app, traffic)
                                    IN  x \in WRow /\ x.id = r.id /\ x.app = r.app /\ x.object = r.object
      BY <1>2, WMovedRow DEF WRowsOK
    <3>3. \A r, s \in e.deployments : r.id = s.id => r = s BY <3>1, <1>2, <3>2 DEF WRowsOK
    <3> QED  BY <3>1, <3>2, <3>3
  <2> QED  BY <2>1, <2>2
<1>4. WRowsOK(e) BY <1>2, <1>3 DEF WRowsOK, WHas
<1>5. WIdsOK(e, art)  BY <1>3 DEF WDataOK, WIdsOK
<1>6. WBundlesOK(e, bun) BY <1>3 DEF WDataOK, WBundlesOK
<1>7. \A r \in e.deployments : WEff(e, art, r.id) = WEff(db, art, r.id)
  <2>1. ASSUME NEW r \in e.deployments PROVE WEff(e, art, r.id) = WEff(db, art, r.id)
    <3>1. PICK x \in db.deployments : r.id = x.id /\ r.app = x.app  BY <1>3
    <3>2. Deployed(e, r.id) = r /\ Deployed(db, r.id) = x  BY <1>2, <1>4, <3>1, WFound
    <3>3. SecretsIn(e, r.app) = SecretsIn(db, r.app)  BY <1>3 DEF SecretsIn
    <3> QED  BY <3>1, <3>2, <3>3 DEF WEff
  <2> QED  BY <2>1
<1>8. PICK s : s = WServingAfter(db, art, srv, e)  OBVIOUS
<1>9. DOMAIN s = {r.id : r \in {x \in e.deployments : x.traffic > 0}}  BY <1>8 DEF WServingAfter
<1>10. ASSUME NEW id \in DOMAIN s PROVE WEff(e, art, id) = s[id]
    BY <1>9, <1>10, <1>7, <1>8 DEF WServingAfter, WDataOK, WServingOK
<1>11. WServingOK(e, art, s)  BY <1>9, <1>10 DEF WServingOK
<1> QED  BY <1>1, <1>4, <1>5, <1>6, <1>8, <1>11 DEF WDataOK

\* A deployment is stored under a fresh id, with its artifact.
LEMMA WStore ==
  ASSUME NEW db, WRowsOK(db), NEW d \in WDeployment
  PROVE  LET e == PgStoreDeployment(db, d).db
         IN  \/ e = db /\ (~WHas(db, d.app) \/ \E r \in db.deployments : r.id = d.id)
             \/ /\ WHas(db, d.app) /\ \A r \in db.deployments : r.id # d.id
                /\ e.deployments = db.deployments \cup {Put(d, "traffic", 0)}
                /\ e.workers = db.workers /\ e.worker_secrets = db.worker_secrets
                /\ DOMAIN e = DOMAIN db
BY Accepted, Denied, WGet DEF PgStoreDeployment, WRowsOK, WTables

\* The data with it; its object may be shared with deployments of its worker.
LEMMA WStoreData ==
  ASSUME NEW db, NEW art, NEW bun, NEW srv, WDataOK(db, art, bun, srv), NEW d \in WDeployment,
         NEW n \in Nat, n >= 1, DOMAIN art \cup {1} = 1..n, d.id = n + 1, d.object \in bun, d.object \in 1..n + 1,
         \A r \in db.deployments : r.object = d.object => r.app = d.app, NEW secrets
  PROVE  WDataOK(PgStoreDeployment(db, d).db, Put(art, d.id, secrets), bun, srv)
<1>1. PICK e : e = PgStoreDeployment(db, d).db  OBVIOUS
<1>2. WRowsOK(db)  BY DEF WDataOK
<1>3. PICK a : a = Put(art, d.id, secrets)  OBVIOUS
<1>4. DOMAIN a = DOMAIN art \cup {d.id} /\ \A i \in DOMAIN art : i # d.id => a[i] = art[i]
  BY <1>3 DEF Put
<1>5. DOMAIN a \cup {1} = 1..n + 1  BY <1>4
<1>6. \A r \in db.deployments : r.id \in 1..n /\ r.object \in 1..n  BY DEF WDataOK, WIdsOK
<1>7. /\ \A r \in e.deployments : r \in db.deployments
              \/ (r = Put(d, "traffic", 0) /\ WHas(db, d.app))
      /\ \A r \in db.deployments : r \in e.deployments
      /\ e.workers = db.workers /\ e.worker_secrets = db.worker_secrets /\ DOMAIN e = DOMAIN db
  BY <1>1, <1>2, WStore
<1>8. PICK new : new = Put(d, "traffic", 0)  OBVIOUS
<1>9. new \in WRow /\ new.id = n + 1 /\ new.app = d.app /\ new.object = d.object /\ new.traffic = 0
  BY <1>8, WRowMade
<1>10. \A r \in e.deployments : r \in db.deployments \/ (r = new /\ WHas(db, d.app))  BY <1>7, <1>8
<1>11. WRowsOK(e) BY <1>2, <1>7, <1>9, <1>10, <1>6 DEF WRowsOK, WHas
<1>12. WIdsOK(e, a) BY <1>6, <1>9, <1>10, <1>5 DEF WIdsOK
<1>13. WBundlesOK(e, bun)  BY <1>9, <1>10 DEF WDataOK, WBundlesOK
<1>14. WServingOK(e, a, srv)
  <2>1. {x \in e.deployments : x.traffic > 0} = {x \in db.deployments : x.traffic > 0}
    BY <1>7, <1>9, <1>10
  <2>2. ASSUME NEW id \in DOMAIN srv PROVE WEff(e, a, id) = srv[id]
    <3>1. PICK r \in db.deployments : r.id = id  BY DEF WDataOK, WServingOK
    <3>2. Deployed(db, id) = r /\ Deployed(e, id) = r  BY <1>2, <1>7, <1>11, <3>1, WFound
    <3>3. id # d.id  BY <1>6, <3>1
    <3>4. (id \in DOMAIN a <=> id \in DOMAIN art) /\ (id \in DOMAIN art => a[id] = art[id])
      BY <1>4, <3>3
    <3>5. SecretsIn(e, r.app) = SecretsIn(db, r.app)  BY <1>7 DEF SecretsIn
    <3>6. WEff(e, a, id) = WEff(db, art, id)  BY <3>2, <3>4, <3>5 DEF WEff
    <3> QED  BY <3>6 DEF WDataOK, WServingOK
  <2> QED  BY <2>1, <2>2 DEF WDataOK, WServingOK
<1> QED  BY <1>1, <1>3, <1>11, <1>12, <1>13, <1>14 DEF WDataOK

\* Secrets change: what is active and has no artifact has got one.
WPinned(db, art, app) ==
    [id \in DOMAIN art \cup (DOMAIN TrafficIn(db, app) \ DOMAIN art) |->
        IF id \in DOMAIN TrafficIn(db, app) \ DOMAIN art THEN SecretsIn(db, app) ELSE art[id]]

\* A call that changes the secrets of one worker only, after its active deployments are pinned.
LEMMA WSecretsData ==
  ASSUME NEW db, NEW art, NEW bun, NEW srv, WDataOK(db, art, bun, srv), NEW app, NEW e,
         e.deployments = db.deployments, e.workers = db.workers, DOMAIN e = DOMAIN db,
         \A other : other # app => SecretsIn(e, other) = SecretsIn(db, other)
  PROVE  WDataOK(e, WPinned(db, art, app), bun, srv)
<1>1. WRowsOK(db)  BY DEF WDataOK
<1>2. PICK a : a = WPinned(db, art, app)  OBVIOUS
<1>3. PICK legacy : legacy = DOMAIN TrafficIn(db, app) \ DOMAIN art  OBVIOUS
<1>4. a = [id \in DOMAIN art \cup legacy |-> IF id \in legacy THEN SecretsIn(db, app) ELSE art[id]]
  BY <1>2, <1>3, Zenon DEF WPinned
<1>5. legacy \subseteq {1}
  <2>1. DOMAIN TrafficIn(db, app) \subseteq WIdsOf(db, app)  BY <1>1, WTraffic DEF WTrafficOK
  <2> QED  BY <1>3, <2>1 DEF WIdsOf, WDataOK, WIdsOK
<1>6. DOMAIN a \cup {1} = DOMAIN art \cup {1}  BY <1>4, <1>5
<1>7. WRowsOK(e)  BY <1>1 DEF WRowsOK, WHas
<1>8. WIdsOK(e, a)  BY <1>6 DEF WDataOK, WIdsOK
<1>9. WBundlesOK(e, bun)  BY DEF WDataOK, WBundlesOK
<1>10. ASSUME NEW id \in DOMAIN srv PROVE WEff(e, a, id) = srv[id]
  <2>1. PICK r \in db.deployments : r.id = id /\ r.traffic > 0  BY DEF WDataOK, WServingOK
  <2>2. Deployed(db, id) = r /\ Deployed(e, id) = r  BY <1>1, <1>7, <2>1, WFound
  <2>3. CASE id \in DOMAIN art BY <1>3, <1>4, <2>3 DEF WEff, WDataOK, WServingOK
  <2>4. CASE id \notin DOMAIN art /\ r.app = app
      BY <1>1, <1>3, <2>1, <2>4, WTraffic, <1>4, <2>2 DEF WTrafficOK, WEff, WDataOK, WServingOK
  <2>5. CASE id \notin DOMAIN art /\ r.app # app
    <3>1. id \notin DOMAIN a
      <4>1. id \notin DOMAIN TrafficIn(db, app)
        <5>1. DOMAIN TrafficIn(db, app) = {x.id : x \in {y \in db.deployments : y.app = app /\ y.traffic > 0}}
          BY <1>1, WTraffic
        <5> QED  BY <1>1, <2>1, <2>5, <5>1 DEF WRowsOK
      <4> QED  BY <1>3, <1>4, <2>5, <4>1
    <3>2. SecretsIn(e, r.app) = SecretsIn(db, r.app)  BY <2>5
    <3>3. WEff(e, a, id) = WEff(db, art, id)  BY <2>2, <2>5, <3>1, <3>2 DEF WEff
    <3> QED  BY <3>3 DEF WDataOK, WServingOK
  <2> QED  BY <2>3, <2>4, <2>5
<1>11. WServingOK(e, a, srv)  BY <1>10 DEF WDataOK, WServingOK
<1> QED  BY <1>2, <1>7, <1>8, <1>9, <1>11 DEF WDataOK

\* Both calls are such: PutSecret,
LEMMA WPut ==
  ASSUME NEW db, WRowsOK(db), NEW app, NEW name, NEW value
  PROVE  LET e == PgPutSecret(db, app, name, value).db
         IN  /\ e.deployments = db.deployments /\ e.workers = db.workers /\ DOMAIN e = DOMAIN db
             /\ \A other : other # app => SecretsIn(e, other) = SecretsIn(db, other)
<1> DEFINE rows == {r \in db.worker_secrets : r.app = app /\ r.name = name}
           new == [app |-> app, name |-> name, value |-> value]
<1>1. PICK S : S = Replace(db.worker_secrets, rows, {new})  OBVIOUS
<1>2. PICK d : d = [db EXCEPT !.worker_secrets = S]  OBVIOUS
<1>3. \/ \E why : PgPutSecret(db, app, name, value) = Refused(db, why)
      \/ PgPutSecret(db, app, name, value) = Done(d)
  BY <1>1, <1>2, Zenon DEF PgPutSecret
<1>4. PgPutSecret(db, app, name, value).db \in {db, d}  BY <1>3, Accepted, Denied
<1>5. d.deployments = db.deployments /\ d.workers = db.workers /\ DOMAIN d = DOMAIN db /\ d.worker_secrets = S
  BY <1>2 DEF WRowsOK, WTables
<1>6. \A other : other # app => SecretsIn(d, other) = SecretsIn(db, other)
    BY <1>1, <1>5 DEF Replace, SecretsIn
<1> QED  BY <1>4, <1>5, <1>6

\* and DeleteSecret.
LEMMA WDeleted ==
  ASSUME NEW db, WRowsOK(db), NEW app, NEW name
  PROVE  LET e == PgDeleteSecret(db, app, name).db
         IN  /\ e.deployments = db.deployments /\ e.workers = db.workers /\ DOMAIN e = DOMAIN db
             /\ \A other : other # app => SecretsIn(e, other) = SecretsIn(db, other)
<1> DEFINE rows == {r \in db.worker_secrets : r.app = app /\ r.name = name}
<1>1. PICK d : d = [db EXCEPT !.worker_secrets = @ \ rows]  OBVIOUS
<1>2. \/ \E why : PgDeleteSecret(db, app, name) = Refused(db, why)
      \/ PgDeleteSecret(db, app, name) = Done(d)
  BY <1>1, Zenon DEF PgDeleteSecret
<1>3. PgDeleteSecret(db, app, name).db \in {db, d}  BY <1>2, Accepted, Denied
<1>4. d.deployments = db.deployments /\ d.workers = db.workers /\ DOMAIN d = DOMAIN db
      /\ d.worker_secrets = db.worker_secrets \ rows
  BY <1>1 DEF WRowsOK, WTables
<1>5. \A other : other # app => SecretsIn(d, other) = SecretsIn(db, other) BY <1>4 DEF SecretsIn
<1> QED  BY <1>3, <1>4, <1>5
-----------------------------------------------------------------------------
\* What the gateway reads, under each repository call.

\* It depends on the rows with traffic and on their workers only.
LEMMA WActiveSame ==
  ASSUME NEW db, NEW e, NEW app,
         \A r : r.traffic > 0 /\ (app = 0 \/ r.app = app) => (r \in db.deployments <=> r \in e.deployments),
         \A r \in db.deployments : r.traffic > 0 /\ (app = 0 \/ r.app = app) =>
            PgGetApp(db, r.app) = PgGetApp(e, r.app)
  PROVE  PgActiveDeployments(e, app) = PgActiveDeployments(db, app)
BY DEF PgActiveDeployments

\* Workers are read as before when they are the same for every deployment,
LEMMA WActiveKept ==
  ASSUME NEW db, NEW e, e.deployments = db.deployments,
         \A r \in db.deployments : PgGetApp(e, r.app) = PgGetApp(db, r.app)
  PROVE  \A app : PgActiveDeployments(e, app) = PgActiveDeployments(db, app)
BY WActiveSame

\* as when another worker is created,
LEMMA WActiveCreate ==
  ASSUME NEW db, WRowsOK(db), NEW a, "id" \in DOMAIN a, a.id \in AppIDs
  PROVE  LET e == PgCreateApp(db, a).db
         IN  /\ \A app : PgActiveDeployments(e, app) = PgActiveDeployments(db, app)
             /\ \A app : WHas(db, app) => PgGetApp(e, app) = PgGetApp(db, app) /\ WHas(e, app)
<1>1. PICK e : e = PgCreateApp(db, a).db  OBVIOUS
<1>2. CASE e = db  BY <1>1, <1>2
<1>3. CASE ~WHas(db, a.id) /\ e.workers = db.workers \cup {a} /\ e.deployments = db.deployments
  <2>1. ASSUME NEW app, WHas(db, app) PROVE PgGetApp(e, app) = PgGetApp(db, app) /\ WHas(e, app)
      BY <1>3, <2>1 DEF PgGetApp, WHas
  <2>2. \A r \in db.deployments : PgGetApp(e, r.app) = PgGetApp(db, r.app)  BY <2>1 DEF WRowsOK
  <2>3. \A app : PgActiveDeployments(e, app) = PgActiveDeployments(db, app)  BY <1>3, <2>2, WActiveKept
  <2> QED  BY <1>1, <2>1, <2>3
<1> QED  BY <1>1, <1>2, <1>3, WCreate DEF WRowsOK

\* of other workers when one is patched, deleted or its traffic moves,
LEMMA WActivePatch ==
  ASSUME NEW db, WRowsOK(db), NEW id, NEW in, NEW app \in AppIDs, app # id
  PROVE  PgActiveDeployments(PgPatchApp(db, id, in).db, app) = PgActiveDeployments(db, app)
BY WPatch, WActiveSame, WAppIDs

\* when one is deleted,
LEMMA WActiveDelete ==
  ASSUME NEW db, WRowsOK(db), NEW id, NEW app \in AppIDs, app # id
  PROVE  PgActiveDeployments(PgDeleteApp(db, id).db, app) = PgActiveDeployments(db, app)
<1>1. PICK p : p = PgDeleteApp(db, id)  OBVIOUS
<1>2. CASE p.out # "ok"  BY <1>1, <1>2, WDelete
<1>3. CASE p.out = "ok"
  <2>1. p.db.deployments = {r \in db.deployments : r.app # id}
        /\ p.db.workers = {a \in db.workers : a.id # id}
    BY <1>1, <1>3, WDelete
  <2>2. {r \in p.db.workers : r.id = app} = {r \in db.workers : r.id = app}  BY <2>1
  <2>3. PgGetApp(p.db, app) = PgGetApp(db, app)  BY <2>2 DEF PgGetApp
  <2> QED  BY <1>1, <2>1, <2>3, WActiveSame, WAppIDs
<1> QED  BY <1>2, <1>3

\* when the traffic of one moves,
LEMMA WActiveSet ==
  ASSUME NEW db, WRowsOK(db), NEW id, NEW traffic, \A i \in DOMAIN traffic : traffic[i] \in Nat,
         NEW app \in AppIDs, app # id
  PROVE  PgActiveDeployments(PgSetActiveTraffic(db, id, traffic).db, app) = PgActiveDeployments(db, app)
<1>1. PICK p : p = PgSetActiveTraffic(db, id, traffic)  OBVIOUS
<1>2. CASE p.out # "ok"  BY <1>1, <1>2, WSetRows
<1>3. CASE p.out = "ok"
  <2>1. p.db.deployments = {WMoved(r, id, traffic) : r \in db.deployments} /\ p.db.workers = db.workers
    BY <1>1, <1>3, WSetRows
  <2>2. \A r \in db.deployments : r.app # id => WMoved(r, id, traffic) = r  BY DEF WMoved
  <2>3. \A r \in db.deployments : WMoved(r, id, traffic).app = r.app  BY WMovedRow DEF WRowsOK
  <2>4. \A r : r.app = app => (r \in db.deployments <=> r \in p.db.deployments)
    BY <2>1, <2>2, <2>3
  <2>5. \A x : PgGetApp(p.db, x) = PgGetApp(db, x)  BY <2>1 DEF PgGetApp
  <2> QED  BY <1>1, <2>4, <2>5, WActiveSame, WAppIDs
<1> QED  BY <1>2, <1>3

\* The traffic of rows.
WTrafficOf(rows) == [id \in {r.id : r \in rows} |-> (CHOOSE r \in rows : r.id = id).traffic]

\* and of all when a deployment is stored, which has no traffic yet.
LEMMA WActiveStore ==
  ASSUME NEW db, WRowsOK(db), NEW d \in WDeployment
  PROVE  LET e == PgStoreDeployment(db, d).db
         IN  /\ \A app : PgActiveDeployments(e, app) = PgActiveDeployments(db, app)
             /\ TrafficIn(e, d.app) = TrafficIn(db, d.app)
<1>1. PICK e : e = PgStoreDeployment(db, d).db  OBVIOUS
<1>2. CASE e = db  BY <1>1, <1>2
<1>3. CASE e.deployments = db.deployments \cup {Put(d, "traffic", 0)} /\ e.workers = db.workers
  <2>1. \A r : r.traffic > 0 => (r \in db.deployments <=> r \in e.deployments)  BY <1>3, WRowMade
  <2>2. \A x : PgGetApp(e, x) = PgGetApp(db, x)  BY <1>3 DEF PgGetApp
  <2>3. ASSUME NEW app PROVE PgActiveDeployments(e, app) = PgActiveDeployments(db, app)
    BY <2>1, <2>2, WActiveSame
  <2>4. {r \in e.deployments : r.app = d.app /\ r.traffic > 0}
          = {r \in db.deployments : r.app = d.app /\ r.traffic > 0}
    BY <2>1
  <2>5. TrafficIn(e, d.app) = WTrafficOf({r \in e.deployments : r.app = d.app /\ r.traffic > 0})
    BY Zenon DEF TrafficIn, WTrafficOf
  <2>6. TrafficIn(db, d.app) = WTrafficOf({r \in db.deployments : r.app = d.app /\ r.traffic > 0})
    BY Zenon DEF TrafficIn, WTrafficOf
  <2>7. TrafficIn(e, d.app) = TrafficIn(db, d.app)  BY <2>4, <2>5, <2>6, Zenon
  <2> QED  BY <1>1, <2>3, <2>7
<1> QED  BY <1>1, <1>2, <1>3, WStore
-----------------------------------------------------------------------------
\* Moving traffic back.
WRestored(db, app, previous) == PgSetActiveTraffic(db, app, previous).db

\* It is the same for the same rows.
LEMMA WActiveOf ==
  ASSUME NEW db, NEW e, e.deployments = db.deployments, e.workers = db.workers
  PROVE  ActiveIn(e) = ActiveIn(db)
BY WActiveKept DEF PgGetApp, ActiveIn

\* What traffic was before is what the previous traffic restores, from whatever it moved to.
LEMMA WUndone ==
  ASSUME NEW db, WRowsOK(db), NEW app, WHas(db, app), NEW traffic,
         \A id \in DOMAIN traffic : traffic[id] \in Nat
  PROVE  LET e == PgSetActiveTraffic(db, app, traffic).db
         IN  /\ ActiveIn(WRestored(e, app, TrafficIn(db, app))) = ActiveIn(db)
             /\ WIdsOf(e, app) = WIdsOf(db, app) /\ WHas(e, app)
<1>1. PICK e : e = PgSetActiveTraffic(db, app, traffic).db  OBVIOUS
<1>2. PICK prev : prev = TrafficIn(db, app)  OBVIOUS
<1>3. WTrafficOK(db, app, prev)  BY <1>2, WTraffic
<1>4. ASSUME NEW D, WRowsOK(D), D.workers = db.workers,
             \A x \in D.deployments : \E r \in db.deployments : WMoved(x, app, prev) = r /\ x.id = r.id /\ x.app = r.app,
             \A r \in db.deployments : \E x \in D.deployments : WMoved(x, app, prev) = r /\ x.id = r.id /\ x.app = r.app
      PROVE  ActiveIn(WRestored(D, app, prev)) = ActiveIn(db) /\ WIdsOf(D, app) = WIdsOf(db, app)
             /\ WHas(D, app)
  <2>1. WIdsOf(D, app) = WIdsOf(db, app)  BY <1>4 DEF WIdsOf
  <2>2. WHas(D, app)  BY <1>4 DEF WHas
  <2>3. PgSetActiveTraffic(D, app, prev).out = "ok"  BY <1>3, <1>4, <2>1, <2>2, WSetRows DEF WTrafficOK
  <2>4. WRestored(D, app, prev).deployments = {WMoved(x, app, prev) : x \in D.deployments}
        /\ WRestored(D, app, prev).workers = db.workers
    BY <1>4, <2>3, WSetRows DEF WRestored
  <2>5. {WMoved(x, app, prev) : x \in D.deployments} = db.deployments  BY <1>4
  <2> QED  BY <2>1, <2>2, <2>4, <2>5, WActiveOf
<1>5. \A r \in db.deployments : WMoved(r, app, prev) = r
    BY <1>3 DEF WRowsOK, WRow, WTrafficOK, WMoved
<1>6. CASE e = db BY <1>6, <1>1, <1>2, <1>4, <1>5
<1>7. CASE e # db
  <2>1. e.deployments = {WMoved(r, app, traffic) : r \in db.deployments} /\ e.workers = db.workers
    BY <1>1, <1>7, WSetRows
  <2>2. \A r \in db.deployments : LET x == WMoved(r, app, traffic)
                                  IN  WMoved(x, app, prev) = r /\ x.id = r.id /\ x.app = r.app
    <3>1. ASSUME NEW r \in db.deployments, NEW x, x = WMoved(r, app, traffic)
          PROVE  WMoved(x, app, prev) = r /\ x.id = r.id /\ x.app = r.app
      <4>1. r \in WRow  BY DEF WRowsOK
      <4>2. x \in WRow /\ x.id = r.id /\ x.app = r.app  BY <3>1, <4>1, WMovedRow
      <4>3. CASE r.app # app  BY <3>1, <4>2, <4>3 DEF WMoved
      <4>4. CASE r.app = app
        <5>1. PICK n \in Nat : x = [r EXCEPT !.traffic = n] BY <3>1, <4>4 DEF WMoved
        <5>2. (IF x.id \in DOMAIN prev THEN prev[x.id] ELSE 0) = r.traffic
          BY <1>3, <4>1, <4>2, <4>4 DEF WRow, WTrafficOK
        <5>3. [x EXCEPT !.traffic = r.traffic] = r  BY <4>1, <5>1 DEF WRow
        <5> QED  BY <4>2, <4>4, <5>2, <5>3 DEF WMoved
      <4> QED  BY <4>3, <4>4
    <3> QED  BY <3>1
  <2>3. WRowsOK(e) BY <2>1, <2>2, WMovedRow, <1>1, <1>7, WSetRows DEF WRowsOK, WHas
  <2> QED  BY <1>1, <1>2, <1>4, <2>1, <2>2, <2>3
<1> QED  BY <1>6, <1>7

\* Creating another worker does not change what is restored.
LEMMA WUndoneCreate ==
  ASSUME NEW db, WRowsOK(db), NEW a, "id" \in DOMAIN a, a.id \in AppIDs, NEW app, WHas(db, app), NEW previous,
         \A id \in DOMAIN previous : previous[id] \in Nat
  PROVE  LET e == PgCreateApp(db, a).db
         IN  /\ ActiveIn(WRestored(e, app, previous)) = ActiveIn(WRestored(db, app, previous))
             /\ WIdsOf(e, app) = WIdsOf(db, app) /\ TrafficIn(e, app) = TrafficIn(db, app)
<1>1. PICK e : e = PgCreateApp(db, a).db  OBVIOUS
<1>2. CASE e = db  BY <1>1, <1>2
<1>3. CASE e # db
  <2>1. ~WHas(db, a.id) /\ e.workers = db.workers \cup {a} /\ e.deployments = db.deployments /\ DOMAIN e = DOMAIN db
    BY <1>1, <1>3, WCreate DEF WRowsOK
  <2>2. \A x : WHas(db, x) => PgGetApp(e, x) = PgGetApp(db, x) /\ WHas(e, x)  BY <1>1, WActiveCreate
  <2>3. WRowsOK(e)  BY <2>1, <2>2 DEF WRowsOK
  <2>4. WIdsOf(e, app) = WIdsOf(db, app)  BY <2>1 DEF WIdsOf
  <2>5. TrafficIn(e, app) = TrafficIn(db, app)  BY <2>1 DEF TrafficIn
  <2>6. PICK p : p = PgSetActiveTraffic(db, app, previous)  OBVIOUS
  <2>7. PICK q : q = PgSetActiveTraffic(e, app, previous)  OBVIOUS
  <2>8. q.out = "ok" <=> p.out = "ok"  BY <2>2, <2>3, <2>4, <2>6, <2>7, WSetRows
  <2>9. q.db.deployments = p.db.deployments /\ p.db.workers = db.workers /\ q.db.workers = e.workers
    <3>1. CASE p.out # "ok" BY <2>6, <3>1, WSetRows, <2>3, <2>7, <2>8, <2>1
    <3>2. CASE p.out = "ok"
      <4>1. p.db.deployments = {WMoved(r, app, previous) : r \in db.deployments} /\ p.db.workers = db.workers
        BY <2>6, <3>2, WSetRows
      <4>2. q.db.deployments = {WMoved(r, app, previous) : r \in e.deployments} /\ q.db.workers = e.workers
        BY <2>3, <2>7, <2>8, <3>2, WSetRows
      <4> QED  BY <2>1, <4>1, <4>2
    <3> QED  BY <3>1, <3>2
  <2>10. \A r \in p.db.deployments : WHas(db, r.app) BY <2>6, WSetRows, WMovedRow DEF WRowsOK
  <2>11. \A r \in p.db.deployments : PgGetApp(q.db, r.app) = PgGetApp(p.db, r.app)
    BY <2>2, <2>9, <2>10 DEF PgGetApp
  <2>12. ActiveIn(q.db) = ActiveIn(p.db)  BY <2>9, <2>11, WActiveKept DEF ActiveIn
  <2> QED  BY <1>1, <2>4, <2>5, <2>6, <2>7, <2>12 DEF WRestored
<1> QED  BY <1>2, <1>3
-----------------------------------------------------------------------------
\* Steps of requests: those that hold configMu; with a worker that exists; with something the
\* runtime has not been told yet; with a cache entry not yet dropped.
WLockOps == {"patched", "deleted", "cleaned", "write", "moved", "settle", "commit", "restore",
             "restored", "unmoved", "build", "rollout", "clone", "publish", "activated"}
WOwning == {"moved", "settle", "commit", "restore", "build", "rollout", "clone", "publish", "activated"}
WUndoing == {"moved", "settle", "commit", "activated"}
WUnsettled == {"patched", "deleted", "cleaned", "write", "moved", "settle", "commit", "restore",
               "restored", "activated"}
WDirty == {"patched", "deleted", "cleaned", "moved", "activated", "restored", "unmoved"}
WNatural(f) == \A id \in DOMAIN f : f[id] \in Nat

\* The traffic a change may put back: with it the repository says what the runtime was last told.
WUndoOK(db, app, previous, rts, stale) ==
    WNatural(previous) /\ (~stale => rts = ActiveIn(WRestored(db, app, previous)))

\* A deployment about to be built has the next id, and its bundle.
WBuildOK(r, art, bun) ==
    /\ r.d \in WDeployment /\ r.d.id = r.d.object /\ r.d.app = r.app /\ r.d.object \in bun
    /\ \E n \in Nat : n >= 1 /\ DOMAIN art \cup {1} = 1..n /\ r.d.id = n + 1

\* What a request knows that does not hold configMu,
WFreeOK(r) ==
    /\ r.op = "create" => {"op", "id", "attempt"} \subseteq DOMAIN r /\ r.id \in AppIDs
    /\ r.op \in {"read", "keep"} => r.app \in AppIDs /\ r.version \in Nat

\* and what one knows that does.
WHeldOK(r, db, art, bun, rts, stale) ==
    /\ r.op \in WLockOps => {"op", "app"} \subseteq DOMAIN r /\ r.app \in AppIDs
    /\ r.op \in WOwning => WHas(db, r.app)
    /\ r.op = "deleted" => \A d \in db.deployments : d.object \notin r.objects
    /\ r.op = "build" => WBuildOK(r, art, bun)
    /\ r.op = "clone" => /\ {"left", "target", "previous"} \subseteq DOMAIN r /\ r.previous = TrafficIn(db, r.app)
                         /\ r.left \subseteq DOMAIN r.previous /\ WNatural(r.target)
    /\ r.op = "publish" => r.previous = TrafficIn(db, r.app) /\ WNatural(r.target)
    /\ r.op \in WUndoing => "previous" \in DOMAIN r /\ WUndoOK(db, r.app, r.previous, rts, stale)
    /\ r.op = "restore" => WUndoOK(db, r.app, r.previous[1], rts, stale)

\* The shape of the state; the data; who is in the critical section; what the requests know; the
\* routes, when the runtime has been told all there is.
WorkersTyped ==
    /\ job = [t \in WorkerThreads |-> job[t]]
    /\ jobsLeft \in 0..MaxJobs
    /\ runtimeVersions \in [AppIDs -> Nat]
    /\ DOMAIN runtimeDeployments \subseteq AppIDs
    /\ routesStale \in BOOLEAN
WorkersData == WDataOK(wkPg, artifacts, bundles, serving)
JobsHoldConfigMu == \A t \in WorkerThreads : job[t].op \in WLockOps => configMu = {t}
JobsInv == \A t \in WorkerThreads :
            WFreeOK(job[t]) /\ WHeldOK(job[t], wkPg, artifacts, bundles, routes, routesStale)
RoutesInv ==
    (\A t \in WorkerThreads : job[t].op \notin WUnsettled) /\ ~routesStale => routes = ActiveIn(wkPg)

\* What a lookup read, or is kept of one, is current or about to be dropped.
WCurrent(app, active) == app \in BeingChanged \/ active = PgActiveDeployments(wkPg, app)

\* The cache: no entry, and no fill that can still be kept, is stale unless its entry is about to be dropped.
CacheInv ==
    /\ \A app \in DOMAIN runtimeDeployments : WCurrent(app, runtimeDeployments[app])
    /\ \A t \in WorkerThreads : job[t].op \in {"read", "keep"} =>
          job[t].version <= runtimeVersions[job[t].app]
    /\ \A t \in WorkerThreads : job[t].op = "keep" /\ job[t].version = runtimeVersions[job[t].app] =>
          WCurrent(job[t].app, job[t].active)

WorkersInv == WorkersTyped /\ WorkersData /\ JobsHoldConfigMu /\ JobsInv /\ RoutesInv /\ CacheInv

\* How the steps are classified.
LEMMA WOps == /\ WUnsettled \subseteq WLockOps /\ WDirty \subseteq WLockOps /\ WOwning \subseteq WLockOps
              /\ WUndoing \subseteq WLockOps
              /\ {"read", "keep", "create", "idle"} \cap WLockOps = {}
  BY DEF WUnsettled, WDirty, WLockOps, WOwning, WUndoing

\* A thread without a job has nothing to show.
LEMMA WNoJob == NoJob.op = "idle" /\ NoJob.op \notin WLockOps /\ WFreeOK(NoJob)
  BY DEF NoJob, WLockOps, WFreeOK

\* BeingChanged, by the steps classified so.
LEMMA WBeing == BeingChanged = {job[t].app : t \in {u \in WorkerThreads : job[u].op \in WDirty}}
  BY Zenon DEF BeingChanged, WDirty

\* A step of the thread that holds, or takes, configMu.
WHolds(t) == \A u \in WorkerThreads : u # t => job[u].op \notin WLockOps

\* Nobody else is at a step that holds configMu then,
LEMMA WHolder ==
  ASSUME JobsHoldConfigMu, NEW t \in WorkerThreads, configMu = {} \/ job[t].op \in WLockOps
  PROVE  WHolds(t)
  BY DEF JobsHoldConfigMu, WHolds

\* so what it knows of the data cannot be disturbed by others: its own next step has to be shown.
LEMMA WHeldStep ==
  ASSUME WorkersTyped, JobsInv, NEW t \in WorkerThreads, WHolds(t), NEW r, Proceed(t, r),
         r.op \in WLockOps => configMu' = {t},
         WFreeOK(r), WHeldOK(r, wkPg', artifacts', bundles', routes', routesStale'),
         r.op \notin WUnsettled /\ ~routesStale' => routes' = ActiveIn(wkPg')
  PROVE  JobsHoldConfigMu' /\ JobsInv' /\ RoutesInv'
<1>1. \A u \in WorkerThreads : job'[u] = IF u = t THEN r ELSE job[u]  BY DEF Proceed, WorkersTyped
<1>2. \A u \in WorkerThreads : u # t => job'[u].op \notin WLockOps  BY <1>1 DEF WHolds
<1>3. JobsHoldConfigMu'  BY <1>1, <1>2 DEF JobsHoldConfigMu
<1>4. JobsInv'
  <2>1. ASSUME NEW u \in WorkerThreads
        PROVE  WFreeOK(job'[u]) /\ WHeldOK(job'[u], wkPg', artifacts', bundles', routes', routesStale')
      BY <1>1, <1>2 DEF JobsInv, WHeldOK, WLockOps, WOwning, WUndoing
  <2> QED  BY <2>1 DEF JobsInv
<1>5. RoutesInv' BY <1>1 DEF RoutesInv
<1> QED  BY <1>3, <1>4, <1>5

\* Under it the cache stays, while what it must not keep is marked as changing,
LEMMA WCacheStays ==
  ASSUME WorkersTyped, JobsInv, CacheInv, NEW t \in WorkerThreads, WHolds(t), NEW r, Proceed(t, r),
         r.op \notin {"read", "keep"}, UNCHANGED cacheVars,
         \A app \in AppIDs : (r.op \in WDirty => r.app # app) =>
            /\ job[t].op \in WDirty => job[t].app # app
            /\ PgActiveDeployments(wkPg', app) = PgActiveDeployments(wkPg, app)
  PROVE  CacheInv'
<1>1. \A u \in WorkerThreads : job'[u] = IF u = t THEN r ELSE job[u]  BY DEF Proceed, WorkersTyped
<1>2. runtimeDeployments' = runtimeDeployments /\ runtimeVersions' = runtimeVersions  BY DEF cacheVars
<1>3. ASSUME NEW app \in AppIDs, app \notin BeingChanged'
      PROVE  app \notin BeingChanged /\ PgActiveDeployments(wkPg', app) = PgActiveDeployments(wkPg, app)
    BY <1>1, <1>3, WOps, WBeing DEF BeingChanged, WDirty, WHolds
<1>4. ASSUME NEW app \in AppIDs, NEW active, WCurrent(app, active)
      PROVE  app \in BeingChanged' \/ active = PgActiveDeployments(wkPg', app)
  BY <1>3, <1>4 DEF WCurrent
<1>5. \A app \in DOMAIN runtimeDeployments' :
         app \in BeingChanged' \/ runtimeDeployments'[app] = PgActiveDeployments(wkPg', app)
  BY <1>2, <1>4 DEF CacheInv, WorkersTyped
<1>6. \A u \in WorkerThreads : job'[u].op \in {"read", "keep"} =>
         job'[u] = job[u] /\ job[u].app \in AppIDs
  BY <1>1 DEF JobsInv, WFreeOK
<1>7. \A u \in WorkerThreads : job'[u].op = "keep" /\ job'[u].version = runtimeVersions'[job'[u].app] =>
         job'[u].app \in BeingChanged' \/ job'[u].active = PgActiveDeployments(wkPg', job'[u].app)
  BY <1>2, <1>4, <1>6 DEF CacheInv
<1>8. \A u \in WorkerThreads : job'[u].op \in {"read", "keep"} =>
         job'[u].version <= runtimeVersions'[job'[u].app]
  BY <1>2, <1>6 DEF CacheInv
<1> QED  BY <1>5, <1>7, <1>8 DEF CacheInv, WCurrent

\* or the entry of the worker is dropped.
LEMMA WCacheDrops ==
  ASSUME WorkersTyped, JobsInv, CacheInv, NEW t \in WorkerThreads, WHolds(t), NEW r, Proceed(t, r),
         r.op \notin {"read", "keep"}, r.op \notin WDirty, job[t].app \in AppIDs,
         InvalidateRuntimeDeployments(job[t].app), wkPg' = wkPg
  PROVE  CacheInv' /\ DOMAIN runtimeDeployments' \subseteq AppIDs /\ runtimeVersions' \in [AppIDs -> Nat]
<1>1. \A u \in WorkerThreads : job'[u] = IF u = t THEN r ELSE job[u]  BY DEF Proceed, WorkersTyped
<1>2. PICK a \in AppIDs : a = job[t].app  OBVIOUS
<1>3. /\ DOMAIN runtimeDeployments' = DOMAIN runtimeDeployments \ {a}
      /\ \A app \in DOMAIN runtimeDeployments' : runtimeDeployments'[app] = runtimeDeployments[app]
      /\ runtimeVersions' = [runtimeVersions EXCEPT ![a] = @ + 1]
  BY <1>2 DEF InvalidateRuntimeDeployments, Drop
<1>4. /\ runtimeVersions' \in [AppIDs -> Nat] /\ runtimeVersions'[a] = runtimeVersions[a] + 1
      /\ \A app \in AppIDs : app # a => runtimeVersions'[app] = runtimeVersions[app]
      /\ \A app \in AppIDs : runtimeVersions[app] \in Nat
  BY <1>3 DEF WorkersTyped
<1>5. BeingChanged \subseteq {a}
  BY <1>2, WBeing, WOps DEF WHolds
<1>6. ASSUME NEW app \in AppIDs, app # a, NEW active, WCurrent(app, active)
      PROVE  active = PgActiveDeployments(wkPg', app)
  BY <1>5, <1>6 DEF WCurrent
<1>7. \A app \in DOMAIN runtimeDeployments' :
         app \in BeingChanged' \/ runtimeDeployments'[app] = PgActiveDeployments(wkPg', app)
  BY <1>3, <1>6 DEF CacheInv, WorkersTyped
<1>8. \A u \in WorkerThreads : job'[u].op \in {"read", "keep"} =>
         job'[u] = job[u] /\ job[u].app \in AppIDs /\ job[u].version \in Nat
  BY <1>1 DEF JobsInv, WFreeOK
<1>9. \A u \in WorkerThreads : job'[u].op \in {"read", "keep"} =>
         job'[u].version <= runtimeVersions'[job'[u].app]
         /\ (job'[u].version = runtimeVersions'[job'[u].app] =>
                job[u].app # a /\ job[u].version = runtimeVersions[job[u].app])
  BY <1>4, <1>8 DEF CacheInv
<1>10. \A u \in WorkerThreads : job'[u].op = "keep" /\ job'[u].version = runtimeVersions'[job'[u].app] =>
         job'[u].app \in BeingChanged' \/ job'[u].active = PgActiveDeployments(wkPg', job'[u].app)
  BY <1>6, <1>8, <1>9 DEF CacheInv
<1> QED  BY <1>3, <1>4, <1>7, <1>9, <1>10 DEF CacheInv, WCurrent, WorkersTyped

\* A step that needs no configMu: nothing changes but that a worker may be created.
LEMMA WHeldCreate ==
  ASSUME NEW db, WRowsOK(db), NEW a, "id" \in DOMAIN a, a.id \in AppIDs, NEW r, NEW art, NEW bun, NEW rts,
         NEW stale \in BOOLEAN, WHeldOK(r, db, art, bun, rts, stale)
  PROVE  WHeldOK(r, PgCreateApp(db, a).db, art, bun, rts, stale)
BY WActiveCreate, WUndoneCreate, WCreate DEF WUndoOK, WNatural, WRowsOK, TrafficIn, WUndoing,
   WOwning, WHeldOK

\* The rows are as they were, or with one more worker.
WOrCreated(db, e) == e = db \/ \E a : "id" \in DOMAIN a /\ a.id \in AppIDs /\ e = PgCreateApp(db, a).db

\* All that was known stays known, except perhaps of the cache,
LEMMA WFreeStep ==
  ASSUME WorkersInv, NEW t \in WorkerThreads, job[t].op \notin WLockOps,
         NEW r, r.op \notin WLockOps, Proceed(t, r), WFreeOK(r),
         WOrCreated(wkPg, wkPg'), UNCHANGED <<configMu, artifacts, bundles, routes, routesStale, serving>>
  PROVE  WorkersData' /\ JobsHoldConfigMu' /\ JobsInv' /\ RoutesInv' /\ BeingChanged' = BeingChanged
         /\ \A app : PgActiveDeployments(wkPg', app) = PgActiveDeployments(wkPg, app)
<1>1. \A u \in WorkerThreads : job'[u] = IF u = t THEN r ELSE job[u]  BY DEF Proceed, WorkersTyped, WorkersInv
<1>2. WRowsOK(wkPg)  BY DEF WorkersInv, WorkersData, WDataOK
<1>3. WDataOK(wkPg', artifacts, bundles, serving)
  BY WCreateData DEF WOrCreated, WorkersInv, WorkersData
<1>4. WorkersData'  BY <1>3 DEF WorkersData
<1>5. JobsHoldConfigMu'  BY <1>1 DEF WorkersInv, JobsHoldConfigMu
<1>6. \A q : WHeldOK(q, wkPg, artifacts, bundles, routes, routesStale)
               => WHeldOK(q, wkPg', artifacts, bundles, routes, routesStale)
  BY <1>2, WHeldCreate DEF WOrCreated, WorkersInv, WorkersTyped
<1>7. WHeldOK(r, wkPg', artifacts, bundles, routes, routesStale)
  BY DEF WHeldOK, WLockOps, WOwning, WUndoing
<1>8. JobsInv'  BY <1>1, <1>6, <1>7 DEF WorkersInv, JobsInv
<1>9. \A app : PgActiveDeployments(wkPg', app) = PgActiveDeployments(wkPg, app)
  BY <1>2, WActiveCreate DEF WOrCreated
<1>10. RoutesInv' BY <1>1, WOps, <1>9 DEF WorkersInv, RoutesInv, ActiveIn
<1>11. BeingChanged' = BeingChanged BY <1>1, WOps, WBeing DEF BeingChanged, WDirty
<1> QED  BY <1>4, <1>5, <1>8, <1>9, <1>10, <1>11

\* which is current when what the step puts there, or goes on with, is.
LEMMA WCacheFree ==
  ASSUME WorkersInv, NEW t \in WorkerThreads, NEW r, Proceed(t, r),
         BeingChanged' = BeingChanged, runtimeVersions' = runtimeVersions,
         \A app : PgActiveDeployments(wkPg', app) = PgActiveDeployments(wkPg, app),
         \A app \in DOMAIN runtimeDeployments' : WCurrent(app, runtimeDeployments'[app]),
         r.op \in {"read", "keep"} => r.version <= runtimeVersions[r.app],
         r.op = "keep" /\ r.version = runtimeVersions[r.app] => WCurrent(r.app, r.active)
  PROVE  CacheInv'
BY DEF Proceed, WorkersTyped, WorkersInv, WCurrent, CacheInv

\* A request that is refused at once, or has nothing left to do.
LEMMA WEnds ==
  ASSUME WorkersInv, NEW t \in WorkerThreads, job[t].op \notin WLockOps,
         NEW r, r.op \notin WLockOps, r.op \notin {"read", "keep"}, WFreeOK(r), Proceed(t, r), jobsLeft' \in 0..MaxJobs,
         WOrCreated(wkPg, wkPg'), UNCHANGED <<configMu, artifacts, bundles, routes, routesStale, serving, cacheVars>>
  PROVE  WorkersInv'
BY WFreeStep, WCacheFree DEF WorkersInv, WorkersTyped, Proceed, cacheVars, CacheInv

\* Creating a worker: the request, and each of its attempts.
LEMMA WCreateStep ==
  ASSUME WorkersInv, NEW t \in WorkerThreads, NEW h, CreateWorker(t, h) \/ CreateApp(t) PROVE WorkersInv'
<1>1. CASE CreateWorker(t, h)
  <2>1. PICK n : n = MaxJobs - jobsLeft + 2  OBVIOUS
  <2>2. PICK new : new = [op |-> "create", hostname |-> h, attempt |-> 1, id |-> n]  OBVIOUS
  <2>3. \E r \in {new, NoJob} : StartJob(t, r)
    BY <1>1, <2>1, <2>2, Zenon DEF CreateWorker
  <2>4. PICK r \in {new, NoJob} : StartJob(t, r)  BY <2>3
  <2>5. job[t].op \notin WLockOps /\ Proceed(t, r) /\ jobsLeft > 0 /\ jobsLeft' = jobsLeft - 1
    BY <2>4, WOps DEF StartJob, Doing
  <2>6. jobsLeft \in 0..MaxJobs  BY DEF WorkersInv, WorkersTyped
  <2>7. n \in AppIDs  BY <2>1, <2>5, <2>6, WAppIDs DEF AppIDs
  <2>8. r.op \in {"create", "idle"} /\ WFreeOK(r)
    BY <2>2, <2>4, <2>7, WNoJob DEF WFreeOK
  <2>9. jobsLeft' \in 0..MaxJobs  BY <2>5, <2>6, WAppIDs
  <2>10. wkPg' = wkPg /\ UNCHANGED <<configMu, artifacts, bundles, routes, routesStale, serving, cacheVars>>
    BY <1>1 DEF CreateWorker, wkRepositories
  <2> QED  BY <2>5, <2>8, <2>9, <2>10, WEnds, WOps DEF WOrCreated
<1>2. CASE CreateApp(t)
  <2>1. job[t].op = "create" /\ job[t].op \notin WLockOps  BY <1>2, WOps DEF CreateApp, Doing
  <2>2. {"op", "id", "attempt"} \subseteq DOMAIN job[t] /\ job[t].id \in AppIDs
    BY <2>1 DEF WorkersInv, JobsInv, WFreeOK
  <2>3. PICK again : again = [job[t] EXCEPT !.attempt = @ + 1]  OBVIOUS
  <2>4. \E a : (\E x \in GeneratedHostname(t) :
                  a = [id |-> job[t].id, org |-> "o", hostname |-> x, auth |-> "off", token |-> <<"t", job[t].id>>])
               /\ WorkerRepositories(StoreCreateApp(wkStore, a), PgCreateApp(wkPg, a))
               /\ (Proceed(t, again) \/ Proceed(t, NoJob))
               /\ UNCHANGED <<jobsLeft, wkFaults, configMu, cacheVars, routes, routesStale, artifacts, bundles, serving>>
      BY <1>2, <2>3 DEF CreateApp
  <2>5. PICK a : /\ "id" \in DOMAIN a /\ a.id \in AppIDs /\ wkPg' = PgCreateApp(wkPg, a).db
                 /\ (Proceed(t, again) \/ Proceed(t, NoJob))
                 /\ UNCHANGED <<jobsLeft, configMu, cacheVars, routes, routesStale, artifacts, bundles, serving>>
    BY <2>2, <2>4 DEF WorkerRepositories
  <2>6. again.op = "create" /\ WFreeOK(again)  BY <2>1, <2>2, <2>3 DEF WFreeOK
  <2>7. jobsLeft' \in 0..MaxJobs  BY <2>5 DEF WorkersInv, WorkersTyped
  <2>8. CASE Proceed(t, again)  BY <2>1, <2>5, <2>6, <2>7, <2>8, WEnds, WOps DEF WOrCreated
  <2>9. CASE Proceed(t, NoJob)  BY <2>1, <2>5, <2>7, <2>9, WEnds, WOps, WNoJob DEF WOrCreated
  <2> QED  BY <2>5, <2>8, <2>9
<1> QED  BY <1>1, <1>2

\* A lookup: the cache, the repository, and the entry, unless an invalidation came between.
LEMMA WLookupStep ==
  ASSUME WorkersInv, NEW t \in WorkerThreads, NEW app \in AppIDs,
         LookupRoute(t, app) \/ ReadRoute(t) \/ RuntimeDeploymentsForApp(t)
  PROVE  WorkersInv'
<1>1. CASE LookupRoute(t, app)
  <2>1. PICK read : read = [op |-> "read", app |-> app, version |-> runtimeVersions[app]]  OBVIOUS
  <2>2. PICK r \in {read, NoJob} : StartJob(t, r)  BY <1>1, <2>1, Zenon DEF LookupRoute
  <2>3. job[t].op \notin WLockOps /\ Proceed(t, r) /\ jobsLeft > 0 /\ jobsLeft' = jobsLeft - 1
    BY <2>2, WOps DEF StartJob, Doing
  <2>4. runtimeVersions[app] \in Nat  BY DEF WorkersInv, WorkersTyped
  <2>5. r.op \in {"read", "idle"} /\ WFreeOK(r) /\ (r.op = "read" => r = read)
    BY <2>1, <2>2, <2>4, WNoJob DEF WFreeOK
  <2>6. wkPg' = wkPg /\ UNCHANGED <<configMu, artifacts, bundles, routes, routesStale, serving, cacheVars>>
    BY <1>1 DEF LookupRoute, wkRepositories
  <2>7. WorkersData' /\ JobsHoldConfigMu' /\ JobsInv' /\ RoutesInv' /\ BeingChanged' = BeingChanged
        /\ \A x : PgActiveDeployments(wkPg', x) = PgActiveDeployments(wkPg, x)
    BY <2>3, <2>5, <2>6, WFreeStep, WOps DEF WOrCreated
  <2>8. jobsLeft' \in 0..MaxJobs  BY <2>3, WAppIDs DEF WorkersInv, WorkersTyped
  <2>9. WorkersTyped'  BY <2>3, <2>6, <2>8 DEF WorkersInv, WorkersTyped, Proceed, cacheVars
  <2>10. runtimeVersions' = runtimeVersions /\ runtimeDeployments' = runtimeDeployments  BY <2>6 DEF cacheVars
  <2>11. \A x \in DOMAIN runtimeDeployments' : WCurrent(x, runtimeDeployments'[x])
    BY <2>10 DEF WorkersInv, CacheInv
  <2>12. r.op \in {"read", "keep"} => r.version <= runtimeVersions[r.app]  BY <2>1, <2>4, <2>5
  <2>13. CacheInv'  BY <2>3, <2>5, <2>7, <2>10, <2>11, <2>12, WCacheFree
  <2> QED  BY <2>7, <2>9, <2>13 DEF WorkersInv
<1>2. CASE ReadRoute(t)
  <2>1. PICK j : j = job[t]  OBVIOUS
  <2>2. PICK r : r = [op |-> "keep", app |-> j.app, version |-> j.version, active |-> PgActiveDeployments(wkPg, j.app)]
    OBVIOUS
  <2>3. j.op = "read" /\ Proceed(t, r)
    BY <1>2, <2>1, <2>2, Zenon DEF ReadRoute, Doing, PgActiveDeploymentsForApp
  <2>4. j.app \in AppIDs /\ j.version \in Nat /\ j.version <= runtimeVersions[j.app]
    BY <2>1, <2>3 DEF WorkersInv, JobsInv, WFreeOK, CacheInv
  <2>5. r.op = "keep" /\ r.app = j.app /\ r.version = j.version /\ r.active = PgActiveDeployments(wkPg, j.app)
        /\ WFreeOK(r)
    BY <2>2, <2>4 DEF WFreeOK
  <2>6. wkPg' = wkPg /\ UNCHANGED <<jobsLeft, configMu, artifacts, bundles, routes, routesStale, serving, cacheVars>>
    BY <1>2 DEF ReadRoute, wkRepositories
  <2>7. WorkersData' /\ JobsHoldConfigMu' /\ JobsInv' /\ RoutesInv' /\ BeingChanged' = BeingChanged
        /\ \A x : PgActiveDeployments(wkPg', x) = PgActiveDeployments(wkPg, x)
    BY <2>1, <2>3, <2>5, <2>6, WFreeStep, WOps DEF WOrCreated
  <2>8. WorkersTyped'  BY <2>3, <2>6 DEF WorkersInv, WorkersTyped, Proceed, cacheVars
  <2>9. runtimeVersions' = runtimeVersions /\ runtimeDeployments' = runtimeDeployments  BY <2>6 DEF cacheVars
  <2>10. \A x \in DOMAIN runtimeDeployments' : WCurrent(x, runtimeDeployments'[x])
    BY <2>9 DEF WorkersInv, CacheInv
  <2>11. WCurrent(r.app, r.active)  BY <2>5 DEF WCurrent
  <2>12. r.version <= runtimeVersions[r.app]  BY <2>4, <2>5
  <2>13. CacheInv'  BY <2>3, <2>7, <2>9, <2>10, <2>11, <2>12, WCacheFree
  <2> QED  BY <2>7, <2>8, <2>13 DEF WorkersInv
<1>3. CASE RuntimeDeploymentsForApp(t)
  <2>1. PICK j : j = job[t]  OBVIOUS
  <2>2. j.op = "keep" /\ Proceed(t, NoJob)  BY <1>3, <2>1 DEF RuntimeDeploymentsForApp, Doing
  <2>3. j.app \in AppIDs /\ (j.version = runtimeVersions[j.app] => WCurrent(j.app, j.active))
    BY <2>1, <2>2 DEF WorkersInv, JobsInv, WFreeOK, CacheInv
  <2>4. /\ wkPg' = wkPg /\ UNCHANGED <<jobsLeft, configMu, artifacts, bundles, routes, routesStale, serving>>
        /\ runtimeVersions' = runtimeVersions
        /\ runtimeDeployments' = IF runtimeVersions[j.app] = j.version /\ j.app \notin DOMAIN runtimeDeployments
                                 THEN Put(runtimeDeployments, j.app, j.active) ELSE runtimeDeployments
    BY <1>3, <2>1 DEF RuntimeDeploymentsForApp, wkRepositories
  <2>5. WorkersData' /\ JobsHoldConfigMu' /\ JobsInv' /\ RoutesInv' /\ BeingChanged' = BeingChanged
        /\ \A x : PgActiveDeployments(wkPg', x) = PgActiveDeployments(wkPg, x)
    BY <2>1, <2>2, <2>4, WFreeStep, WOps, WNoJob DEF WOrCreated
  <2>6. DOMAIN runtimeDeployments' \subseteq AppIDs
        /\ \A x \in DOMAIN runtimeDeployments' : WCurrent(x, runtimeDeployments'[x])
      BY <2>4, <2>3 DEF Put, WorkersInv, CacheInv, WorkersTyped
  <2>7. WorkersTyped'  BY <2>2, <2>4, <2>6 DEF WorkersInv, WorkersTyped, Proceed
  <2>8. NoJob.op \notin {"read", "keep"}  BY WNoJob
  <2>9. CacheInv'  BY <2>2, <2>4, <2>5, <2>6, <2>8, WCacheFree
  <2> QED  BY <2>5, <2>7, <2>9 DEF WorkersInv
<1> QED  BY <1>1, <1>2, <1>3
-----------------------------------------------------------------------------
\* Steps of the thread that holds configMu.

\* A step that leaves the cache alone,
LEMMA WKeepsCache ==
  ASSUME WorkersInv, NEW t \in WorkerThreads, WHolds(t), NEW r, Proceed(t, r),
         r.op \in WLockOps \cup {"idle"}, r.op \in WLockOps => configMu' = {t},
         UNCHANGED cacheVars, jobsLeft' \in 0..MaxJobs, routesStale' \in BOOLEAN,
         WHeldOK(r, wkPg', artifacts', bundles', routes', routesStale'),
         r.op \notin WUnsettled /\ ~routesStale' => routes' = ActiveIn(wkPg'),
         WDataOK(wkPg', artifacts', bundles', serving'),
         \A app \in AppIDs : (r.op \in WDirty => r.app # app) =>
            /\ job[t].op \in WDirty => job[t].app # app
            /\ PgActiveDeployments(wkPg', app) = PgActiveDeployments(wkPg, app)
  PROVE  WorkersInv'
<1>1. r.op \notin {"read", "keep", "create"}  BY WOps, "idle" \notin {"read", "keep", "create"}
<1>2. WFreeOK(r)  BY <1>1 DEF WFreeOK
<1>3. JobsHoldConfigMu' /\ JobsInv' /\ RoutesInv'  BY <1>2, WHeldStep DEF WorkersInv
<1>4. CacheInv'  BY <1>1, WCacheStays DEF WorkersInv
<1>5. WorkersTyped'  BY DEF WorkersInv, WorkersTyped, Proceed, cacheVars
<1>6. WorkersData'  BY DEF WorkersData
<1> QED  BY <1>3, <1>4, <1>5, <1>6 DEF WorkersInv

\* and one that drops the entry of its worker.
LEMMA WDropsCache ==
  ASSUME WorkersInv, NEW t \in WorkerThreads, job[t].op \in WLockOps, NEW r, Proceed(t, r),
         r.op \in WLockOps \cup {"idle"}, r.op \notin WDirty, r.op \in WLockOps => configMu' = {t},
         InvalidateRuntimeDeployments(job[t].app), jobsLeft' = jobsLeft, routesStale' = routesStale,
         routes' = routes, UNCHANGED <<artifacts, bundles, serving>>, wkPg' = wkPg,
         WHeldOK(r, wkPg, artifacts, bundles, routes, routesStale),
         r.op \notin WUnsettled /\ ~routesStale => routes = ActiveIn(wkPg)
  PROVE  WorkersInv'
<1>1. r.op \notin {"read", "keep", "create"}  BY WOps, "idle" \notin {"read", "keep", "create"}
<1>2. WFreeOK(r)  BY <1>1 DEF WFreeOK
<1>3. WHolds(t)  BY WHolder DEF WorkersInv
<1>4. JobsHoldConfigMu' /\ JobsInv' /\ RoutesInv'  BY <1>2, <1>3, WHeldStep DEF WorkersInv
<1>5. job[t].app \in AppIDs  BY DEF WorkersInv, JobsInv, WHeldOK
<1>6. CacheInv' /\ DOMAIN runtimeDeployments' \subseteq AppIDs /\ runtimeVersions' \in [AppIDs -> Nat]
  BY <1>1, <1>3, <1>5, WCacheDrops DEF WorkersInv
<1>7. WorkersTyped'  BY <1>6 DEF WorkersInv, WorkersTyped, Proceed
<1>8. WorkersData'  BY DEF WorkersInv, WorkersData
<1> QED  BY <1>4, <1>6, <1>7, <1>8 DEF WorkersInv

\* What is known of the job of the thread that holds configMu.
LEMMA WHeldJob ==
  ASSUME WorkersInv, NEW t \in WorkerThreads, job[t].op \in WLockOps
  PROVE  /\ WHolds(t) /\ {"op", "app"} \subseteq DOMAIN job[t] /\ job[t].app \in AppIDs
         /\ WHeldOK(job[t], wkPg, artifacts, bundles, routes, routesStale)
         /\ (job[t].op \notin WUnsettled /\ ~routesStale => routes = ActiveIn(wkPg))
         /\ jobsLeft \in 0..MaxJobs /\ routesStale \in BOOLEAN
         /\ WDataOK(wkPg, artifacts, bundles, serving) /\ WRowsOK(wkPg) /\ configMu = {t}
<1>1. WHolds(t) /\ configMu = {t}  BY WHolder DEF WorkersInv, JobsHoldConfigMu
<1>2. WHeldOK(job[t], wkPg, artifacts, bundles, routes, routesStale)  BY DEF WorkersInv, JobsInv
<1>3. {"op", "app"} \subseteq DOMAIN job[t] /\ job[t].app \in AppIDs  BY <1>2 DEF WHeldOK
<1>4. job[t].op \notin WUnsettled => \A u \in WorkerThreads : job[u].op \notin WUnsettled
  BY <1>1, WOps DEF WHolds
<1> QED  BY <1>1, <1>2, <1>3, <1>4 DEF WorkersInv, RoutesInv, WorkersTyped, WorkersData, WDataOK

\* A job goes on with another step.
LEMMA WNextStep ==
  ASSUME NEW j, {"op", "app"} \subseteq DOMAIN j, NEW op
  PROVE  LET r == [j EXCEPT !.op = op]
         IN  r.op = op /\ r.app = j.app /\ DOMAIN r = DOMAIN j
             /\ ("previous" \in DOMAIN j => r.previous = j.previous)
  OBVIOUS

\* The steps that invalidate.
LEMMA WInvalidateStep ==
  ASSUME WorkersInv, NEW t \in WorkerThreads,
         \/ UpdateAppInvalidate(t) \/ DeleteAppInvalidate(t) \/ TrafficInvalidate(t)
         \/ RestoredInvalidate(t) \/ PublishInvalidate(t) \/ RestoredOnly(t)
  PROVE  WorkersInv'
<1>1. ASSUME NEW from \in WLockOps, NEW op \in {"write", "settle", "commit"}, NEW r,
             r = [job[t] EXCEPT !.op = op], Invalidate(t, from, r),
             op \in WUndoing => from \in WUndoing
      PROVE  WorkersInv'
  <2>1. PICK j : j = job[t]  OBVIOUS
  <2>2. j.op = from /\ Proceed(t, r) /\ configMu' = configMu /\ InvalidateRuntimeDeployments(j.app)
        /\ UNCHANGED <<jobsLeft, routes, routesStale, artifacts, bundles, serving>> /\ wkPg' = wkPg
    BY <1>1, <2>1 DEF Invalidate, Doing, KeepConfig, wkRepositories
  <2>3. /\ WHolds(t) /\ {"op", "app"} \subseteq DOMAIN j /\ j.app \in AppIDs /\ configMu = {t}
        /\ WHeldOK(j, wkPg, artifacts, bundles, routes, routesStale)
    BY <1>1, <2>1, <2>2, WHeldJob
  <2>4. r.op = op /\ r.app = j.app /\ DOMAIN r = DOMAIN j /\ ("previous" \in DOMAIN j => r.previous = j.previous)
    BY <1>1, <2>1, <2>3, WNextStep
  <2>5. r.op \in WLockOps /\ r.op \notin WDirty /\ r.op \in WUnsettled
    BY <2>4 DEF WLockOps, WDirty, WUnsettled
  <2>6. WHeldOK(r, wkPg, artifacts, bundles, routes, routesStale)
      BY <1>1, <2>4, <2>2, <2>3 DEF WUndoing, WOwning, WHeldOK
  <2> QED  BY <1>1, <2>1, <2>2, <2>3, <2>5, <2>6, WDropsCache
<1>2. CASE UpdateAppInvalidate(t)
  BY <1>1, <1>2 DEF UpdateAppInvalidate, WLockOps, WUndoing
<1>3. CASE DeleteAppInvalidate(t)
  BY <1>1, <1>3 DEF DeleteAppInvalidate, WLockOps, WUndoing
<1>4. CASE TrafficInvalidate(t)
  BY <1>1, <1>4 DEF TrafficInvalidate, WLockOps, WUndoing
<1>5. CASE RestoredInvalidate(t)
  BY <1>1, <1>5 DEF RestoredInvalidate, WLockOps, WUndoing
<1>6. CASE PublishInvalidate(t)
  BY <1>1, <1>6 DEF PublishInvalidate, WLockOps, WUndoing
<1>7. CASE RestoredOnly(t)
    BY <1>7, WHeldJob, WNoJob, WOps, WDropsCache DEF RestoredOnly, Doing, wkRepositories,
       WLockOps, WUnsettled, WHeldOK, WOwning, WUndoing
<1> QED  BY <1>2, <1>3, <1>4, <1>5, <1>6, <1>7
-----------------------------------------------------------------------------
\* A change that takes configMu.
LEMMA WStarts ==
  ASSUME WorkersInv, NEW t \in WorkerThreads, NEW r, StartJob(t, r), configMu = {}
  PROVE  /\ WHolds(t) /\ job[t].op \notin WLockOps /\ Proceed(t, r) /\ jobsLeft' \in 0..MaxJobs
         /\ (~routesStale => routes = ActiveIn(wkPg)) /\ routesStale \in BOOLEAN
         /\ WDataOK(wkPg, artifacts, bundles, serving) /\ WRowsOK(wkPg)
<1>1. job[t].op \notin WLockOps /\ Proceed(t, r) /\ jobsLeft > 0 /\ jobsLeft' = jobsLeft - 1
  BY WOps DEF StartJob, Doing
<1>2. \A u \in WorkerThreads : job[u].op \notin WLockOps  BY DEF WorkersInv, JobsHoldConfigMu
<1>3. \A u \in WorkerThreads : job[u].op \notin WUnsettled  BY <1>2, WOps
<1>4. jobsLeft' \in 0..MaxJobs  BY <1>1, WAppIDs DEF WorkersInv, WorkersTyped
<1> QED  BY <1>1, <1>2, <1>3, <1>4 DEF WHolds, WorkersInv, RoutesInv, WorkersTyped, WorkersData, WDataOK

\* Changing a worker.
LEMMA WUpdateStep ==
  ASSUME WorkersInv, NEW t \in WorkerThreads, NEW app \in AppIDs, NEW patch, UpdateApp(t, app, patch)
  PROVE  WorkersInv'
<1>1. PICK p : p = PgPatchApp(wkPg, app, patch)  OBVIOUS
<1>2. PICK r : r = IF p.out = "ok" THEN [op |-> "patched", app |-> app] ELSE NoJob  OBVIOUS
<1>3. /\ configMu = {} /\ wkPg' = p.db /\ StartJob(t, r)
      /\ configMu' = IF p.out = "ok" THEN {t} ELSE {}
      /\ UNCHANGED <<cacheVars, routes, routesStale, artifacts, bundles, serving>>
  BY <1>1, <1>2 DEF UpdateApp, WorkerRepositories
<1>4. /\ WHolds(t) /\ job[t].op \notin WLockOps /\ Proceed(t, r) /\ jobsLeft' \in 0..MaxJobs
      /\ (~routesStale => routes = ActiveIn(wkPg)) /\ routesStale \in BOOLEAN
      /\ WDataOK(wkPg, artifacts, bundles, serving) /\ WRowsOK(wkPg)
  BY <1>3, WStarts
<1>5. WDataOK(wkPg', artifacts', bundles', serving')
  BY <1>1, <1>3, <1>4, WPatchData
<1>6. job[t].op \notin WDirty  BY <1>4, WOps
<1>7. CASE p.out = "ok"
  <2>1. r = [op |-> "patched", app |-> app] /\ configMu' = {t}  BY <1>2, <1>3, <1>7
  <2>2. r.op \in WLockOps /\ r.op \in WDirty /\ r.op \in WUnsettled /\ r.app = app
    BY <2>1 DEF WLockOps, WDirty, WUnsettled
  <2>3. WHeldOK(r, wkPg', artifacts', bundles', routes', routesStale')
    BY <2>1 DEF WHeldOK, WOwning, WUndoing
  <2>4. \A x \in AppIDs : x # app => PgActiveDeployments(wkPg', x) = PgActiveDeployments(wkPg, x)
    BY <1>1, <1>3, <1>4, WActivePatch
  <2> QED  BY <1>3, <1>4, <1>5, <1>6, <2>1, <2>2, <2>3, <2>4, WKeepsCache
<1>8. CASE p.out # "ok"
  <2>1. r = NoJob /\ wkPg' = wkPg  BY <1>1, <1>2, <1>3, <1>4, <1>8, WPatch
  <2>2. r.op \notin WLockOps /\ r.op = "idle" /\ r.op \notin WDirty  BY <2>1, WNoJob, WOps
  <2>3. WHeldOK(r, wkPg', artifacts', bundles', routes', routesStale')
    BY <2>2 DEF WHeldOK, WLockOps, WOwning, WUndoing
  <2> QED  BY <1>3, <1>4, <1>5, <1>6, <2>1, <2>2, <2>3, WKeepsCache
<1> QED  BY <1>7, <1>8

\* Deleting a worker: none of its objects is one of a deployment that stays,
LEMMA WDeleteStep ==
  ASSUME WorkersInv, NEW t \in WorkerThreads, NEW app \in AppIDs, DeleteApp(t, app)
  PROVE  WorkersInv'
<1>1. PICK p : p = PgDeleteApp(wkPg, app)  OBVIOUS
<1>2. PICK objects : objects = {x.object : x \in {y \in wkPg.deployments : y.app = app}}  OBVIOUS
<1>3. PICK r : r = IF p.out = "ok" THEN [op |-> "deleted", app |-> app, objects |-> objects] ELSE NoJob
  OBVIOUS
<1>4. /\ configMu = {} /\ wkPg' = p.db /\ StartJob(t, r)
      /\ configMu' = IF p.out = "ok" THEN {t} ELSE {}
      /\ serving' = [id \in DOMAIN serving \cap {x.id : x \in p.db.deployments} |-> serving[id]]
      /\ UNCHANGED <<cacheVars, routes, routesStale, artifacts, bundles>>
  BY <1>1, <1>2, <1>3 DEF DeleteApp, WorkerRepositories
<1>5. /\ WHolds(t) /\ job[t].op \notin WLockOps /\ Proceed(t, r) /\ jobsLeft' \in 0..MaxJobs
      /\ (~routesStale => routes = ActiveIn(wkPg)) /\ routesStale \in BOOLEAN
      /\ WDataOK(wkPg, artifacts, bundles, serving) /\ WRowsOK(wkPg)
  BY <1>4, WStarts
<1>6. WDataOK(wkPg', artifacts', bundles', serving')
  BY <1>1, <1>4, <1>5, WDeleteData
<1>7. job[t].op \notin WDirty  BY <1>5, WOps
<1>8. CASE p.out = "ok"
  <2>1. r = [op |-> "deleted", app |-> app, objects |-> objects] /\ configMu' = {t}  BY <1>3, <1>4, <1>8
  <2>2. r.op \in WLockOps /\ r.op \in WDirty /\ r.op \in WUnsettled /\ r.app = app
    BY <2>1 DEF WLockOps, WDirty, WUnsettled
  <2>3. wkPg'.deployments = {x \in wkPg.deployments : x.app # app}
    BY <1>1, <1>4, <1>5, <1>8, WDelete
  <2>4. \A x \in wkPg'.deployments : x.object \notin r.objects
    BY <1>2, <1>5, <2>1, <2>3 DEF WDataOK, WBundlesOK
  <2>5. WHeldOK(r, wkPg', artifacts', bundles', routes', routesStale')
    BY <2>1, <2>4 DEF WHeldOK, WOwning, WUndoing
  <2>6. \A x \in AppIDs : x # app => PgActiveDeployments(wkPg', x) = PgActiveDeployments(wkPg, x)
    BY <1>1, <1>4, <1>5, WActiveDelete
  <2> QED  BY <1>4, <1>5, <1>6, <1>7, <2>1, <2>2, <2>5, <2>6, WKeepsCache
<1>9. CASE p.out # "ok"
  <2>1. r = NoJob /\ wkPg' = wkPg  BY <1>1, <1>3, <1>4, <1>5, <1>9, WDelete
  <2>2. r.op \notin WLockOps /\ r.op = "idle" /\ r.op \notin WDirty  BY <2>1, WNoJob, WOps
  <2>3. WHeldOK(r, wkPg', artifacts', bundles', routes', routesStale')
    BY <2>2 DEF WHeldOK, WLockOps, WOwning, WUndoing
  <2> QED  BY <1>4, <1>5, <1>6, <1>7, <2>1, <2>2, <2>3, WKeepsCache
<1> QED  BY <1>8, <1>9

\* so that cleaning them up takes nobody's bundle.
LEMMA WCleanupStep ==
  ASSUME WorkersInv, NEW t \in WorkerThreads, CleanupDeployments(t)
  PROVE  WorkersInv'
<1>1. PICK j : j = job[t]  OBVIOUS
<1>2. PICK r : r = [op |-> "cleaned", app |-> j.app]  OBVIOUS
<1>3. /\ j.op = "deleted" /\ Proceed(t, r) /\ configMu' = configMu /\ wkPg' = wkPg
      /\ bundles' = {o \in bundles : o \in j.objects => ObjectReferenced(wkPg, j.app, o)}
      /\ UNCHANGED <<jobsLeft, cacheVars, routes, routesStale, artifacts, serving>>
  BY <1>1, <1>2 DEF CleanupDeployments, Doing, KeepConfig, wkRepositories
<1>4. job[t].op \in WLockOps /\ job[t].op \in WDirty  BY <1>1, <1>3 DEF WLockOps, WDirty
<1>5. /\ WHolds(t) /\ j.app \in AppIDs /\ configMu = {t} /\ jobsLeft \in 0..MaxJobs /\ routesStale \in BOOLEAN
      /\ WHeldOK(j, wkPg, artifacts, bundles, routes, routesStale)
      /\ WDataOK(wkPg, artifacts, bundles, serving)
  BY <1>1, <1>4, WHeldJob
<1>6. \A x \in wkPg.deployments : x.object \notin j.objects  BY <1>3, <1>5 DEF WHeldOK
<1>7. WDataOK(wkPg', artifacts', bundles', serving')
  BY <1>3, <1>5, <1>6 DEF WDataOK, WBundlesOK
<1>8. r.op \in WLockOps /\ r.op \in WUnsettled /\ r.app = j.app  BY <1>2 DEF WLockOps, WUnsettled
<1>9. WHeldOK(r, wkPg', artifacts', bundles', routes', routesStale')
  BY <1>2, <1>5 DEF WHeldOK, WOwning, WUndoing
<1>10. \A x \in AppIDs : (r.op \in WDirty => r.app # x) => j.app # x
  BY <1>2 DEF WDirty
<1> QED  BY <1>1, <1>3, <1>5, <1>7, <1>8, <1>9, <1>10, WKeepsCache

\* Writing the routes.
LEMMA WWriteStep ==
  ASSUME WorkersInv, NEW t \in WorkerThreads, WriteRoutes(t)
  PROVE  WorkersInv'
<1>1. /\ job[t].op = "write" /\ Proceed(t, NoJob) /\ wkPg' = wkPg
      /\ UNCHANGED <<jobsLeft, cacheVars, artifacts, bundles, serving>>
      /\ routesStale' \in BOOLEAN /\ (~routesStale' => routes' = ActiveIn(wkPg))
  BY DEF WriteRoutes, WritePublication, Doing, wkRepositories
<1>2. job[t].op \in WLockOps /\ job[t].op \notin WDirty  BY <1>1 DEF WLockOps, WDirty
<1>3. /\ WHolds(t) /\ jobsLeft \in 0..MaxJobs /\ WDataOK(wkPg, artifacts, bundles, serving)
  BY <1>2, WHeldJob
<1>4. WHeldOK(NoJob, wkPg', artifacts', bundles', routes', routesStale')
  BY WNoJob DEF WHeldOK, WLockOps, WOwning, WUndoing
<1>5. NoJob.op \notin WLockOps /\ NoJob.op = "idle" /\ NoJob.op \notin WDirty  BY WNoJob, WOps
<1> QED  BY <1>1, <1>2, <1>3, <1>4, <1>5, WKeepsCache
-----------------------------------------------------------------------------
\* Moving traffic, and back.
LEMMA WSetTraffic ==
  ASSUME NEW t, NEW app, NEW traffic, SetTraffic(t, app, traffic)
  PROVE  /\ wkPg' = PgSetActiveTraffic(wkPg, app, traffic).db
         /\ serving' = WServingAfter(wkPg, artifacts, serving, PgSetActiveTraffic(wkPg, app, traffic).db)
BY DEF EffectiveSecrets, WEff, SetTraffic, WorkerRepositories, WServingAfter

\* SetDeploymentTraffic: the previous traffic restores what was active.
LEMMA WTrafficStep ==
  ASSUME WorkersInv, NEW t \in WorkerThreads, NEW app \in AppIDs, NEW traffic, WNatural(traffic),
         SetDeploymentTraffic(t, app, traffic)
  PROVE  WorkersInv'
<1>1. PICK p : p = PgSetActiveTraffic(wkPg, app, traffic)  OBVIOUS
<1>2. PICK prev : prev = TrafficIn(wkPg, app)  OBVIOUS
<1>3. PICK r : r = IF p.out = "ok" THEN [op |-> "moved", app |-> app, previous |-> prev] ELSE NoJob
  OBVIOUS
<1>4. /\ configMu = {} /\ SetTraffic(t, app, traffic) /\ StartJob(t, r) /\ PgGetApp(wkPg, app) # NotFound
      /\ configMu' = IF p.out = "ok" THEN {t} ELSE {}
      /\ UNCHANGED <<cacheVars, routes, routesStale, artifacts, bundles>>
  BY <1>1, <1>2, <1>3, Zenon DEF SetDeploymentTraffic
<1>5. /\ WHolds(t) /\ job[t].op \notin WLockOps /\ Proceed(t, r) /\ jobsLeft' \in 0..MaxJobs
      /\ (~routesStale => routes = ActiveIn(wkPg)) /\ routesStale \in BOOLEAN
      /\ WDataOK(wkPg, artifacts, bundles, serving) /\ WRowsOK(wkPg)
  BY <1>4, WStarts
<1>6. \A id \in DOMAIN traffic : traffic[id] \in Nat  BY DEF WNatural
<1>7. wkPg' = p.db /\ serving' = WServingAfter(wkPg, artifacts, serving, p.db)
  BY <1>1, <1>4, WSetTraffic
<1>8. WDataOK(p.db, artifacts, bundles, WServingAfter(wkPg, artifacts, serving, p.db))
  BY <1>1, <1>5, <1>6, WSetData
<1>9. WDataOK(wkPg', artifacts', bundles', serving')  BY <1>4, <1>7, <1>8
<1>10. job[t].op \notin WDirty  BY <1>5, WOps
<1>11. CASE p.out = "ok"
  <2>1. r = [op |-> "moved", app |-> app, previous |-> prev] /\ configMu' = {t}  BY <1>3, <1>4, <1>11
  <2>2. r.op \in WLockOps /\ r.op \in WDirty /\ r.op \in WUnsettled /\ r.op = "moved"
        /\ r.app = app /\ r.previous = prev /\ {"op", "app", "previous"} \subseteq DOMAIN r
    BY <2>1 DEF WLockOps, WDirty, WUnsettled
  <2>3. WHas(wkPg, app)  BY <1>4, <1>5, WGet
  <2>4. ActiveIn(WRestored(wkPg', app, prev)) = ActiveIn(wkPg) /\ WHas(wkPg', app)
    BY <1>1, <1>2, <1>5, <1>6, <1>7, <2>3, WUndone
  <2>5. WNatural(prev)  BY <1>2, <1>5, WTraffic DEF WTrafficOK, WNatural
  <2>6. WUndoOK(wkPg', app, prev, routes', routesStale')
    BY <1>4, <1>5, <2>4, <2>5 DEF WUndoOK
  <2>7. WHeldOK(r, wkPg', artifacts', bundles', routes', routesStale')
    BY <2>2, <2>4, <2>6 DEF WHeldOK
  <2>8. \A x \in AppIDs : x # app => PgActiveDeployments(wkPg', x) = PgActiveDeployments(wkPg, x)
    BY <1>1, <1>5, <1>6, <1>7, WActiveSet
  <2> QED  BY <1>4, <1>5, <1>9, <1>10, <2>1, <2>2, <2>7, <2>8, WKeepsCache
<1>12. CASE p.out # "ok"
  <2>1. r = NoJob /\ wkPg' = wkPg  BY <1>1, <1>3, <1>5, <1>7, <1>12, WSetRows
  <2>2. r.op \notin WLockOps /\ r.op = "idle" /\ r.op \notin WDirty  BY <2>1, WNoJob, WOps
  <2>3. WHeldOK(r, wkPg', artifacts', bundles', routes', routesStale')
    BY <2>2 DEF WHeldOK, WLockOps, WOwning, WUndoing
  <2> QED  BY <1>4, <1>5, <1>9, <1>10, <2>1, <2>2, <2>3, WKeepsCache
<1> QED  BY <1>11, <1>12

\* The previous traffic is kept until it is certain that it is not put back.
LEMMA WSettleStep ==
  ASSUME WorkersInv, NEW t \in WorkerThreads,
         ValidatePreparedPublication(t) \/ WriteTraffic(t) \/ CommitPublication(t)
  PROVE  WorkersInv'
<1>1. PICK j : j = job[t]  OBVIOUS
<1>2. j.op \in {"settle", "commit"}
  BY <1>1 DEF ValidatePreparedPublication, WriteTraffic, CommitPublication, WriteOrRestore, Doing
<1>3. j.op \in WLockOps /\ j.op \notin WDirty /\ j.op \in WUndoing /\ j.op \in WOwning
  BY <1>2 DEF WLockOps, WDirty, WUndoing, WOwning
<1>4. /\ WHolds(t) /\ j.app \in AppIDs /\ configMu = {t} /\ jobsLeft \in 0..MaxJobs /\ routesStale \in BOOLEAN
      /\ {"op", "app"} \subseteq DOMAIN j
      /\ WHeldOK(j, wkPg, artifacts, bundles, routes, routesStale)
      /\ WDataOK(wkPg, artifacts, bundles, serving)
  BY <1>1, <1>3, WHeldJob
<1>5. /\ WHas(wkPg, j.app) /\ "previous" \in DOMAIN j
      /\ WUndoOK(wkPg, j.app, j.previous, routes, routesStale)
  BY <1>3, <1>4 DEF WHeldOK
<1>6. ASSUME NEW moved \in BOOLEAN, NEW r, r = [j EXCEPT !.op = "restore", !.previous = <<@, moved>>],
             Proceed(t, r), configMu' = {t}, wkPg' = wkPg, UNCHANGED <<jobsLeft, cacheVars, artifacts, bundles, serving>>,
             routes' = routes, routesStale' \in BOOLEAN, routesStale' = FALSE => routesStale = FALSE
      PROVE  WorkersInv'
    BY <1>4, <1>5, <1>6, <1>1, <1>3, WKeepsCache DEF WLockOps, WDirty, WUnsettled, WUndoing,
       WUndoOK, WHeldOK
<1>7. CASE ValidatePreparedPublication(t)
    BY <1>1, <1>4, <1>7, <1>6 DEF ValidatePreparedPublication, KeepConfig, wkRepositories
<1>8. CASE WriteTraffic(t) \/ CommitPublication(t)
  <2>1. PICK r : r = [j EXCEPT !.op = "restore", !.previous = <<@, TRUE>>]  OBVIOUS
  <2>2. PICK from : WriteOrRestore(t, from)  BY <1>8 DEF WriteTraffic, CommitPublication
  <2>3. PICK fails \in BOOLEAN :
          /\ WritePublication(fails)
          /\ IF fails THEN Proceed(t, r) /\ KeepConfig ELSE Proceed(t, NoJob) /\ UnlockConfig
          /\ UNCHANGED <<wkRepositories, jobsLeft, cacheVars, artifacts, bundles, serving>>
    BY <1>1, <2>1, <2>2, Zenon DEF WriteOrRestore
  <2>4. wkPg' = wkPg  BY <2>3 DEF wkRepositories
  <2>5. CASE fails BY <1>4, <2>3, <2>5, <1>6, <2>1, <2>4 DEF WritePublication, KeepConfig
  <2>6. CASE ~fails
    <3>1. Proceed(t, NoJob) /\ routes' = ActiveIn(wkPg) /\ routesStale' = FALSE
      BY <2>3, <2>6 DEF WritePublication
    <3>2. NoJob.op \notin WLockOps /\ NoJob.op = "idle" /\ NoJob.op \notin WDirty  BY WNoJob, WOps
    <3>3. WHeldOK(NoJob, wkPg', artifacts', bundles', routes', routesStale')
      BY <3>2 DEF WHeldOK, WLockOps, WOwning, WUndoing
    <3> QED  BY <1>1, <1>3, <1>4, <2>3, <2>4, <3>1, <3>2, <3>3, WKeepsCache
  <2> QED  BY <2>5, <2>6
<1> QED  BY <1>7, <1>8

\* The previous traffic is put back: what is active is again what the runtime was told.
LEMMA WRestoreStep ==
  ASSUME WorkersInv, NEW t \in WorkerThreads, RestoreTraffic(t)
  PROVE  WorkersInv'
<1>1. PICK j : j = job[t]  OBVIOUS
<1>2. PICK prev : prev = j.previous[1]  OBVIOUS
<1>3. PICK op : op = IF j.previous[2] THEN "restored" ELSE "unmoved"  OBVIOUS
<1>4. PICK r : r = [op |-> op, app |-> j.app]  OBVIOUS
<1>5. /\ j.op = "restore" /\ Proceed(t, r) /\ configMu' = configMu /\ SetTraffic(t, j.app, prev)
      /\ UNCHANGED <<jobsLeft, cacheVars, routes, routesStale, artifacts, bundles>>
  BY <1>1, <1>2, <1>3, <1>4, Zenon DEF RestoreTraffic, Doing, KeepConfig
<1>6. j.op \in WLockOps /\ j.op \notin WDirty  BY <1>5 DEF WLockOps, WDirty
<1>7. /\ WHolds(t) /\ j.app \in AppIDs /\ configMu = {t} /\ jobsLeft \in 0..MaxJobs /\ routesStale \in BOOLEAN
      /\ WHeldOK(j, wkPg, artifacts, bundles, routes, routesStale)
      /\ WDataOK(wkPg, artifacts, bundles, serving) /\ WRowsOK(wkPg)
  BY <1>1, <1>6, WHeldJob
<1>8. WUndoOK(wkPg, j.app, prev, routes, routesStale)  BY <1>2, <1>5, <1>7 DEF WHeldOK
<1>9. \A id \in DOMAIN prev : prev[id] \in Nat  BY <1>8 DEF WUndoOK, WNatural
<1>10. PICK e : e = PgSetActiveTraffic(wkPg, j.app, prev).db  OBVIOUS
<1>11. wkPg' = e /\ serving' = WServingAfter(wkPg, artifacts, serving, e)
  BY <1>5, <1>10, WSetTraffic
<1>12. WDataOK(e, artifacts, bundles, WServingAfter(wkPg, artifacts, serving, e))
  BY <1>7, <1>9, <1>10, WSetData
<1>13. WDataOK(wkPg', artifacts', bundles', serving')  BY <1>5, <1>11, <1>12
<1>14. r.op \in {"restored", "unmoved"} /\ r.app = j.app /\ {"op", "app"} \subseteq DOMAIN r  BY <1>3, <1>4
<1>15. r.op \in WLockOps /\ r.op \in WDirty /\ r.op \notin WOwning /\ r.op \notin WUndoing
  BY <1>14 DEF WLockOps, WDirty, WOwning, WUndoing
<1>16. WHeldOK(r, wkPg', artifacts', bundles', routes', routesStale')
  BY <1>7, <1>14, <1>15 DEF WHeldOK
<1>17. ~routesStale => routes = ActiveIn(wkPg')
  BY <1>8, <1>10, <1>11 DEF WUndoOK, WRestored
<1>18. \A x \in AppIDs : x # j.app => PgActiveDeployments(wkPg', x) = PgActiveDeployments(wkPg, x)
  BY <1>7, <1>9, <1>10, <1>11, WActiveSet
<1> QED  BY <1>1, <1>5, <1>6, <1>7, <1>13, <1>14, <1>15, <1>16, <1>17, <1>18, WKeepsCache
-----------------------------------------------------------------------------
\* Deploying.
LEMMA WNextID ==
  ASSUME NEW db, NEW art, WIdsOK(db, art)
  PROVE  \E n \in Nat : /\ n >= 1 /\ DOMAIN art \cup {1} = 1..n
                        /\ 1 + Max({1} \cup {r.id : r \in db.deployments} \cup DOMAIN art) = n + 1
                        /\ \A r \in db.deployments : r.id \in 1..n /\ r.object \in 1..n
<1>1. PICK n \in Nat : n >= 1 /\ DOMAIN art \cup {1} = 1..n  BY DEF WIdsOK
<1>2. \A r \in db.deployments : r.id \in 1..n /\ r.object \in 1..n  BY <1>1 DEF WIdsOK
<1>3. PICK D : D = {r.id : r \in db.deployments}  OBVIOUS
<1>4. D \subseteq 1..n  BY <1>2, <1>3
<1>5. 1 + Max({1} \cup D \cup DOMAIN art) = n + 1  BY <1>1, <1>4, WNewID
<1> QED  BY <1>1, <1>2, <1>3, <1>5, Zenon

\* A deployment gets the next id and its bundle,
LEMMA WDeployStep ==
  ASSUME WorkersInv, NEW t \in WorkerThreads, NEW app \in AppIDs, NEW binds \in WBindings,
         CreateDeployment(t, app, binds)
  PROVE  WorkersInv'
<1>1. PICK k : k = NewID(wkPg)  OBVIOUS
<1>2. PICK d : d = [id |-> k, app |-> app, binds |-> binds, object |-> k]  OBVIOUS
<1>3. PICK r : r = [op |-> "build", app |-> app, d |-> d]  OBVIOUS
<1>4. /\ configMu = {} /\ configMu' = {t} /\ StartJob(t, r) /\ PgGetApp(wkPg, app) # NotFound
      /\ bundles' = bundles \cup {k} /\ wkPg' = wkPg
      /\ UNCHANGED <<cacheVars, routes, routesStale, artifacts, serving>>
  BY <1>1, <1>2, <1>3 DEF CreateDeployment, LockConfig, wkRepositories
<1>5. /\ WHolds(t) /\ job[t].op \notin WLockOps /\ Proceed(t, r) /\ jobsLeft' \in 0..MaxJobs
      /\ (~routesStale => routes = ActiveIn(wkPg)) /\ routesStale \in BOOLEAN
      /\ WDataOK(wkPg, artifacts, bundles, serving) /\ WRowsOK(wkPg)
  BY <1>4, WStarts
<1>6. PICK n \in Nat : n >= 1 /\ DOMAIN artifacts \cup {1} = 1..n /\ k = n + 1
  BY <1>1, <1>5, WNextID DEF WDataOK, NewID
<1>7. WDataOK(wkPg', artifacts', bundles', serving')  BY <1>4, <1>5 DEF WDataOK, WBundlesOK
<1>8. d \in WDeployment /\ d.id = k /\ d.object = k /\ d.app = app  BY <1>2, <1>6 DEF WDeployment
<1>9. r.op = "build" /\ r.app = app /\ r.d = d /\ {"op", "app"} \subseteq DOMAIN r  BY <1>3
<1>10. WBuildOK(r, artifacts', bundles')  BY <1>4, <1>6, <1>8, <1>9 DEF WBuildOK
<1>11. WHas(wkPg', app)  BY <1>4, <1>5, WGet
<1>12. r.op \in WLockOps /\ r.op \notin WDirty /\ r.op \notin WUnsettled /\ r.op \notin WUndoing
  BY <1>9 DEF WLockOps, WDirty, WUnsettled, WUndoing
<1>13. WHeldOK(r, wkPg', artifacts', bundles', routes', routesStale')
  BY <1>9, <1>10, <1>11, <1>12 DEF WHeldOK
<1>14. job[t].op \notin WDirty  BY <1>5, WOps
<1> QED  BY <1>4, <1>5, <1>7, <1>12, <1>13, <1>14, WKeepsCache

\* What PublishJob starts may be published.
LEMMA WPublishJob ==
  ASSUME NEW app \in AppIDs, NEW target, WNatural(target), NEW db, NEW art, NEW bun, NEW rts, NEW stale,
         WHas(db, app), TrafficIn(db, app) = TrafficIn(wkPg, app)
  PROVE  LET r == PublishJob(app, target)
         IN  r.op = "publish" /\ WHeldOK(r, db, art, bun, rts, stale)
BY DEF PublishJob, WUndoing, WHeldOK

\* and is stored with its artifact, or its bundle is taken away again.
LEMMA WBuildStep ==
  ASSUME WorkersInv, NEW t \in WorkerThreads, BuildDeployment(t)
  PROVE  WorkersInv'
<1>1. PICK j : j = job[t]  OBVIOUS
<1>2. PICK d : d = j.d  OBVIOUS
<1>3. PICK target : target = Put(None, d.id, 100)  OBVIOUS
<1>4. PICK secrets : secrets = SecretsIn(wkPg, d.app)  OBVIOUS
<1>5. /\ j.op = "build" /\ UNCHANGED <<jobsLeft, cacheVars, routes, routesStale, serving>>
      /\ \/ /\ configMu' = configMu /\ Proceed(t, PublishJob(d.app, target))
            /\ artifacts' = Put(artifacts, d.id, secrets) /\ bundles' = bundles
            /\ wkPg' = PgStoreDeployment(wkPg, d).db
         \/ /\ Proceed(t, NoJob) /\ artifacts' = artifacts /\ wkPg' = wkPg
            /\ bundles' = {o \in bundles : o = d.object => ObjectReferenced(wkPg, d.app, o)}
    BY <1>1, <1>2, <1>3, <1>4 DEF BuildDeployment, Doing, KeepConfig, WorkerRepositories,
       wkRepositories
<1>6. j.op \in WLockOps /\ j.op \notin WDirty /\ j.op \in WOwning /\ j.op \notin WUnsettled
  BY <1>5 DEF WLockOps, WDirty, WOwning, WUnsettled
<1>7. /\ WHolds(t) /\ j.app \in AppIDs /\ configMu = {t} /\ jobsLeft \in 0..MaxJobs /\ routesStale \in BOOLEAN
      /\ WHeldOK(j, wkPg, artifacts, bundles, routes, routesStale)
      /\ (~routesStale => routes = ActiveIn(wkPg))
      /\ WDataOK(wkPg, artifacts, bundles, serving) /\ WRowsOK(wkPg)
  BY <1>1, <1>6, WHeldJob
<1>8. WHas(wkPg, j.app) /\ WBuildOK(j, artifacts, bundles)  BY <1>5, <1>6, <1>7 DEF WHeldOK
<1>9. /\ d \in WDeployment /\ d.id = d.object /\ d.app = j.app /\ d.object \in bundles
  BY <1>2, <1>8 DEF WBuildOK
<1>10. PICK n \in Nat : n >= 1 /\ DOMAIN artifacts \cup {1} = 1..n /\ d.id = n + 1
  BY <1>2, <1>8 DEF WBuildOK
<1>11. \A r \in wkPg.deployments : r.object # d.object
  BY <1>7, <1>9, <1>10 DEF WDataOK, WIdsOK
<1>12. CASE /\ configMu' = configMu /\ Proceed(t, PublishJob(d.app, target))
            /\ artifacts' = Put(artifacts, d.id, secrets) /\ bundles' = bundles
            /\ wkPg' = PgStoreDeployment(wkPg, d).db
  <2>1. WDataOK(PgStoreDeployment(wkPg, d).db, Put(artifacts, d.id, secrets), bundles, serving)
    <3>1. d.object \in 1..n + 1  BY <1>9, <1>10
    <3>2. \A r \in wkPg.deployments : r.object = d.object => r.app = d.app  BY <1>11
    <3> QED  BY <1>7, <1>9, <1>10, <3>1, <3>2, WStoreData
  <2>2. WDataOK(wkPg', artifacts', bundles', serving')  BY <1>5, <1>12, <2>1
  <2>3. /\ \A app : PgActiveDeployments(wkPg', app) = PgActiveDeployments(wkPg, app)
        /\ TrafficIn(wkPg', d.app) = TrafficIn(wkPg, d.app)
    BY <1>7, <1>9, <1>12, WActiveStore
  <2>4. WHas(wkPg', d.app) BY <1>7, <1>9, <1>12, WStore, <1>8 DEF WHas
  <2>5. WNatural(target)  BY <1>3 DEF WNatural, Put, None
  <2>6. PICK r : r = PublishJob(d.app, target)  OBVIOUS
  <2>7. r.op = "publish" /\ WHeldOK(r, wkPg', artifacts', bundles', routes', routesStale')
    BY <1>7, <1>9, <2>3, <2>4, <2>5, <2>6, WPublishJob
  <2>8. r.op \in WLockOps /\ r.op \notin WDirty  BY <2>7 DEF WLockOps, WDirty
  <2>9. ~routesStale' => routes' = ActiveIn(wkPg')  BY <1>5, <1>7, <2>3 DEF ActiveIn
  <2> QED  BY <1>1, <1>5, <1>6, <1>7, <1>12, <2>2, <2>3, <2>6, <2>7, <2>8, <2>9, WKeepsCache
<1>13. CASE /\ Proceed(t, NoJob) /\ artifacts' = artifacts /\ wkPg' = wkPg
            /\ bundles' = {o \in bundles : o = d.object => ObjectReferenced(wkPg, d.app, o)}
  <2>1. WDataOK(wkPg', artifacts', bundles', serving')
    BY <1>5, <1>7, <1>11, <1>13 DEF WDataOK, WBundlesOK
  <2>2. NoJob.op \notin WLockOps /\ NoJob.op = "idle" /\ NoJob.op \notin WDirty  BY WNoJob, WOps
  <2>3. WHeldOK(NoJob, wkPg', artifacts', bundles', routes', routesStale')
    BY <2>2 DEF WHeldOK, WLockOps, WOwning, WUndoing
  <2> QED  BY <1>1, <1>5, <1>6, <1>7, <1>13, <2>1, <2>2, <2>3, WKeepsCache
<1> QED  BY <1>5, <1>12, <1>13
-----------------------------------------------------------------------------
\* Secrets.
LEMMA WSecretStep ==
  ASSUME WorkersInv, NEW t \in WorkerThreads, NEW app \in AppIDs, NEW name, NEW value,
         PutSecret(t, app, name, value) \/ DeleteSecret(t, app, name)
  PROVE  WorkersInv'
<1>1. PICK rollout : rollout = [op |-> "rollout", app |-> app]  OBVIOUS
<1>2. \E p, r :
        /\ p = PgPutSecret(wkPg, app, name, value) \/ p = PgDeleteSecret(wkPg, app, name)
        /\ r = rollout \/ r = NoJob
        /\ configMu = {} /\ StartJob(t, r) /\ (r = rollout => configMu' = {t})
        /\ wkPg' = p.db /\ artifacts' = WPinned(wkPg, artifacts, app)
        /\ UNCHANGED <<cacheVars, routes, routesStale, bundles, serving>>
    BY <1>1, WNoJob DEF PinActiveArtifacts, WPinned, PutSecret, LockConfig, WorkerRepositories,
       DeleteSecret
<1>3. PICK p, r :
        /\ p = PgPutSecret(wkPg, app, name, value) \/ p = PgDeleteSecret(wkPg, app, name)
        /\ r = rollout \/ r = NoJob
        /\ configMu = {} /\ StartJob(t, r) /\ (r = rollout => configMu' = {t})
        /\ wkPg' = p.db /\ artifacts' = WPinned(wkPg, artifacts, app)
        /\ UNCHANGED <<cacheVars, routes, routesStale, bundles, serving>>
  BY <1>2
<1>4. /\ WHolds(t) /\ job[t].op \notin WLockOps /\ Proceed(t, r) /\ jobsLeft' \in 0..MaxJobs
      /\ (~routesStale => routes = ActiveIn(wkPg)) /\ routesStale \in BOOLEAN
      /\ WDataOK(wkPg, artifacts, bundles, serving) /\ WRowsOK(wkPg)
  BY <1>3, WStarts
<1>5. PICK e : e = p.db  OBVIOUS
<1>6. /\ e.deployments = wkPg.deployments /\ e.workers = wkPg.workers /\ DOMAIN e = DOMAIN wkPg
      /\ \A other : other # app => SecretsIn(e, other) = SecretsIn(wkPg, other)
  BY <1>3, <1>4, <1>5, WPut, WDeleted
<1>7. WDataOK(e, WPinned(wkPg, artifacts, app), bundles, serving)
  BY <1>4, <1>6, WSecretsData
<1>8. WDataOK(wkPg', artifacts', bundles', serving')  BY <1>3, <1>5, <1>7
<1>9. \A x : PgGetApp(e, x) = PgGetApp(wkPg, x)  BY <1>6 DEF PgGetApp
<1>10. \A x : PgActiveDeployments(wkPg', x) = PgActiveDeployments(wkPg, x)
  BY <1>3, <1>5, <1>6, <1>9, WActiveKept
<1>11. r.op \in {"rollout", "idle"} /\ (r.op = "rollout" => r = rollout /\ r.app = app /\ {"op", "app"} \subseteq DOMAIN r)
  BY <1>1, <1>3, WNoJob
<1>12. r.op \in WLockOps \cup {"idle"} /\ (r.op \in WLockOps => r.op = "rollout") /\ r.op \notin WDirty
       /\ r.op \notin WUndoing
  BY <1>11 DEF WLockOps, WDirty, WUndoing
<1>13. CASE r = NoJob
  <2>1. WHeldOK(r, wkPg', artifacts', bundles', routes', routesStale')
    BY <1>13, WNoJob DEF WHeldOK, WLockOps, WOwning, WUndoing
  <2> QED  BY <1>3, <1>4, <1>8, <1>10, <1>12, <1>13, <2>1, WNoJob, WOps, WKeepsCache DEF ActiveIn
<1>14. CASE r = rollout
  <2>1. r.op = "rollout" /\ r.app = app /\ {"op", "app"} \subseteq DOMAIN r  BY <1>1, <1>14
  <2>2. WHas(wkPg', app) BY <1>4, WGet, <1>3, <1>5, <1>6 DEF PutSecret, DeleteSecret, WHas
  <2>3. WHeldOK(r, wkPg', artifacts', bundles', routes', routesStale')
    BY <1>12, <2>1, <2>2 DEF WHeldOK
  <2>4. ~routesStale' => routes' = ActiveIn(wkPg')  BY <1>3, <1>4, <1>10 DEF ActiveIn
  <2>5. job[t].op \notin WDirty  BY <1>4, WOps
  <2>6. configMu' = {t}  BY <1>3, <1>14
  <2> QED  BY <1>3, <1>4, <1>8, <1>10, <1>12, <2>3, <2>4, <2>5, <2>6, WKeepsCache
<1> QED  BY <1>3, <1>13, <1>14
-----------------------------------------------------------------------------
\* Rolling a change of secrets out, clone by clone.
LEMMA WRolloutStep ==
  ASSUME WorkersInv, NEW t \in WorkerThreads, RolloutSecretsIfActive(t)
  PROVE  WorkersInv'
<1>1. PICK app : app = job[t].app  OBVIOUS
<1>2. PICK old : old = TrafficIn(wkPg, app)  OBVIOUS
<1>3. PICK clone : clone = [op |-> "clone", app |-> app, previous |-> old, left |-> DOMAIN old, target |-> None]
  OBVIOUS
<1>4. /\ job[t].op = "rollout" /\ wkPg' = wkPg
      /\ Proceed(t, NoJob) \/ (Proceed(t, clone) /\ configMu' = configMu)
      /\ UNCHANGED <<jobsLeft, cacheVars, routes, routesStale, artifacts, bundles, serving>>
    BY <1>1, <1>2, <1>3 DEF RolloutSecretsIfActive, Doing, KeepConfig, wkRepositories
<1>5. job[t].op \in WLockOps /\ job[t].op \notin WDirty /\ job[t].op \in WOwning /\ job[t].op \notin WUnsettled
  BY <1>4 DEF WLockOps, WDirty, WOwning, WUnsettled
<1>6. /\ WHolds(t) /\ app \in AppIDs /\ configMu = {t} /\ jobsLeft \in 0..MaxJobs /\ routesStale \in BOOLEAN
      /\ WHeldOK(job[t], wkPg, artifacts, bundles, routes, routesStale)
      /\ (~routesStale => routes = ActiveIn(wkPg))
      /\ WDataOK(wkPg, artifacts, bundles, serving)
  BY <1>1, <1>5, WHeldJob
<1>7. CASE Proceed(t, NoJob)
    BY WNoJob, WOps, <1>4, <1>5, <1>6, <1>7, WKeepsCache DEF WHeldOK, WLockOps, WOwning, WUndoing
<1>8. CASE Proceed(t, clone) /\ configMu' = configMu
    BY <1>3, <1>1, <1>5, <1>6, <1>2, <1>4, <1>8, WKeepsCache DEF WLockOps, WDirty, WUndoing,
       WNatural, None, WHeldOK
<1> QED  BY <1>4, <1>7, <1>8

\* A clone shares the bundle of a deployment of the same worker.
LEMMA WCloneStep ==
  ASSUME WorkersInv, NEW t \in WorkerThreads, CloneDeployment(t)
  PROVE  WorkersInv'
<1>1. PICK j : j = job[t]  OBVIOUS
<1>2. PICK k : k = NewID(wkPg)  OBVIOUS
<1>3. PICK id \in j.left : \E d, target, r :
        /\ d = [id |-> k, app |-> j.app, binds |-> Deployed(wkPg, id).binds, object |-> Deployed(wkPg, id).object]
        /\ target = Put(j.target, k, j.previous[id])
        /\ r = IF j.left = {id} THEN PublishJob(j.app, target) ELSE [j EXCEPT !.left = @ \ {id}, !.target = target]
        /\ j.op = "clone" /\ Proceed(t, r) /\ configMu' = configMu
        /\ artifacts' = Put(artifacts, k, SecretsIn(wkPg, j.app))
        /\ wkPg' = PgStoreDeployment(wkPg, d).db
        /\ UNCHANGED <<jobsLeft, cacheVars, routes, routesStale, bundles, serving>>
    BY <1>1, <1>2 DEF CloneDeployment, Doing, KeepConfig, WorkerRepositories
<1>4. PICK d, target, r :
        /\ d = [id |-> k, app |-> j.app, binds |-> Deployed(wkPg, id).binds, object |-> Deployed(wkPg, id).object]
        /\ target = Put(j.target, k, j.previous[id])
        /\ r = IF j.left = {id} THEN PublishJob(j.app, target) ELSE [j EXCEPT !.left = @ \ {id}, !.target = target]
        /\ j.op = "clone" /\ Proceed(t, r) /\ configMu' = configMu
        /\ artifacts' = Put(artifacts, k, SecretsIn(wkPg, j.app))
        /\ wkPg' = PgStoreDeployment(wkPg, d).db
        /\ UNCHANGED <<jobsLeft, cacheVars, routes, routesStale, bundles, serving>>
  BY <1>3
<1>5. j.op \in WLockOps /\ j.op \notin WDirty /\ j.op \in WOwning /\ j.op \notin WUnsettled
  BY <1>4 DEF WLockOps, WDirty, WOwning, WUnsettled
<1>6. /\ WHolds(t) /\ j.app \in AppIDs /\ configMu = {t} /\ jobsLeft \in 0..MaxJobs /\ routesStale \in BOOLEAN
      /\ {"op", "app"} \subseteq DOMAIN j
      /\ WHeldOK(j, wkPg, artifacts, bundles, routes, routesStale)
      /\ (~routesStale => routes = ActiveIn(wkPg))
      /\ WDataOK(wkPg, artifacts, bundles, serving) /\ WRowsOK(wkPg)
  BY <1>1, <1>5, WHeldJob
<1>7. /\ WHas(wkPg, j.app) /\ {"left", "target", "previous"} \subseteq DOMAIN j
      /\ j.previous = TrafficIn(wkPg, j.app) /\ j.left \subseteq DOMAIN j.previous /\ WNatural(j.target)
  BY <1>4, <1>5, <1>6 DEF WHeldOK
<1>8. WTrafficOK(wkPg, j.app, j.previous)  BY <1>6, <1>7, WTraffic
<1>9. id \in WIdsOf(wkPg, j.app) /\ j.previous[id] \in Nat  BY <1>3, <1>7, <1>8 DEF WTrafficOK
<1>10. PICK o : o = Deployed(wkPg, id)  OBVIOUS
<1>11. o \in wkPg.deployments /\ o.app = j.app  BY <1>6, <1>9, <1>10, WFoundIn
<1>12. o \in WRow /\ o.object \in bundles
       /\ \A x \in wkPg.deployments : x.object = o.object => x.app = j.app
  BY <1>6, <1>11 DEF WRowsOK, WDataOK, WBundlesOK
<1>13. PICK n \in Nat : /\ n >= 1 /\ DOMAIN artifacts \cup {1} = 1..n /\ k = n + 1
                        /\ \A x \in wkPg.deployments : x.object \in 1..n
  BY <1>2, <1>6, WNextID DEF WDataOK, NewID
<1>14. /\ d \in WDeployment /\ d.id = k /\ d.app = j.app /\ d.object = o.object
    BY <1>4, <1>10, <1>12, <1>6, <1>13 DEF WRow, WDeployment
<1>15. WDataOK(wkPg', artifacts', bundles', serving')
    BY <1>11, <1>12, <1>13, <1>14, <1>6, WStoreData, <1>4
<1>16. /\ \A app : PgActiveDeployments(wkPg', app) = PgActiveDeployments(wkPg, app)
       /\ TrafficIn(wkPg', j.app) = TrafficIn(wkPg, j.app)
  BY <1>4, <1>6, <1>14, WActiveStore
<1>17. WHas(wkPg', j.app) BY <1>4, <1>6, <1>14, WStore, <1>7 DEF WHas
<1>18. WNatural(target) BY <1>4, <1>7, <1>9 DEF Put, WNatural
<1>19. r.op \in {"publish", "clone"} /\ WHeldOK(r, wkPg', artifacts', bundles', routes', routesStale')
  <2>1. CASE j.left = {id} BY <1>4, <2>1, <1>6, <1>16, <1>17, <1>18, WPublishJob
  <2>2. CASE j.left # {id} BY <1>4, <2>2, <1>6, <1>7, <1>16, <1>17, <1>18 DEF WUndoing, WHeldOK
  <2> QED  BY <2>1, <2>2
<1>20. r.op \in WLockOps /\ r.op \notin WDirty  BY <1>19 DEF WLockOps, WDirty
<1>21. ~routesStale' => routes' = ActiveIn(wkPg')  BY <1>4, <1>6, <1>16 DEF ActiveIn
<1> QED  BY <1>1, <1>4, <1>5, <1>6, <1>15, <1>16, <1>19, <1>20, <1>21, WKeepsCache

\* An artifact may be left without its deployment.
LEMMA WFrozenData ==
  ASSUME NEW db, NEW art, NEW bun, NEW srv, WDataOK(db, art, bun, srv),
         NEW n \in Nat, n >= 1, DOMAIN art \cup {1} = 1..n, NEW k, k = n + 1, NEW secrets
  PROVE  WDataOK(db, Put(art, k, secrets), bun, srv)
<1>1. PICK new : new = Put(art, k, secrets)  OBVIOUS
<1>2. DOMAIN new = DOMAIN art \cup {k} /\ \A id \in DOMAIN art : id # k => new[id] = art[id]
  BY <1>1 DEF Put
<1>3. DOMAIN new \cup {1} = 1..n + 1  BY <1>2
<1>4. \A r \in db.deployments : r.id \in 1..n /\ r.object \in 1..n  BY DEF WDataOK, WIdsOK
<1>5. WIdsOK(db, new) BY <1>4, <1>3 DEF WIdsOK
<1>6. WServingOK(db, new, srv) BY <1>4, <1>2 DEF WDataOK, WServingOK, WEff
<1> QED  BY <1>1, <1>5, <1>6 DEF WDataOK

\* A rollout fails half way: nothing is active that was not.
LEMMA WCloneFailsStep ==
  ASSUME WorkersInv, NEW t \in WorkerThreads, CloneFails(t)
  PROVE  WorkersInv'
<1>1. PICK k : k = NewID(wkPg)  OBVIOUS
<1>2. PICK secrets : secrets = SecretsIn(wkPg, job[t].app)  OBVIOUS
<1>3. /\ job[t].op = "clone" /\ Proceed(t, NoJob) /\ wkPg' = wkPg
      /\ artifacts' = artifacts \/ artifacts' = Put(artifacts, k, secrets)
      /\ UNCHANGED <<jobsLeft, cacheVars, routes, routesStale, bundles, serving>>
  BY <1>1, <1>2 DEF CloneFails, Doing, wkRepositories
<1>4. job[t].op \in WLockOps /\ job[t].op \notin WDirty /\ job[t].op \notin WUnsettled
  BY <1>3 DEF WLockOps, WDirty, WUnsettled
<1>5. /\ WHolds(t) /\ jobsLeft \in 0..MaxJobs /\ routesStale \in BOOLEAN
      /\ (~routesStale => routes = ActiveIn(wkPg))
      /\ WDataOK(wkPg, artifacts, bundles, serving)
  BY <1>4, WHeldJob
<1>6. PICK n \in Nat : n >= 1 /\ DOMAIN artifacts \cup {1} = 1..n /\ k = n + 1
  BY <1>1, <1>5, WNextID DEF WDataOK, NewID
<1>7. WDataOK(wkPg, Put(artifacts, k, secrets), bundles, serving)  BY <1>5, <1>6, WFrozenData
<1>8. WDataOK(wkPg', artifacts', bundles', serving')  BY <1>3, <1>5, <1>7
<1>9. NoJob.op \notin WLockOps /\ NoJob.op = "idle" /\ NoJob.op \notin WDirty  BY WNoJob, WOps
<1>10. WHeldOK(NoJob, wkPg', artifacts', bundles', routes', routesStale')
  BY <1>9 DEF WHeldOK, WLockOps, WOwning, WUndoing
<1> QED  BY <1>3, <1>4, <1>5, <1>8, <1>9, <1>10, WKeepsCache
-----------------------------------------------------------------------------
\* Publishing what was stored.
LEMMA WPublishStep ==
  ASSUME WorkersInv, NEW t \in WorkerThreads, PrepareFails(t) \/ PublishStoredArtifact(t)
  PROVE  WorkersInv'
<1>1. PICK j : j = job[t]  OBVIOUS
<1>2. j.op = "publish"  BY <1>1 DEF PrepareFails, PublishStoredArtifact, Doing
<1>3. j.op \in WLockOps /\ j.op \notin WDirty /\ j.op \in WOwning /\ j.op \notin WUnsettled
  BY <1>2 DEF WLockOps, WDirty, WOwning, WUnsettled
<1>4. /\ WHolds(t) /\ j.app \in AppIDs /\ configMu = {t} /\ jobsLeft \in 0..MaxJobs /\ routesStale \in BOOLEAN
      /\ WHeldOK(j, wkPg, artifacts, bundles, routes, routesStale)
      /\ (~routesStale => routes = ActiveIn(wkPg))
      /\ WDataOK(wkPg, artifacts, bundles, serving) /\ WRowsOK(wkPg)
  BY <1>1, <1>3, WHeldJob
<1>5. WHas(wkPg, j.app) /\ j.previous = TrafficIn(wkPg, j.app) /\ WNatural(j.target)
  BY <1>2, <1>3, <1>4 DEF WHeldOK
<1>6. CASE PrepareFails(t)
    BY <1>6, WNoJob, WOps, <1>1, <1>3, <1>4, WKeepsCache DEF PrepareFails, wkRepositories,
       WHeldOK, WLockOps, WOwning, WUndoing
<1>7. CASE PublishStoredArtifact(t)
  <2>1. PICK r : r = [op |-> "activated", app |-> j.app, previous |-> j.previous]  OBVIOUS
  <2>2. PICK target : target = j.target  OBVIOUS
  <2>3. PICK prev : prev = j.previous  OBVIOUS
  <2>4. /\ Proceed(t, r) /\ configMu' = configMu /\ SetTraffic(t, j.app, target)
        /\ UNCHANGED <<jobsLeft, cacheVars, routes, routesStale, artifacts, bundles>>
    BY <1>1, <1>7, <2>1, <2>2, Zenon DEF PublishStoredArtifact, KeepConfig
  <2>5. \A id \in DOMAIN target : target[id] \in Nat  BY <1>5, <2>2 DEF WNatural
  <2>6. PICK e : e = PgSetActiveTraffic(wkPg, j.app, target).db  OBVIOUS
  <2>7. wkPg' = e /\ serving' = WServingAfter(wkPg, artifacts, serving, e)
    BY <2>4, <2>6, WSetTraffic
  <2>8. WDataOK(e, artifacts, bundles, WServingAfter(wkPg, artifacts, serving, e))
    BY <1>4, <2>5, <2>6, WSetData
  <2>9. WDataOK(wkPg', artifacts', bundles', serving')  BY <2>4, <2>7, <2>8
  <2>10. r.op = "activated" /\ r.app = j.app /\ r.previous = prev /\ {"op", "app", "previous"} \subseteq DOMAIN r
    BY <2>1, <2>3
  <2>11. r.op \in WLockOps /\ r.op \in WDirty /\ r.op \in WUnsettled
    BY <2>10 DEF WLockOps, WDirty, WUnsettled
  <2>12. ActiveIn(WRestored(wkPg', j.app, prev)) = ActiveIn(wkPg) /\ WHas(wkPg', j.app)
    BY <1>4, <1>5, <2>3, <2>5, <2>6, <2>7, WUndone
  <2>13. WNatural(prev)  BY ZenonT(60), <1>4, <1>5, <2>3, WTraffic DEF WTrafficOK, WNatural
  <2>14. WUndoOK(wkPg', j.app, prev, routes', routesStale')
    BY <1>4, <2>4, <2>12, <2>13 DEF WUndoOK
  <2>15. WHeldOK(r, wkPg', artifacts', bundles', routes', routesStale')
    BY <1>4, <2>10, <2>12, <2>14 DEF WHeldOK
  <2>16. \A x \in AppIDs : x # j.app => PgActiveDeployments(wkPg', x) = PgActiveDeployments(wkPg, x)
    BY <1>4, <2>5, <2>6, <2>7, WActiveSet
  <2> QED  BY <1>1, <1>3, <1>4, <2>4, <2>9, <2>10, <2>11, <2>15, <2>16, WKeepsCache
<1> QED  BY <1>6, <1>7
-----------------------------------------------------------------------------
\* Every step keeps it.
LEMMA WSplits ==
  ASSUME NEW split \in Splits
  PROVE  WNatural(split)
<1>1. PICK ids : ids = {1} \cup {r.id : r \in wkPg.deployments}  OBVIOUS
<1>2. \/ \E id \in ids : split = [x \in {id} |-> 100]
      \/ \E p \in {q \in ids \X ids : q[1] < q[2]} : split = [x \in {p[1], p[2]} |-> 50]
  BY <1>1, Zenon DEF Splits
<1>3. ASSUME NEW S, NEW n \in Nat, split = [x \in S |-> n] PROVE WNatural(split)
  BY <1>3 DEF WNatural
<1>4. ASSUME NEW id, split = [x \in {id} |-> 100] PROVE WNatural(split)
  BY <1>3, <1>4
<1>5. ASSUME NEW p, split = [x \in {p[1], p[2]} |-> 50] PROVE WNatural(split)
  BY <1>3, <1>5
<1> QED  BY <1>2, <1>4, <1>5

\* Each action, or none.
LEMMA WorkersNextKeeps == WorkersInv /\ [WorkersNext]_workersVars => WorkersInv'
<1> SUFFICES ASSUME WorkersInv, [WorkersNext]_workersVars PROVE WorkersInv'
  OBVIOUS
<1>1. CASE UNCHANGED workersVars
  BY <1>1 DEF workersVars, wkRepositories, cacheVars, WorkersInv, WorkersTyped, WorkersData, JobsHoldConfigMu, JobsInv, RoutesInv,
     CacheInv, WCurrent, BeingChanged
<1>2. ASSUME NEW t \in WorkerThreads, NEW app \in {1} \cup {a.id : a \in wkPg.workers},
             \/ LookupRoute(t, app) \/ DeleteApp(t, app)
             \/ \E patch \in AppPatches : UpdateApp(t, app, patch)
             \/ \E split \in Splits : SetDeploymentTraffic(t, app, split)
             \/ \E binds \in {{}, {<<"KV", 1>>}} : CreateDeployment(t, app, binds)
             \/ PutSecret(t, app, "KV", 1) \/ DeleteSecret(t, app, "KV")
      PROVE  WorkersInv'
  <2>1. app \in AppIDs  BY WAppIDs DEF WorkersInv, WorkersData, WDataOK, WRowsOK
  <2>2. CASE LookupRoute(t, app)  BY <2>1, <2>2, WLookupStep
  <2>3. CASE DeleteApp(t, app)  BY <2>1, <2>3, WDeleteStep
  <2>4. CASE \E patch \in AppPatches : UpdateApp(t, app, patch)  BY <2>1, <2>4, WUpdateStep
  <2>5. CASE \E split \in Splits : SetDeploymentTraffic(t, app, split)
    BY <2>1, <2>5, WSplits, WTrafficStep
  <2>6. CASE \E binds \in {{}, {<<"KV", 1>>}} : CreateDeployment(t, app, binds)
    BY <2>1, <2>6, WDeployStep DEF WBindings
  <2>7. CASE PutSecret(t, app, "KV", 1) \/ DeleteSecret(t, app, "KV")
    BY <2>1, <2>7, WSecretStep
  <2> QED  BY <1>2, <2>2, <2>3, <2>4, <2>5, <2>6, <2>7
<1>3. ASSUME NEW t \in WorkerThreads,
             \/ ReadRoute(t) \/ RuntimeDeploymentsForApp(t)
             \/ UpdateAppInvalidate(t) \/ CleanupDeployments(t) \/ DeleteAppInvalidate(t) \/ WriteRoutes(t)
             \/ TrafficInvalidate(t) \/ ValidatePreparedPublication(t) \/ WriteTraffic(t)
             \/ RestoreTraffic(t) \/ RestoredOnly(t) \/ RestoredInvalidate(t)
             \/ BuildDeployment(t) \/ RolloutSecretsIfActive(t) \/ CloneDeployment(t) \/ CloneFails(t)
             \/ PrepareFails(t)
             \/ PublishStoredArtifact(t) \/ PublishInvalidate(t) \/ CommitPublication(t)
      PROVE  WorkersInv'
  BY <1>3, WAppIDs, WLookupStep, WInvalidateStep, WCleanupStep, WWriteStep, WSettleStep, WRestoreStep,
     WBuildStep, WRolloutStep, WCloneStep, WCloneFailsStep, WPublishStep
<1>4. CASE WorkersNext BY <1>4, <1>2, <1>3, WCreateStep, Zenon DEF WorkersNext
<1> QED  BY <1>1, <1>4
-----------------------------------------------------------------------------
\* The seed: a worker with one active deployment.
LEMMA WSeed ==
  ASSUME WorkersInit
  PROVE  \E a, d : /\ a.id = 1 /\ "id" \in DOMAIN a
                   /\ d = [id |-> 1, app |-> 1, binds |-> {}, object |-> 1]
                   /\ wkPg.workers = {a} /\ wkPg.deployments = {Put(d, "traffic", 100)}
                   /\ wkPg.worker_secrets = {} /\ WTables \subseteq DOMAIN wkPg
<1>1. PICK a : a = [id |-> 1, org |-> "o", hostname |-> "h", auth |-> "off", token |-> <<"t", 1>>]
  OBVIOUS
<1>2. PICK n : n = [id |-> 1, org |-> "o", name |-> "n"]  OBVIOUS
<1>3. PICK d : d = [id |-> 1, app |-> 1, binds |-> {}, object |-> 1]  OBVIOUS
<1>4. PICK e1 : e1 = PgCreateApp(PgResources, a).db  OBVIOUS
<1>5. PICK e2 : e2 = PgCreateKVNamespace(e1, n).db  OBVIOUS
<1>6. wkPg = PgActivate(e2, d).db
  BY <1>1, <1>2, <1>3, <1>4, <1>5 DEF WorkersInit, WorkersSeed
<1>7. a.id = 1 /\ "id" \in DOMAIN a  BY <1>1
<1>8. e1 = [PgResources EXCEPT !.workers = {a}] BY <1>4, Accepted DEF PgResources, PgCreateApp
<1>9. /\ e1.workers = {a} /\ e1.deployments = {} /\ e1.worker_secrets = {} /\ e1.kv_namespaces = {}
      /\ WTables \cup {"kv_namespaces"} \subseteq DOMAIN e1
  BY <1>8 DEF PgResources, WTables
<1>10. e2 = e1 \/ e2 = [e1 EXCEPT !["kv_namespaces"] = @ \cup {n}]
    BY <1>5, Accepted, Denied DEF PgCreateNamed, PgCreateKVNamespace
<1>11. /\ e2.workers = {a} /\ e2.deployments = {} /\ e2.worker_secrets = {} /\ WTables \subseteq DOMAIN e2
  BY <1>9, <1>10 DEF WTables
<1>12. PgGetApp(e2, 1) # NotFound BY <1>7, <1>11, WNotFound DEF PgGetApp, One
<1>13. d.app = 1  BY <1>3
<1>14. PICK new : new = {IF r.app = d.app THEN [r EXCEPT !.traffic = 0] ELSE r : r \in e2.deployments}
                          \cup {Put(d, "traffic", 100)}
  OBVIOUS
<1>15. new = {Put(d, "traffic", 100)}  BY <1>11, <1>14
<1>16. PICK x : x = [e2 EXCEPT !.deployments = new]  OBVIOUS
<1>17. [e2 EXCEPT !.deployments = {IF r.app = d.app THEN [r EXCEPT !.traffic = 0] ELSE r : r \in @}
                                    \cup {Put(d, "traffic", 100)}] = x
  BY <1>14, <1>16
<1>18. PgActivate(e2, d) = Done(x)
  BY <1>12, <1>13, <1>17, Zenon DEF PgActivate
<1>19. wkPg = x  BY <1>6, <1>18, Accepted
<1>20. /\ x.workers = {a} /\ x.deployments = {Put(d, "traffic", 100)} /\ x.worker_secrets = {}
       /\ WTables \subseteq DOMAIN x
  BY <1>11, <1>15, <1>16 DEF WTables
<1> QED  BY <1>3, <1>7, <1>19, <1>20

\* It satisfies the invariant.
LEMMA WorkersInitial == WorkersInit => WorkersInv
<1> SUFFICES ASSUME WorkersInit PROVE WorkersInv
  OBVIOUS
<1>1. PICK a, d : /\ a.id = 1 /\ "id" \in DOMAIN a
                  /\ d = [id |-> 1, app |-> 1, binds |-> {}, object |-> 1]
                  /\ wkPg.workers = {a} /\ wkPg.deployments = {Put(d, "traffic", 100)}
                  /\ wkPg.worker_secrets = {} /\ WTables \subseteq DOMAIN wkPg
  BY WSeed, Zenon
<1>2. /\ job = [t \in WorkerThreads |-> NoJob] /\ jobsLeft = MaxJobs /\ configMu = {}
      /\ runtimeDeployments = None /\ runtimeVersions = [x \in AppIDs |-> 0]
      /\ routes = ActiveIn(wkPg) /\ routesStale = FALSE
      /\ artifacts = None /\ bundles = {1} /\ serving = Put(None, 1, {})
  BY DEF WorkersInit
<1>3. d \in WDeployment  BY <1>1, WAppIDs DEF WDeployment, WBindings
<1>4. PICK r : r = Put(d, "traffic", 100)  OBVIOUS
<1>5. r \in WRow /\ r.id = 1 /\ r.app = 1 /\ r.object = 1 /\ r.traffic = 100
  BY <1>1, <1>3, <1>4, WRowMade
<1>6. WRowsOK(wkPg)  BY <1>1, <1>4, <1>5, WAppIDs DEF WRowsOK, WHas
<1>7. DOMAIN artifacts = {}  BY <1>2 DEF None
<1>8. WIdsOK(wkPg, artifacts) BY <1>7, <1>1, <1>4, <1>5 DEF WIdsOK
<1>9. WBundlesOK(wkPg, bundles)  BY <1>1, <1>2, <1>4, <1>5 DEF WBundlesOK
<1>10. WServingOK(wkPg, artifacts, serving)
    BY <1>2, <1>1, <1>7, <1>4, <1>5 DEF Put, None, SecretsIn, WEff, WServingOK
<1>11. WorkersData  BY <1>6, <1>8, <1>9, <1>10 DEF WorkersData, WDataOK
<1>12. WorkersTyped
  <2>1. job = [t \in WorkerThreads |-> job[t]]  BY <1>2
  <2>2. jobsLeft \in 0..MaxJobs  BY <1>2, WAppIDs
  <2>3. DOMAIN runtimeDeployments = {}  BY <1>2 DEF None
  <2> QED  BY <1>2, <2>1, <2>2, <2>3 DEF WorkersTyped
<1>13. WHeldOK(NoJob, wkPg, artifacts, bundles, routes, routesStale)
  BY WNoJob DEF WHeldOK, WLockOps, WOwning, WUndoing
<1>14. \A t \in WorkerThreads : job[t] = NoJob  BY <1>2
<1>15. JobsHoldConfigMu /\ JobsInv  BY <1>13, <1>14, WNoJob DEF JobsHoldConfigMu, JobsInv
<1>16. RoutesInv  BY <1>2 DEF RoutesInv
<1>17. CacheInv  BY <1>2, <1>14, WNoJob DEF CacheInv, None
<1> QED  BY <1>11, <1>12, <1>15, <1>16, <1>17 DEF WorkersInv
-----------------------------------------------------------------------------
\* Workers on their own.
WorkersSpec == WorkersInit /\ [][WorkersNext]_workersVars

\* The inductive invariant of workers, their deployments, secrets and routing.
THEOREM WorkersInvariant == WorkersSpec => []WorkersInv
BY WorkersInitial, WorkersNextKeeps, PTL DEF WorkersSpec

\* What the gateway and the runtime route by is what the repository says, however lookups
\* (runtimeDeploymentsForApp) interleave with changes, and whether writing what a change did to the
\* runtime succeeds or not; and a bundle is not cleaned up while a deployment needs it.
THEOREM RoutesFollow == WorkersSpec => []RoutingCurrent
<1>1. WorkersInv => RoutingCurrent
  <2> SUFFICES ASSUME WorkersInv PROVE RoutingCurrent
    OBVIOUS
  <2>1. \A app \in DOMAIN runtimeDeployments \ BeingChanged :
           runtimeDeployments[app] = PgActiveDeploymentsForApp(wkPg, app)
    BY DEF WorkersInv, CacheInv, WCurrent, PgActiveDeploymentsForApp
  <2>2. configMu = {} => \A t \in WorkerThreads : job[t].op \notin WUnsettled
    BY WOps DEF WorkersInv, JobsHoldConfigMu
  <2>3. configMu = {} /\ ~routesStale => routes = ActiveIn(wkPg)
    BY <2>2 DEF WorkersInv, RoutesInv
  <2>4. \A r \in wkPg.deployments : r.object \in bundles
    BY DEF WorkersInv, WorkersData, WDataOK, WBundlesOK
  <2> QED  BY <2>1, <2>3, <2>4 DEF RoutingCurrent
<1> QED  BY <1>1, WorkersInvariant, PTL

\* A change of secrets does not reach a deployment that is active: PinActiveArtifacts froze what
\* it serves before, and rolling out makes new deployments.
THEOREM SecretsFrozen == WorkersSpec => []ActiveSecretsStable
<1>1. WorkersInv => ActiveSecretsStable
    BY DEF EffectiveSecrets, WEff, WorkersInv, WorkersData, WDataOK, WServingOK,
       ActiveSecretsStable
<1> QED  BY <1>1, WorkersInvariant, PTL

\* Both hold in the run's part for workers, and in the others, which leave workers alone.
THEOREM PlatformRouting == PlatformSpec => [](RoutingCurrent /\ ActiveSecretsStable)
<1>1. PlatformInit => WorkersInit BY DEF PlatformInit
<1>2. [PlatformNext]_platformVars => [WorkersNext]_workersVars
    BY DEF PlatformNext, platformVars
<1> QED BY <1>1, <1>2, RoutesFollow, SecretsFrozen, PTL DEF PlatformSpec, WorkersSpec
=============================================================================
