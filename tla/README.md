# Nanoflare: TLA+ models and proofs

Nanoflare is a self-hosted platform for serverless workers. A control process
(`cmd/nanoflared`) keeps workers, deployments and routing in a repository; a
runtime (embedded in the control process, or a remote runner) loads frozen
snapshots of the deployments, runs invocations in workerd and calls back to the
control process for every resource they touch. This directory models the parts
in which ordering, failure and concurrency decide whether the system is correct.

File names below are relative to `src/`.

## 1. Inventory

### Modelled

**Execution registry** (`internal/nanoflare/execution.go`, `resource_grants.go`).
State: grants ("revisions") with their state, acceptance flag, lease and
operation counters; capability tokens with counted pins; registration and
revocation sets per session. Operations: prepare, publish and retire a grant,
admit, pin, release, acquire a resource, revoke a session. All under one mutex,
one call at a time. Correct when counters equal what they count, running work
keeps its deployment's objects (`ReferencesDeployment`), and a grant never comes
back once it is retired or its session is gone.

**Runtime execution server** (`internal/api/runtime_execution.go`,
`internal/api/resource_grants.go`). State: runner sessions with expiry and
admission watermark, stored pins, the owner of each token, the shutdown flag.
Operations: the private HTTP handlers, the janitor, closing a session pin by pin
under the server's mutex, shutdown. Hard: the pin handler has three critical
sections with a registry call between them; retire and resource requests do not
take the server's mutex at all; the runner cancels admissions whose answer it
lost, so a release may overtake its admit.

**Staged publication** (`internal/nanoflare/publication.go`,
`worker_publication.go`, `service.go`). State: a record per request key with its
stage and the traffic it found; routing and its generation; the runtime's
generation. Operations: deploy through its stages, replay by idempotency key,
operator traffic changes, reconciliation of everything unfinished. One operation
runs at a time; the difficulty is what it leaves behind when a call fails with an
unknown outcome or the process dies. Correct when records never claim what
routing and runtime do not have, and a replay never overwrites newer traffic.

**Vars updates** (`internal/nanoflare/vars.go`, `vars_store.go`). State: a record
per request with status and base deployment. Begin stores, activates and records
in one transaction; failure to publish rolls back in four calls and deletes the
revision. Correct when the reported outcome is the one that holds.

**Process startup and runner reconciliation** (`cmd/nanoflared/main.go`,
`internal/runner/reconciliation.go`). Startup reconciles before the public
listener opens and exits on error; a loop reconciles a remote runner whose boot
identity has changed and tries again at every tick until that succeeds.

**Dynamic runtime manager and runner server** (`internal/runtime/dynamic_manager.go`,
`publication.go`, `internal/runner/server.go`, the wrapper that
`internal/config/invocation_loader.go` generates). State: the committed, active and
pending sets, snapshots with their grants, the session, the process; a broker of
invocations with roots, pending work and pins; a queue of pin releases that failed.
Operations: prepare, commit, abort, write, restore, check, session recovery,
heartbeat, collection, admission, start and completion by epoch, the
abandoning of rejected calls. Hard: a publication makes one control call per grant
without the lock, each may be lost before or after it took effect, and the
collector, the watcher and recovery run beside it.

**Legacy runtime manager** (`internal/runtime/manager.go`). A pool per publication,
commit swaps pools, a watcher restarts a pool that exits.

**Dispatch roots and leases** (`internal/nanoflare/dispatch.go`, `dispatch_root.go`,
`internal/api/runtime_dispatch.go`, the gateway in `server_apps.go`). A root per
request, leases nested under it, effects under a lease's context, callbacks that
run by timers or after the unlock, a switch that turns dispatch off.

**Control-plane authentication** (`internal/nanoflare/auth.go`, `pat.go`,
`access.go`, `internal/api/server_control_auth.go`), **OAuth server and partner
integrations** (`oauth.go`, `partner.go`, `internal/api/server_oauth.go`,
`server_partner.go`). State: repository rows and two maps of one-time codes. A
request makes several repository calls; another process may work on the same rows
in between, so what protects it is a unique index or a conditional update.

**OIDC browser sessions** (`internal/oidc/browser_sessions.go`, `verifier.go`). A
record shared by processes, refreshed by whoever claimed its lease; a cache of the
provider's signing keys with one fetch at a time and a cooldown.

**KV, databases, object storage** (`internal/nanoflare/service.go`,
`internal/api/runtime_kv.go`, `server_kv.go`, `server_db.go`, `server_objects.go`).
A catalog per kind, values with expiry, usage counters, a cached sum the byte limit
is checked against, listing by cursor.

**Database files and replication** (`internal/database/sqlite.go`, `litestream.go`).
State: a file per database, the handles kept for them, the supervisor of a
replicating daemon with its configuration file. Operations: query, migrate, restore
to an earlier state, delete, register with the daemon. Hard: opening a database
fetches a missing file, creates it and registers it with the mutex released in
between, and deletion does not wait for any of it. Correct when nothing a client was
told is in a database is lost but by a restore, and one daemon replicates it.

**Workers and routing** (`internal/nanoflare/service.go`). Apps, deployments,
secrets frozen in artifacts, traffic, the gateway's cache with its version numbers.

**Platform namespaces, managed scripts, asset uploads** (`platform.go`,
`namespace_delete.go`, `management*.go`, `asset_upload*.go`, the edits of
`internal/api/server_cfcompat*.go`). Optimistic revisions on policies, scripts and
upload sessions; edits built from snapshots read without a lock; replay after a
crash; signed tokens that outlive what they name.

**Cron scheduler** (`cron.go`, `internal/runtime/scheduler.go`) and **duration
telemetry** (`internal/runtime/duration_telemetry.go`). A minute timer read late
against triggers that change; buckets written to one file by overlapping batches.

**Repositories** (`internal/nanoflare/*store.go`, `internal/database/*.go`). Two
implementations of one contract: Go maps with indexes kept by hand under a mutex,
and PostgreSQL rows under a schema's constraints. Most tests run on the first,
production on the second; both are modelled, call by call.

### How they interact

The service calls the repository and the runtime writer in sequence. The runtime
manager turns a published generation into grants: it registers every snapshot
with the execution server, publishes the grants, swaps its active set and retires
the old grants. Every invocation is admitted through the execution server, every
resource request takes an operation token, and object clean-up asks the registry
what is still referenced. The remaining parts meet in repository rows.

### Not modelled, and why

| Part | Reason |
|---|---|
| Egress policy, DNS resolver | classification of addresses and parsing of packets: pure functions of bytes, no state |
| Text of workerd and Traefik configuration, SQL text, schema migrations | generated text; what it makes the system do is in the modules |
| Command line, console, SDK packages | clients of the API |
| Tracing, logs, metrics, usage charts, percentile samples | best effort, nothing depends on them |
| Request decoding, shapes of the Cloudflare API, `settings.patch`, `If-Match` | translation in front of a modelled operation, or a precondition that only refuses more |
| Checks of token claims after the signature | pure comparisons |
| Session-less registry calls | only tests use them |

`PROJECT.json` lists every part with its status.

## 2. Modules

| Module | What it is |
|---|---|
| `ExecutionControl` | registry and server composed, with the two mutexes apart |
| `GrantLifecycle` | abstract specification of a grant, implemented by `ExecutionControl` |
| `MCExecutionControl` | instances for TLC |
| `ExecutionControl_proofs` | theorems about `ExecutionControl`; its refinement of `GrantLifecycle`, step by step |
| `Publication` | deploys, vars updates, traffic changes, replay, reconciliation, faults |
| `MCPublication` | instances for TLC |
| `Publication_proofs` | theorems about `Publication` |
| `RuntimePublication`, `MCRuntime` | publication, recovery and collection of the dynamic manager against the control plane's execution API; its instance |
| `InvocationLifetime` | admission, wrapper, broker and pin releases of invocations |
| `LegacyManager` | the static manager |
| `MCRunner` | the three above, one at a time |
| `Runner_proofs` | theorems about `RuntimePublication`, `InvocationLifetime` and `LegacyManager` |
| `IdentityRepository`, `OAuthRepository`, `ResourceRepository`, `NamespaceRepository` | repository calls as operators, `Store...` and `Pg...` |
| `Accounts`, `OAuthServer` | sign-in, organizations, access tokens; OAuth and partners |
| `Access_proofs` | theorems about the two and the repositories under them |
| `BrowserSessions`, `SigningKeys` | shared sessions; the verifier's key cache |
| `Dispatch`, `Dispatch_proofs` | roots, leases, effects, timers, the switch; theorems about them |
| `Storage`, `Workers`, `Namespaces` | resources; workers and routing; namespaces, managed scripts, uploads |
| `Platform_proofs` | theorems about `Namespaces` and `Workers` |
| `Storage_proofs` | theorems about `Storage` and the repositories' usage counters |
| `Scheduler`, `DurationTelemetry` | cron; duration statistics |
| `DatabaseFiles` | SQLite files, handles, replicas and the daemon's supervisor |
| `NodeServices_proofs` | theorems about `BrowserSessions`, `SigningKeys`, `Scheduler`, `DatabaseFiles` and `DurationTelemetry` |
| `MCAccess` | accounts, OAuth and dispatch, one at a time, for TLC |
| `MCPlatform` | storage, workers and namespaces, likewise |
| `MCNode` | sessions, keys, database files, telemetry and cron, likewise |

### ExecutionControl

`session`, `ttl` and `highWater` are `runtimeExecutionSession`; `pins`, `uses` and
`owners` the server's maps; `rev`, `tokens`, `registered` and `revoked` the
registry's. A grant id is a hash of session and registration in the code and the
pair itself here; tokens and pin ids of unsequenced calls come from random
generators and are drawn from sets whose members are used once. The content of a
snapshot is an identity plus the resources it declares.

Each handler is one action, since it holds `RuntimeExecutionServer.mu` from its
first check to its last write, with these exceptions, all taken from the code:

* `pin` is `PinCheck`, `PinAcquire`, then `PinKeep` or `PinAbort`;
* `closeSessionLocked` holds the mutex (`closing`) over one registry call per pin
  (`CloseReleasePin`) and a last one (`CloseRevoke`), and registry calls of
  others run in between;
* `Retire`, `AcquireResource` and `FinishResource` need only the registry's mutex.

Time is a countdown per session. Requests that are refused or repeated leave the
state alone and are not actions, except a refused sequenced admit, which moves
the watermark (`Admit` with its condition false). `released` is a history variable.

### GrantLifecycle

A grant is absent, prepared, published, draining or gone, never moves backwards,
has frozen content for as long as it or anything accepted under it needs it, and
tokens are issued once. Draining grants accept operations only while admitted
work remains. `ImplementsGrantLifecycle` maps the registry onto it; a grant whose
session is closed is gone even while its last operations finish.

### Publication

One worker, one operation at a time: `op` is the holder of `Service.configMu` and
of the repository's deployment lock, with a program counter at the next call that
has an effect. Every such call is an action that succeeds, fails without effect
or fails after it took effect; `Crash` can come between any two of them. The
history variables `chosen`, `undone` and `reverted` say who last set traffic and
what was rolled back by whom.

Abstractions, and why the properties survive them:

* Traffic is the set of deployments with a share. Publication and recovery ask
  whether a deployment has all of it, has a share, or whether traffic equals what
  was recorded. Two splits of different weight over the same deployments are
  therefore the same traffic here.
* A generation is only compared with the acknowledged one, so `acked` stands for
  the comparison. `WritePublication` is a runtime write (or commit) followed by
  the acknowledgment, with every outcome of the pair.
* The remote runner's own pending candidate, which a lost abort leaves behind,
  belongs to `RuntimePublication`. A commit that reaches the runner after the
  control process died is not modelled.
* Artifacts are unmanaged and there are no configuration-only uploads; secrets and
  deletion are in `Workers`, managed artifacts in `Namespaces`.

### The runner

`RuntimePublication` keeps the manager's fields in `dm`, its snapshots in `snap`
and the control plane's view of this runner in `control`. `job` is the holder of
`DynamicManager.publication` with a program counter at its next control call;
everything else runs between two of them. A control call succeeds, is lost, or
takes effect and loses its answer. `InvocationLifetime` has the broker's record,
the generated wrapper and the pin of each admission; answers and notifications can
be lost and arrive late. The control plane is reduced to this manager's grants and
pins; its own model is `ExecutionControl`. `LegacyManager` has pools and
candidates. The three share no variable and never call each other, so `MCRunner`
chooses one of them initially instead of exploring their product.

### Services over two repositories

In `Accounts`, `OAuthServer`, `Storage`, `Workers` and `Namespaces` a request is a
record with the name of its next step, suspended at every repository call. A call
is made on both repositories, whose answers are compared (`idAgreed`, `oaAgreed`,
`rsAgreed`, `wkAgreed`, `nsAgreed`), and the request continues with one of them.
The backends agree when the answers always did and every query answers the same.
Ids are the order of creation. Hashes, passwords and generated secrets are their
subject; time is two or a few instants; names and tags are small sets. A KV key is
a sequence of characters, since PostgreSQL lists by a `LIKE` pattern that must
escape some of them. A handler that only refuses is the false side of a guard.

In `Workers` a rollout of changed secrets makes one deployment after another: a
bundle of its own, then the artifact, then the row, and it may fail between any two
(`CloneFails`), which leaves what it made so far. `MaxWorkerFaults` bounds these
failures together with those of the runtime. The ids of deployments and bundles are
consecutive numbers, of which the proofs use only that a new one is new.

`Namespaces` treats a managed edit as a function on metadata (tags, secrets,
files) that is applied to the snapshot the request read. Vars edits start from the
active deployment and count as an upload, as in `reconcileDerivedManagement`.

`SigningKeys` replaces readings of the process clock by which verifications began
before a fetch and before a load, the only comparisons the code makes.
`Scheduler` reads and matches expressions with the code's ranges, steps and its rule
for day of month and day of week: a field written as just `*` is a wildcard, `*/1`
is not, and then the two days are alternatives. A step near 2^63, by which the
parser's loop would wrap around, is left out.

`DatabaseFiles` takes a file for an inode with names (the path, `.restore`,
`.pre-restore`): a handle keeps its inode whatever is renamed, which is what makes a
handle that outlives a restore dangerous. An inode includes its journal, and its
content is the set of statements that took effect. The supervisor's calls are
functions from its state to the outcomes they may have, since each runs under its
mutex; `litestream` itself is external: it copies what it finds at the path of a
database it knows, and restores a copy as one step.

The modules meet in repository rows only, and each has its own view of them, so
`MCAccess`, `MCPlatform` and `MCNode` choose a part initially, as `MCRunner` does,
with the seed that part needs.

## 3. Runs

All runs switch deadlock detection off: session, token and request ids are finite
sets whose members are used once, so an instance may come to rest.

| Run | Instance | What it shows |
|---|---|---|
| `execution_sessions` | 2 sessions, 1 grant each, 2 snapshots, 2 tokens, 2 pin calls | counts, protection, collection, revocation and cancellation; refinement of `GrantLifecycle` |
| `execution_liveness` | 2 sessions, 1 of everything else, fair | silent sessions are reclaimed, shutdown closes all |
| `publication_vars` | 1 deploy, 1 vars update, embedded runtime, 4 faults | records (`RecordsTruthful`) and recorded stages (`StagesTruthful`) agree with routing and runtime; startup settles everything |
| `publication_replay` | 2 deploys, remote runner, 2 faults | replays in any order yield to newer traffic |
| `publication_liveness` | 1 deploy, remote runner, 2 faults, fair | startup gets through, a lost runner is repaired |
| `replay_reverses_rollback` | 1 deploy, 1 fault | violation, see findings |
| `recovery_overwrites_selection` | 1 vars update, 2 faults | violation, see findings |
| `vars_recovery_wedge` | 1 vars update, 3 faults, fair | violation, see findings |
| `runner` | 3 Workers of which one cannot initialize and one is deleted, 3 sessions, 2 processes, 2 publications and a fault or 1 and 2; 2 admissions with 2 epochs; 4 pools, 2 publications; fair | routes are backed by grants of the session in force, nothing is stranded, the runner comes back; pins are exact and returned; the serving pool is the last commit |
| `access` | 2 threads, 2 addresses, 1 identity, up to 3 tokens; 2 clients and grants; 2 requests with 2 callers, leases of depth 1 and the switch | tokens redeemed once, one account per identity, one organization per partner account, leases bounded, holds returned, backends agree |
| `platform` | 2 threads, 2-5 requests per part, 3 keys, sizes 1 and 2 under a limit of 3, 1 crash or fault; KV requests that overlap, that do not, and that meet an expiry, in parts of their own | usage and limits (`UsageHeld`), listing, routing, frozen secrets, edits, uploads, backends agree |
| `node` | 2 threads; 4 browser requests, 2 refreshes and 1 crash; 2 tokens and 1 rotation; 3 database requests, or 2 and a creation, with 1 fault; 3 telemetry batches; 4 minutes around a month's 13th | sessions kept, refusals justified, databases kept (`DatabasesKept`), telemetry, triggers |

**Bounds.** Two sessions make one close while the other works; two tokens and two
pin calls let a pin call be overtaken by a close and by another call on the same
token; a session's authority is never shared with a second session, so a third adds
nothing the proofs do not already cover. One sequence number per session lets a
release overtake its admit; the watermark over several is left to the proof of
`CanceledStaysCanceled`. In `Publication` four faults are enough for a failed
write, a failed rollback, a crash during recovery and one more of any of them; two
deploys give a record that is older and one that is newer than current traffic.
Symmetry permutes ids that are only compared for equality and is used in safety
runs and the refinement check, never under fairness.
In `runner`, a publication can fail between its second and third grant, and a
second one finds what that left behind; a recovery can lose its session again. In
`access`, `platform` and `node` two threads give every pair of requests in every order of
their calls; a third would be needed only for a defect that takes three requests in
flight at once. Sizes 1 and 2 under a limit of 3 let an overwrite or an expiry decide
whether the next value fits; three changes in `Workers` are a create, a deploy and a
change that races a lookup. The calendar crosses midnight and a Sunday, and the
expressions have steps, lists, 7 for Sunday and both day fields. Three database
requests are a write, the restore that undoes it and a write after it, through a
handle opened before or after; the fault is a daemon or process that dies, or any
step that fails.

**Fairness.** `ExecutionControl`: time passes; the janitor expires sessions every
15 seconds and a ticker is not starved; a close that holds the mutex runs to its
end, as nothing in it blocks. Heartbeats, clients and runners get none.
`Publication`: an operation that holds the guard makes its next call; the
supervisor restarts a process that exited; the reconciliation tick gets the guard
infinitely often if it is infinitely often free (strong fairness, since Go's mutex
is handed over to waiters). Faults are bounded, so they stop: liveness says what
happens once calls succeed again.
The runner has one weak fairness over what never stands still in it: a job makes
its next call, a watcher takes up a recovery, a heartbeat notices a lost session;
a wrapper repeats an unanswered notification, user code ends (the runtime's limits
see to that), a queued release is flushed. Publishers, requests and faults get none,
and collection is not needed. `RunnerRecovers` excepts one case the code does not
recover from by itself: a published Worker deleted from the repository makes
registration refuse the last active set until another publication arrives.

`vars_recovery_wedge` checks `BootCompletes` with vars updates, and
`publication_liveness` the same property without: with deploys and traffic
changes alone startup always gets through, with an interrupted vars rollback it
may not.

## 4. Findings

1. **A replay can reverse a rollback** (`internal/nanoflare/publication.go:145`,
   run `replay_reverses_rollback`). Replay recognises an untouched starting point
   by comparing traffic with what the record found. After an activation whose
   outcome was not recorded, an operator's rollback to that traffic looks
   untouched, and the retry activates the revision again.
   `docs/architecture/workers-for-platforms.md:33` excludes that.
2. **Recovery can overwrite an operator's selection**
   (`internal/nanoflare/vars.go:217`, run `recovery_overwrites_selection`). A
   failed vars revision with all traffic is taken for unfinished rollback, also
   when an operator selected it since; the comment at `vars.go:201` promises
   otherwise.
3. **Startup can be wedged by an interrupted vars rollback**
   (`internal/nanoflare/vars.go:214`, `cmd/nanoflared/main.go:418`, run
   `vars_recovery_wedge`). While the failed revision is part of split traffic
   recovery returns an error, startup exits on it, and traffic cannot be changed
   because the listener is not open. The same happens when a publication's
   rollback names traffic whose deployment a vars rollback has deleted
   (`publication.go:118`).

### Known, stated as exceptions and not as findings

These follow from the code and contradict nothing it says; the properties make
room for them, by an exception or by what they leave out.

* A recovery that commits inside another one opens admission. When the outer one
  then fails, its session is given up under an invocation admitted meanwhile, which
  outlives it until the next recovery stops the process. `InvocationsOfSession`
  therefore speaks of a session in force.
* A hold on a dispatch root that expires and is swept by another request before
  its own end is not released by that root (`HoldsReturned`, `lost`).
* A renewal of activity can be overwritten by a refresh that read before it
  (`commitLeased`); the session then ends at its idle time counted from earlier.
* Overlapping writes can exceed the byte limit, and so can a fill of the usage cache
  that began before another request's adjustment (`ByteLimitHeld` is about requests
  that do not overlap). Object usage is exact only between requests that do not.
* Limits on clients, organizations and owners are checked and then acted on.
* Creating an organization and its owner are two calls; a crash between them leaves
  an organization without members.
* PostgreSQL reads the size of a KV value without a lock and changes the namespace's
  usage by the difference from it (`postgres.go:2606`, `2668`). Two puts of a new key
  count it twice; two deletes, or one and a purge, take it off twice. The store, under
  its mutex, does neither. `KVReadSize` and `KVWrite` are the two halves; the history
  variable `rsMiscounted` says that a value had another size by then, which excepts
  PostgreSQL's usage from `UsageHeld` and from `PlatformBackendsAgree`. It takes two
  requests at once, as `UsageHeld` says too.
* PostgreSQL looks for a partner connection by a plain `SELECT` and inserts what it did
  not find (`postgres.go:919-954`). Of two first provisions of one account that overlap,
  the second fails with the unique index's error, where the store answers the
  connection that exists. `AccessBackendsAgree` excepts that answer (`InsertConnection`);
  the rows stay the same, and a repeated request is answered.
* A refresh whose access token has no time left when it arrives is refused for good and
  ends the session (`browser_sessions.go:358`), though the provider would have renewed
  it; its life is counted from before the lease was claimed. `SessionKept` lists it
  among its exceptions (`excused`).
* A resource's use is checked outside the deployment guard, in PostgreSQL by a query
  before the `DELETE`, so a deploy can bind what is being deleted. Bindings do not change
  in the catalog's part of `Storage`, and the two are one step there.
* A legacy manager's new and old cron runner overlap for a moment at a commit.
* A call whose caller aborts during the start handshake is abandoned at the broker
  (`dynamic_manager.go:1002`), and a start that arrives later is accepted without
  counting again while the root has other work. That code then runs until its end
  after its root was given up, its pin with it; its requests are refused from then on.
  `RunningWorkPinned` excepts the first epoch of such a call (`revoked`).
* A database created, or opened without its file, while the daemon runs is put into
  the configuration before it is registered, and is then taken as known: the daemon
  learns of it at its next start only, where the repository's `README.md:949` has
  Litestream started or restarted as needed. A configuration that could not be
  written counts as written. `DatabasesKept` does not claim that what is
  acknowledged is replicated.
* A daemon that exits is started again by the next opening of a database that has no
  handle yet, or by a restore.
* `Delete` takes no part in `restoreMu`: an opening or a restore in flight can create
  the file of a deleted database again. Ids are random, so no other database meets it.
* A process that dies between the two renames of a restore comes back with what the
  replica had last.
* The wall clock is assumed not to be set back.

## 5. Proofs

Every theorem is about a specification of the form `Init /\ [][Next]_vars` and
holds for all values of the constants that satisfy the `ASSUME` of the component's
module. These say that bounds are naturals and that the values standing for "none"
are none of the real ones, and give the shape of inputs where TLC's instance is a
definition. A lease's time, a bucket's size and the window are assumed to be positive,
which they are (`internal/oidc/browser_sessions.go:328`,
`internal/runtime/duration_telemetry.go:16-18`), and durations not to be negative,
since events with a negative one are skipped (line 104). A bound is never assumed to be large or
small, so a theorem covers any number of requests, sessions, keys, faults and
restarts. Two hypotheses are stated with the theorems that need them.
`PlatformUpdates` asks for `MaxNsRequests` of at least 4, since the parts of the run
start with that many requests; the theorems about `NamespacesSpec` do not. Those of
`Storage_proofs` ask for a `ByteLimit` of at least 1, since an organization starts
with a value of one byte: one that is over its limit when it begins stays so. The
proofs assume no fairness and use no fact about an operator of the model that is not
proved.

| Module | Theorem | States |
|---|---|---|
| `ExecutionControl_proofs` | `TypeCorrect` | `TypeOK`; no counter ever goes below zero |
| | `ReferenceCounting` | `CountsExact` |
| | `Protection` | `AdmittedWorkProtected` |
| | `Collection` | `NoStrandedRevision` |
| | `Revocation` | `ClosedSessionHoldsNothing` |
| | `Cancellation` | `CanceledStaysCanceled` |
| | `Refinement` | `ImplementsGrantLifecycle` |
| `Publication_proofs` | `Truthful` | `RecordsTruthful` |
| | `StagesProved` | `StagesTruthful` |
| | `BootSettled` | `BootSettles` |
| | `ReplayProved` | `ReplayRespectsTraffic` |
| `Runner_proofs` | `RoutesProved` | `RoutesBacked` |
| | `InvocationsProved` | `InvocationsOfSession` |
| | `GrantsProved` | `GrantsAccounted` |
| | `PinsProved` | `PinsExact` |
| | `ServesCommitted` | `LegacyServesCommitted` |
| `Dispatch_proofs` | `LeasesProved` | `InvocationsBounded` |
| | `HoldsProved` | `HoldsReturned` |
| `NodeServices_proofs` | `RefusalsProved` | `RefusedMeansRetired` |
| | `SessionProved` | `SessionKept` |
| | `TriggersProved` | `TriggersOnce` |
| | `DatabasesProved` | `DatabasesKept` |
| | `TelemetryProved` | `TelemetryExact` |
| `Access_proofs` | `RefreshOnce` | `RefreshRedeemedOnce` |
| | `OneAccount` | `OneAccountPerIdentity` |
| | `OneOrganization` | `OneOrganizationPerAccount` |
| | `IdentitiesAgree`, `OAuthAgree` | the repositories agree, in either part |
| | `AccessAgree` | `AccessBackendsAgree` |
| `Platform_proofs` | `NoUpdateLost` | `NoLostUpdate` |
| | `AssetsBound` | `AssetsBoundOnce` |
| | `PlatformUpdates` | both, for the specification of the run |
| | `RoutesFollow` | `RoutingCurrent` |
| | `SecretsFrozen` | `ActiveSecretsStable` |
| | `PlatformRouting` | both, for the specification of the run |
| `Storage_proofs` | `UsageIsHeld` | `UsageHeld` |
| | `PlatformUsage` | the same, for the specification of the run |
| | `ListingIsComplete` | `ListingComplete` |

Each module also proves that its inductive invariant is an invariant (`Inductive`,
`RuntimeInductive`, `InvocationInductive`, `LegacyInductive`, `DispatchInductive`,
`SigningInductive`, `BrowserInductive`, `SchedulerInductive`, `FilesInductive`,
`TelemetryInductive`, `RefreshInvariant`, `AccountInvariant`, `OAuthInvariant`,
`NamespacesInvariant`, `WorkersInvariant`, `StorageInvariant`). The proof that a step keeps it has one lemma or step per
action, or per group of actions with one argument, and under it the conjuncts the
action can disturb. Why the checked properties are not inductive alone, and what
is added:

### ExecutionControl

That a release does not take a counter below zero needs the counts to be exact;
exact counts need every stored pin to hold a live admission of its own session;
that needs to know what a pin call between its critical sections may hold while its
session is closed. `IInv` is the conjunction of

* `TypeOK`;
* `RegistryInv`: `RevisionsSound` (counters agree with a revision's state, and it
  outlives its session only for operations), `TokensSound` (a held token has a
  grant and a pin, an admission's session is open), `LeaseCountsExact`;
* `ServerInv`: `PinsSound`, `CallsSound` (what a pin call in progress holds),
  `ReleasesSound` (a released admission is at or below the watermark),
  `ClosingSound`, `PinCountsExact`.

The argument goes in two layers. Lemmas about the registry's calls
(`ReleaseLeaseStep`, `NewAdmissionStep`, `AcquireResourceStep`,
`GrantStepPreserves`, `RevokeStep`) show that each preserves `RegistryInv` and say
which tokens it changed; lemmas about the server's maps (`StorePinSets`,
`ReleasePinStep`, `SamePins`) carry `ServerInv` over. One lemma per group of
actions puts the two together.

The refinement uses the same invariant: `GrantState` says what it tells of one
grant as the mapping shows it, and each handler's step is then a step of the one
grant it is about or, where it only moves the server's maps, a stutter. The
one step about many grants is the end of a session, which is `Revoke` of their set.

### Publication

A record is true of something else at each program counter, so `IInv` says what an
operation may rely on before each of its calls: `DeployOpSound` and `VarsOpSound`
give the stage and the traffic per counter, `ReconcileSound` that a reconciliation
has only settled operations behind it in the log. `RecordsSound` holds between
operations: the types, `AckedMeansServed`, `VarsOutcomeExact`, and that a
publication or update that restored traffic never leaves its way down
(`PublicationsSound`, `VarsSound`). A crash drops the operation and keeps
`RecordsSound`, which is all a replay starts from. That startup ends settled needs
the log to hold every publication that was ever begun, which is part of
`PublicationsSound`.

### RuntimePublication

`RuntimeInv` is about the keys the manager must not lose: those of the committed
routes, of the pending publication and, while a job builds and validates, its
candidates. Each has a registered record of the session in force that no collection
has marked (`KeysKept`, `MarksSound`), and the control plane holds its grant as long
as it knows that session (`GrantsRecorded`). `RoutesPublished` and `InvocationsHeld`
are the checked properties in the form that survives a recovery, `JobSound` says
what a step may rely on at each point of a job, and `BrokerFirst` that nothing
happens before a session was opened with the broker. Recoveries nest without bound
in the proof.

### InvocationLifetime

The parts of `PinsExact` support each other. A root's counter is exact
(`PendingExact`) only if an admission number is used once (`NumbersFresh`) and an
invocation belongs to an open root (`LiveSound`); that nothing stays pinned for
ever (`PinsAccounted`) needs both. `WrapperSound` ties the generated wrapper to the
broker's entry in each of its states; late answers are the ones it does not wait
for. The wrapper of a call that was abandoned before its start may still go through
that handshake; `revoked` remembers such admissions, and only their first epoch runs
without being counted.

### LegacyManager

A restart commits what it wanted when it was started, which may be old by then.
`RestartsCurrent` says that what a restart wants is what was committed last unless
the revision has moved on, and the code compares revisions before it commits.
`PoolsStarted` keeps the number of a new pool apart from every pool in a field.

### Dispatch

The contexts of Go form trees by their ancestors and end by deadline, by
cancellation or with an ancestor. The proof needs that a lease's deadline never
outlives its root's (`ContextsSound`, `LeasesBounded`), that the contexts of a
closed root are cancelled or due to be (`RootsCancelled`), and what a call between
its two looks at the tables may still assume (`CallsSound`). Two lemmas carry most
steps: `Steady` and `WorkKeeps`, by which contexts stay, a cancellation that is due
stays due, and a lease's end only ever moves earlier together with its context's.
`HoldsSound` counts, per root, releases made, release timers under way and holds
still waiting, which never sum to more than one. The start may be the empty table
or a root that is being served, as in the runs.

### SigningKeys

A rejection is final for a browser session, so it must rest on keys fetched after
the token was signed. `TokensOffered` says that the provider offers a token's key
or has retired it; `FetchSound` what a fetch that began after a verification knows;
`RejectsKnowing` the same of the cache; `ClockSound` relates the whole seconds the
code compares to the order of events.

### BrowserSessions

A refresh token works once, so the provider ends a session when two requests use
one token, or when the newest token is lost. `LoginFirst` says that nothing happens
before one callback has exchanged its code. `LeaseKept`: a request between claiming
the lease and committing is named by it, and while it lasts nobody else has changed
the refresh token it saw, because every write compares the owner. `TokenKept`:
unless a crash, a failure, an answer that came too late or a lease that ran out excuses
it, the newest refresh token is the record's, or is held by the one request about to commit it; so a
request under a lease asks the provider with a token that works. `SessionSound` and
`RequestsSound` keep every access token that is accepted, read or about to be stored
among the verified ones. Requests that hold no lease share one argument
(`QuietStep`), since they change nothing another request relies on.

### Scheduler

That a job runs in the minutes its expression asks for is a fact about the parser,
proved first for all expressions and times (`ReadsAsMeant`): an accepted item covers
the values it allows (`ItemRead`), a field those of its items (`FieldRead`), and the
rewriting of day 7 to day 0 and the two wildcards give the reference's rule. That a
minute is done once needs `MinutesPast`: what a runner has done is before the minute
its timer saw or aims at, because the next aim is after the clock's minute at the
time of the work.

### DatabaseFiles

`DatabasesKept` says where what clients were told is; a step can only keep that if the
file a handle writes to is the one that will be found by its name. `DatabaseSound`
says so for the handle that is kept, and that no file of a database is reachable by a
name of another (`Apart`), so a rename of one leaves the rest alone. `RequestSound`
gives what a request may rely on at each step: the handle it uses is of the file with
the name, a restore that renames has a fetched copy, no kept handle and nothing
promised. That rests on `restoreMu`: a restore is alone among the requests that read
(`RestoresAlone`). Creation and deletion do not take part in it, so they need reasons
of their own: a database that is being created is one nobody could have asked for
(`CreationSound`), and one that is deleted has no row. `DaemonsSound` allows at most
the daemon the supervisor started last and has not heard the end of. Steps on one
database share three frame lemmas, `FileStep`, `HandleStep` and `NameStep`, which say
when the other databases and the other requests are not disturbed.

### DurationTelemetry

`Counted` is the statement about the window in a form that holds of a snapshot too:
as time goes on buckets only leave the window (`WindowLater`), so what was exact when
it was written is exact when it is loaded. `SnapshotSound` says so of the file and of
what a batch is about to write, in either format. `OneWriter` and `WriterSound` are
what one temporary file needs: `persisting` admits one batch at a time, its snapshot
is newer than the file, and at the rename the temporary file is that snapshot. A sum
of durations is stated as the number of their units of time, so that it grows by the
theorems about cardinality and needs no recursion.

### Accounts

That two requests cannot rotate one refresh token needs little of the repositories:
`RefreshInv` says that a token a request is opening a session for was revoked by that
request and by no other, which is what the conditional update of `RevokeRefreshToken`
makes sure of, and that history has no other token obtained with it.

The uniqueness of accounts and the agreement of the backends rest on `AccountInv`.
`SameIdentities` says of every table that the rows of PostgreSQL are those of the
store, that the store's keys are their ids and that each index kept by hand is exact:
`usersByEmail` names every user by the address in its row, `patsByHash` every token by
its hash. `Held` says what a suspended request relies on: the user it signs in exists,
the copy of a token or an invitation differs from its row only in what may have been
settled since. As no call removes a user, an identity, an organization, a token or an
invitation, what is held is held after the calls of others (`Grows`, `HeldGrows`). One lemma per call
gives the same answer and the same rows on both sides (`Answered`), and a step of a
request then needs only that what it continues with is held.

### OAuthServer

`OAuthInv` has the same form: `SameOAuth` for clients, codes, tokens, integrations and
connections, `OAHeld` for the requests. The hard call is the provisioning of a partner
connection, one step of the store and two of PostgreSQL. The proof compares what the
insertion meets with what the store finds under its second index, by external account,
which is why a connection cannot be made twice: the rows that result are the same in
each case, and the answers differ only if another request was faster.

### Namespaces

`GrantsInv`: the grants a client means to write are those of the namespace with its
edit, unless the namespace has moved on to a later revision, so that the comparison of
revisions decides. `EditsInv` says the same of managed artifacts, which are derived
from a snapshot and written much later; it needs that a worker id is created once
(`Born`, `WorkersHeld`), or a script deleted and made again would accept an artifact of
its predecessor. `AssetsInv`: a session that somebody has used, or is building with, is
bound in its row to that worker for as long as the row is there.

### Workers

A change holds `configMu` from its first write to the last step of its undoing
(`JobsHoldConfigMu`), and `JobsInv` says what it may rely on in between: while the
runtime has not been told of a change, or has refused it, the traffic the request
remembers would bring back what the runtime was told last (`WUndoOK`). So `RoutesInv`,
that the runtime's routes follow the repository, holds whenever nobody is in the middle
of a change and no write was lost. Lookups take no lock; `CacheInv` says that a cached
entry, and an answer read under the version that is still current, is that of the
repository or belongs to a worker whose change will drop it. Bundles are kept for the
deployments that name them, which share one only within a worker (`WBundlesOK`), and an
active deployment has its own artifact before the secrets it would otherwise read
change (`WServingOK`).

### Storage

The counters are sums over rows, so the module begins with what the library's fold
over a finite set returns: two sums agree when their weights do (`SumTablesAgree`), a
member adds its weight, a subset of naturals sums to no more. They are shown by
well-founded induction over the subsets of a finite set, with the sets for which the
claim holds taken as a set (`BySubsets`), so that no theorem with an operator for a
parameter is needed.

`SgRows` says of both repositories that the metrics of every namespace are the bytes of
its values, expired ones included until a purge takes both, of PostgreSQL as long as no
write was overtaken (`rsMiscounted`); with it the first half of
`UsageHeld` holds however requests interleave. That one request alone is never overtaken
is part of `SgSerial`: the size it read is the size there is (`SgReadNow`). The rest is about requests that do not
overlap, so `SgInv` says what the only request knows: `SgValuesKnown` that what it will
write was asked for, that the answer it is about to put into the cache, and the cache
with the adjustment still to come, promise no more room than there is. As time passes
and values expire the live bytes only shrink (`SgFewerLive`), which is why an old sum
errs to the safe side. `SgObjectsKnown` says that the usage of the bucket, with what the
request still has to book, is what is stored, unless an upload behind the service came in
between; a crash, which leaves an adjustment undone and empties the cache, counts as one.

A listing needs its own invariant, `LsInv`: what a client has got so far rises in the
order of the keys (`LsRising`), its cursor is the last of it, and every key it is owed is
in the table, matches the escaped pattern of its prefix and has been seen or is still
ahead of the cursor (`LsWalk`). `InOrderIsOrdered` shows that any finite set of keys can
be put in order, again by well-founded induction over its subsets, `LsPages` what a page
then is: nothing more, the only key left, or the first of several with a cursor. So a
page adds a key that comes after all that were seen, skips none that is owed, and the
last one leaves none ahead. That no key is empty, which both ways into the table refuse,
is part of `StorageAssumption`: the empty cursor stands for the beginning.

### Only model-checked

* Liveness and everything that needs fairness, the liveness of `GrantLifecycle`
  included: temporal reasoning with fairness is out of the prover's reach.
* `PlatformBackendsAgree`: the metrics and sums of resources agree by the argument of
  `Storage` on each side, but that the sides hold the same rows, workers, namespaces and
  artifacts is not shown.
* The three disagreements of section 4, which are counterexamples.

## 6. What remains

The components of the inventory are modelled and checked, and every safety property a
run checks is a theorem but one, the agreement of the platform's backends. What would be worth adding, in the order of what it would say:

1. The agreement of the two repositories on resources, workers and namespaces, in the
   form of `SameIdentities`, with which the sums of usage follow.
2. The step from `Publication` to `RuntimePublication`: a commit that reaches the
   remote runner after the control process has died is in neither.
3. `Namespaces` and `Workers` over one set of rows, with managed artifacts rolled out.
