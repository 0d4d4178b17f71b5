----------------------------- MODULE Publication -----------------------------
(***************************************************************************)
(* Staged publication of one worker (internal/nanoflare/publication.go,    *)
(* worker_publication.go, vars.go, service.go): deploys, plain-variable    *)
(* updates and operator traffic changes as sequences of repository and     *)
(* runtime calls, their replay by idempotency key, and the reconciliation  *)
(* that a starting process and a restarted remote runner go through.       *)
(*                                                                         *)
(* Service.configMu and Repository.LockDeploymentUpdates let one operation *)
(* run at a time; the danger is in what an operation leaves behind when    *)
(* one of its calls fails or the process dies, and in what later           *)
(* operations make of that.  Every repository call may succeed, fail       *)
(* without effect or fail after it took effect; every runtime write may    *)
(* fail with the old or the new traffic in place; the process may die      *)
(* between any two calls.                                                  *)
(*                                                                         *)
(* Weighted traffic is abstracted to the set of deployments with a share,  *)
(* a generation number to whether the current one is acknowledged.         *)
(* Artifacts carry no management state and no configuration-only upload.   *)
(***************************************************************************)
EXTENDS Naturals, Sequences

CONSTANTS
    Deploys,    \* deploy requests (idempotency keys) and the deployments they create
    VarsKeys,   \* vars update requests and the revisions they create
    Base,       \* a deployment published before the story begins
    Embedded,   \* the runtime lives in the control process (no remote runner)
    MaxFaults,  \* bound on failed calls, crashes and runner restarts
    NoKey       \* no request

ASSUME PublicationAssumption ==
    /\ Embedded \in BOOLEAN /\ MaxFaults \in Nat
    /\ Deploys \cap VarsKeys = {} /\ Base \notin Deploys \cup VarsKeys
    /\ NoKey \notin Deploys \cup VarsKeys \cup {Base}

Deployments == Deploys \cup VarsKeys \cup {Base}

\* The runtime has no generation at all.
Lost == {NoKey}

VARIABLES
    stored,     \* the repository's deployments
    traffic,    \* the repository's routing: deployments with a traffic share
    acked,      \* PublishedGeneration = Generation
    runtime,    \* what the runtime admits new requests to
    pub,        \* Publication records by request key
    log,        \* request keys of the records in order of CreatedAt
    varsOps,    \* VarsUpdateOperation records by request key
    op,         \* the operation that holds the publication guard
    up,         \* the public listener is open
    repair,     \* the runner's boot identity is not acknowledged
    faults,     \* faults so far
    chosen,     \* history: an operator's successful request set the current traffic
    undone,     \* history: deployments an operator's successful request took out
    reverted    \* history: deployments their own operation rolled back

vars == <<stored, traffic, acked, runtime, pub, log, varsOps, op, up, repair,
          faults, chosen, undone, reverted>>
history == <<chosen, undone, reverted>>

Terminal == {"route_published", "failed", "superseded"}
Stages == {"none", "building", "stored", "runtime_ready", "activating", "rolling_back"}
              \cup Terminal
PCs == {"idle", "build", "saveStored", "failBuild", "prepare", "failPrepare", "saveReady",
        "saveActivating", "activate", "commit", "savePublished", "saveRollback", "restore",
        "republish", "saveFailed", "supersede", "republishTarget",
        "varsPublish", "varsIntent", "varsRestore", "varsDelete", "varsWrite", "varsFail",
        "varsRepublish", "varsSucceed", "varsStuck",
        "opValidate", "opUndo", "opWrite", "opRestore", "opRewrite",
        "scan", "scanVars", "finalWrite"}
Op == [by : {"none", "request", "boot", "repair"}, pc : PCs,
       key : Deploys \cup VarsKeys \cup {NoKey}, previous : SUBSET Deployments,
       next : Nat, resumed : BOOLEAN]

Idle == [by |-> "none", pc |-> "idle", key |-> NoKey, previous |-> {}, next |-> 1,
         resumed |-> FALSE]
Request(pc, k) == [Idle EXCEPT !.by = "request", !.pc = pc, !.key = k]

Init ==
    /\ stored \in {{}, {Base}} /\ traffic = stored
    /\ acked = TRUE /\ runtime = Lost
    /\ pub = [k \in Deploys |-> [stage |-> "none", previous |-> {}]]
    /\ log = <<>>
    /\ varsOps = [v \in VarsKeys |-> [status |-> "none", base |-> Base]]
    /\ op = Idle /\ up = FALSE /\ repair = FALSE
    /\ faults = 0 /\ chosen = FALSE /\ undone = {} /\ reverted = {}

-----------------------------------------------------------------------------
(* Calls and how an operation goes on after them.                          *)

At(pc) == op.pc = pc
Goto(pc) == op' = [op EXCEPT !.pc = pc] /\ UNCHANGED repair

\* The operation is over; reconciliation goes on with what it has left.
Return ==
    /\ op' = IF op.by = "request" THEN Idle
             ELSE [op EXCEPT !.pc = IF op.key \in VarsKeys THEN "scanVars" ELSE "scan",
                             !.key = NoKey, !.resumed = FALSE]
    /\ UNCHANGED repair

\* Mutant: a failed reconciliation counts as an acknowledged boot identity.
FailForgotten == op' = Idle /\ UNCHANGED repair

\* The operation fails.  A starting process exits, the runner's reconciliation
\* is tried again at its next tick.
Fail ==
    /\ op' = Idle
    /\ repair' = (repair \/ op.by = "repair")

Fault == faults < MaxFaults /\ faults' = faults + 1

\* SavePublication in stage s, then ok or bad.
SavePublication(k, s, ok, bad) ==
    LET saved == pub' = [pub EXCEPT ![k].stage = s] IN
    /\ \/ saved /\ ok /\ UNCHANGED faults
       \/ (saved \/ UNCHANGED pub) /\ bad /\ Fault
    /\ UNCHANGED <<stored, traffic, acked, runtime, log, varsOps, up, history>>

\* FinishVarsUpdate with status s, then ok or bad.
FinishVarsUpdate(v, s, ok, bad) ==
    LET saved == varsOps' = [varsOps EXCEPT ![v].status = s] IN
    /\ \/ saved /\ ok /\ UNCHANGED faults
       \/ (saved \/ UNCHANGED varsOps) /\ bad /\ Fault
    /\ UNCHANGED <<stored, traffic, acked, runtime, pub, log, up, history>>

\* SetActiveTraffic commits routing and a new generation together.  It refuses a
\* deployment that is not stored; a failed commit has an unknown outcome.
SetActiveTraffic(T, ok, bad) ==
    LET applied == traffic' = T /\ acked' = FALSE
        skipped == UNCHANGED <<traffic, acked>> IN
    /\ \/ T \subseteq stored /\ applied /\ ok /\ UNCHANGED faults
       \/ T \subseteq stored /\ (applied \/ skipped) /\ bad /\ Fault
       \/ ~(T \subseteq stored) /\ skipped /\ bad /\ UNCHANGED faults
    /\ chosen' = (chosen /\ traffic' = traffic)
    /\ UNCHANGED <<stored, runtime, pub, log, varsOps, up, undone>>

\* writePublication, and CommitPublication followed by its acknowledgment: the
\* runtime takes current routing, then the generation is acknowledged.
WritePublication(ok, bad) ==
    /\ \/ runtime' = traffic /\ acked' = TRUE /\ ok /\ UNCHANGED faults
       \/ runtime' \in {runtime, traffic} /\ UNCHANGED acked /\ bad /\ Fault
       \/ runtime' = traffic /\ acked' = TRUE /\ bad /\ Fault
    /\ UNCHANGED <<stored, traffic, pub, log, varsOps>>

-----------------------------------------------------------------------------
(* Deploy: buildAndPublishDeployment and publishStoredArtifact.            *)

key == op.key

\* The request is new: persist intent with the traffic it found.
BeginDeploy(k) ==
    LET saved == /\ pub' = [pub EXCEPT ![k] = [stage |-> "building", previous |-> traffic]]
                 /\ log' = Append(log, k) IN
    /\ op = Idle /\ up /\ pub[k].stage = "none"
    /\ \/ saved /\ op' = Request("build", k) /\ UNCHANGED faults
       \/ (saved \/ UNCHANGED <<pub, log>>) /\ UNCHANGED op /\ Fault
    /\ UNCHANGED <<stored, traffic, acked, runtime, varsOps, up, repair, history>>

\* Upload, freeze and store the immutable revision; bad input is refused here.
Build ==
    LET kept == stored' = stored \cup {key} IN
    /\ At("build")
    /\ \/ kept /\ Goto("saveStored") /\ UNCHANGED faults
       \/ UNCHANGED stored /\ Goto("failBuild") /\ UNCHANGED faults
       \/ kept /\ Goto("failBuild") /\ Fault
    /\ UNCHANGED <<traffic, acked, runtime, pub, log, varsOps, up, history>>

SaveStored ==
    /\ At("saveStored")
    /\ SavePublication(key, "stored", Goto("prepare"), Goto("failBuild"))

\* A record still in stage building is failed, as well as that can be saved: the
\* deferred function of buildAndPublishDeployment, and replay of such a record.
FailBuild ==
    /\ At("failBuild")
    /\ SavePublication(key, IF pub[key].stage = "building" THEN "failed" ELSE pub[key].stage,
                       Return, Return)

\* The runtime builds the candidate, or refuses it; a failed read returns early.
Prepare ==
    /\ At("prepare")
    /\ \/ Goto("saveReady") /\ UNCHANGED faults
       \/ Goto("failPrepare") /\ UNCHANGED faults
       \/ Fail /\ Fault
    /\ UNCHANGED <<stored, traffic, acked, runtime, pub, log, varsOps, up, history>>

\* Mutant: a refused candidate is not recorded.
FailPrepareUnsaved ==
    /\ At("failPrepare")
    /\ Fail
    /\ UNCHANGED <<stored, traffic, acked, runtime, pub, log, varsOps, up, faults, history>>

FailPrepare == At("failPrepare") /\ SavePublication(key, "failed", Fail, Fail)

SaveReady == At("saveReady") /\ SavePublication(key, "runtime_ready", Goto("saveActivating"), Fail)

SaveActivating ==
    At("saveActivating") /\ SavePublication(key, "activating", Goto("activate"), Fail)

Activate ==
    /\ At("activate")
    /\ SetActiveTraffic({key}, Goto("commit"), Fail)
    /\ UNCHANGED reverted

Commit ==
    /\ At("commit")
    /\ WritePublication(Goto("savePublished"), Goto("saveRollback"))
    /\ UNCHANGED <<up, history>>

SavePublished == At("savePublished") /\ SavePublication(key, "route_published", Return, Fail)

\* Mutant: traffic is restored without recording the intent first.
SaveRollbackSkipped ==
    /\ At("saveRollback")
    /\ Goto("restore")
    /\ UNCHANGED <<stored, traffic, acked, runtime, pub, log, varsOps, up, faults, history>>

SaveRollback ==
    /\ At("saveRollback")
    /\ SavePublication(key, "rolling_back", Goto("restore"), Fail)

Restore ==
    /\ At("restore")
    /\ SetActiveTraffic(pub[key].previous, Goto("republish"), Fail)
    /\ reverted' = IF traffic' = traffic THEN reverted ELSE reverted \cup {key}

Republish ==
    /\ At("republish")
    /\ WritePublication(Goto("saveFailed"), Fail)
    /\ UNCHANGED <<up, history>>

\* A resumed rollback ends in ErrPublicationFailed, which reconciliation expects;
\* the error of a first rollback makes it stop.
SaveFailed ==
    /\ At("saveFailed")
    /\ SavePublication(key, "failed", IF op.resumed THEN Return ELSE Fail, Fail)

-----------------------------------------------------------------------------
(* Replay of a publication that was interrupted.                           *)

\* Mutant: traffic that moved on is not looked at.
ReplayPCBlind(k) ==
    IF pub[k].stage = "building" THEN "failBuild"
    ELSE IF pub[k].stage = "rolling_back" THEN "restore"
    ELSE IF traffic = {k} THEN "republishTarget"
    ELSE "prepare"

\* replayPublication, for a record that is not terminal
ReplayPC(k) ==
    LET unmoved == traffic = pub[k].previous IN
    IF pub[k].stage = "building" THEN "failBuild"
    ELSE IF pub[k].stage = "rolling_back"
         THEN IF traffic = {k} \/ unmoved THEN "restore" ELSE "supersede"
    ELSE IF traffic = {k} THEN "republishTarget"
    ELSE IF unmoved THEN "prepare" ELSE "supersede"

Unfinished(k) == pub[k].stage \notin Terminal \cup {"none"}

\* The client repeats its request.
RetryDeploy(k) ==
    /\ op = Idle /\ up /\ Unfinished(k)
    /\ op' = [Request(ReplayPC(k), k) EXCEPT !.resumed = (pub[k].stage = "rolling_back")]
    /\ UNCHANGED <<stored, traffic, acked, runtime, pub, log, varsOps, up, repair, faults, history>>

Supersede == At("supersede") /\ SavePublication(key, "superseded", Return, Fail)

\* Mutant: traffic already selects the revision, so the runtime is taken for granted.
RepublishTargetTrusting ==
    /\ At("republishTarget")
    /\ Goto("savePublished")
    /\ UNCHANGED <<stored, traffic, acked, runtime, pub, log, varsOps, up, faults, history>>

RepublishTarget ==
    /\ At("republishTarget")
    /\ WritePublication(Goto("savePublished"), Fail)
    /\ UNCHANGED <<up, history>>

-----------------------------------------------------------------------------
(* Vars updates: UpdateVarsForOrg, rollbackDeployment, recoverVarsRollback. *)

\* BeginVarsUpdate stores, activates and records the pending outcome together.
BeginVars(v) ==
    LET begun == /\ stored' = stored \cup {v} /\ traffic' = {v} /\ acked' = FALSE
                 /\ varsOps' = [varsOps EXCEPT ![v].status = "pending",
                                               ![v].base = CHOOSE b \in traffic : TRUE]
                 /\ chosen' = FALSE IN
    /\ op = Idle /\ up /\ varsOps[v].status = "none"
    /\ \E b \in traffic : traffic = {b}
    /\ \/ begun /\ op' = Request("varsPublish", v) /\ UNCHANGED faults
       \/ begun /\ UNCHANGED op /\ Fault
    /\ UNCHANGED <<runtime, pub, log, up, repair, undone, reverted>>

VarsPublish ==
    /\ At("varsPublish")
    /\ WritePublication(Goto("varsSucceed"), Goto("varsIntent"))
    /\ UNCHANGED <<up, history>>

VarsIntent == At("varsIntent") /\ FinishVarsUpdate(key, "rolling_back", Goto("varsRestore"), Fail)

VarsRestore ==
    /\ At("varsRestore")
    /\ SetActiveTraffic({varsOps[key].base}, Goto("varsDelete"), Fail)
    /\ reverted' = IF traffic' = traffic THEN reverted ELSE reverted \cup {key}

\* DeleteDeployment, and the clean-up of objects nothing references any more
VarsDelete ==
    LET deleted == stored' = stored \ {key} /\ traffic' = traffic \ {key} IN
    /\ At("varsDelete")
    /\ \/ deleted /\ Goto("varsWrite") /\ UNCHANGED faults
       \/ (deleted \/ UNCHANGED <<stored, traffic>>) /\ Fail /\ Fault
    /\ UNCHANGED <<acked, runtime, pub, log, varsOps, up, history>>

VarsWrite ==
    /\ At("varsWrite")
    /\ WritePublication(Goto("varsFail"), Fail)
    /\ UNCHANGED <<up, history>>

VarsFail == At("varsFail") /\ FinishVarsUpdate(key, "failed", Return, Fail)

VarsRepublish ==
    /\ At("varsRepublish")
    /\ WritePublication(Goto("varsSucceed"), Fail)
    /\ UNCHANGED <<up, history>>

VarsSucceed == At("varsSucceed") /\ FinishVarsUpdate(key, "succeeded", Return, Fail)

\* recoverVarsRollback
VarsRollbackPC(v) ==
    IF v \in traffic THEN IF traffic = {v} THEN "varsRestore" ELSE "varsStuck"
    ELSE IF v \in stored THEN "varsDelete" ELSE "varsWrite"

\* The failed revision takes part in split traffic.
VarsStuck ==
    /\ At("varsStuck")
    /\ Fail
    /\ UNCHANGED <<stored, traffic, acked, runtime, pub, log, varsOps, up, faults, history>>

\* The client repeats its request.
RetryVars(v) ==
    /\ op = Idle /\ up /\ varsOps[v].status \in {"pending", "rolling_back"}
    /\ op' = Request(IF varsOps[v].status = "rolling_back" THEN VarsRollbackPC(v)
                     ELSE IF v \in stored THEN "varsRepublish" ELSE "varsWrite", v)
    /\ UNCHANGED <<stored, traffic, acked, runtime, pub, log, varsOps, up, repair, faults, history>>

-----------------------------------------------------------------------------
(* Operator traffic changes: SetDeploymentTraffic.                         *)

SetTraffic(T) ==
    /\ op = Idle /\ up /\ T # {} /\ T \subseteq stored
    /\ SetActiveTraffic(T, op' = [Request("opValidate", NoKey) EXCEPT !.previous = traffic],
                        UNCHANGED op)
    /\ UNCHANGED <<repair, reverted>>

OpValidate ==
    /\ At("opValidate")
    /\ \/ Goto("opWrite")
       \/ Goto("opUndo")
    /\ UNCHANGED <<stored, traffic, acked, runtime, pub, log, varsOps, up, faults, history>>

\* The selected revisions do not validate: routing goes back, the runtime never moved.
OpUndo ==
    /\ At("opUndo")
    /\ SetActiveTraffic(op.previous, Fail, Fail)
    /\ UNCHANGED reverted

OpWrite ==
    /\ At("opWrite")
    /\ WritePublication(Return, Goto("opRestore"))
    /\ chosen' = (op' = Idle)
    /\ undone' = IF op' = Idle THEN (undone \cup (op.previous \cap Deploys)) \ traffic ELSE undone
    /\ UNCHANGED <<up, reverted>>

OpRestore ==
    /\ At("opRestore")
    /\ SetActiveTraffic(op.previous, Goto("opRewrite"), Fail)
    /\ UNCHANGED reverted

OpRewrite ==
    /\ At("opRewrite")
    /\ WritePublication(Fail, Fail)
    /\ UNCHANGED <<up, history>>

-----------------------------------------------------------------------------
(* Reconciliation: ReconcileRuntime.                                       *)

\* The process starts and reconciles before it opens the public listener.
StartBoot ==
    /\ op = Idle /\ ~up
    /\ op' = [Idle EXCEPT !.by = "boot", !.pc = "scan"]
    /\ UNCHANGED <<stored, traffic, acked, runtime, pub, log, varsOps, up, repair, faults, history>>

\* StartReconciliation sees a boot identity it has not acknowledged.
StartRepair ==
    /\ op = Idle /\ up /\ repair
    /\ op' = [Idle EXCEPT !.by = "repair", !.pc = "scan"]
    /\ repair' = FALSE
    /\ UNCHANGED <<stored, traffic, acked, runtime, pub, log, varsOps, up, faults, history>>

\* recoverPublicationsLocked replays what is not terminal in order of creation.
Scan ==
    /\ At("scan")
    /\ \/ op.next > Len(log) /\ Goto("scanVars") /\ UNCHANGED faults
       \/ /\ op.next <= Len(log) /\ UNCHANGED <<repair, faults>>
          /\ LET k == log[op.next] IN
             op' = IF Unfinished(k)
                   THEN [op EXCEPT !.pc = ReplayPC(k), !.key = k, !.next = @ + 1,
                                   !.resumed = (pub[k].stage = "rolling_back")]
                   ELSE [op EXCEPT !.next = @ + 1]
       \/ Fail /\ Fault
    /\ UNCHANGED <<stored, traffic, acked, runtime, pub, log, varsOps, up, history>>

WithStatus(s) == {v \in VarsKeys : varsOps[v].status = s}

\* Mutant: pending outcomes are settled, rollbacks are not.
ScanVarsForgetsRollbacks ==
    /\ At("scanVars")
    /\ \/ /\ \E v \in WithStatus("pending") :
                 op' = [op EXCEPT !.pc = IF v \in stored THEN "varsSucceed" ELSE "varsFail",
                                  !.key = v]
          /\ UNCHANGED repair
       \/ WithStatus("pending") = {} /\ Goto("finalWrite")
    /\ UNCHANGED <<stored, traffic, acked, runtime, pub, log, varsOps, up, faults, history>>

\* recoverPendingVarsLocked: rollbacks first, then outcomes that are still pending.
ScanVars ==
    /\ At("scanVars")
    /\ \/ /\ \E v \in WithStatus("rolling_back") :
                 op' = [op EXCEPT !.pc = VarsRollbackPC(v), !.key = v]
          /\ UNCHANGED repair
       \/ /\ WithStatus("rolling_back") = {}
          /\ \E v \in WithStatus("pending") :
                 op' = [op EXCEPT !.pc = IF v \in stored THEN "varsSucceed" ELSE "varsFail",
                                  !.key = v]
          /\ UNCHANGED repair
       \/ WithStatus("rolling_back") \cup WithStatus("pending") = {} /\ Goto("finalWrite")
    /\ UNCHANGED <<stored, traffic, acked, runtime, pub, log, varsOps, up, faults, history>>

\* The runtime is rebuilt from current routing.  The reconciliation loop of a
\* remote runner starts with nothing acknowledged.
FinalWrite ==
    /\ At("finalWrite")
    /\ WritePublication(op' = Idle /\ up' = TRUE
                            /\ repair' = IF op.by = "boot" THEN ~Embedded ELSE repair,
                        Fail /\ UNCHANGED up)
    /\ UNCHANGED history

Crash ==
    /\ up \/ op # Idle
    /\ op' = Idle /\ up' = FALSE
    /\ runtime' = IF Embedded THEN Lost ELSE runtime
    /\ Fault
    /\ UNCHANGED <<stored, traffic, acked, pub, log, varsOps, repair, history>>

RunnerRestart ==
    /\ ~Embedded
    /\ runtime' = Lost /\ repair' = TRUE
    /\ Fault
    /\ UNCHANGED <<stored, traffic, acked, pub, log, varsOps, op, up, history>>

-----------------------------------------------------------------------------
DeployStep == Build \/ SaveStored \/ FailBuild \/ Prepare \/ FailPrepare \/ SaveReady
    \/ SaveActivating \/ Activate \/ Commit \/ SavePublished \/ SaveRollback \/ Restore
    \/ Republish \/ SaveFailed \/ Supersede \/ RepublishTarget
VarsStep == VarsPublish \/ VarsIntent \/ VarsRestore \/ VarsDelete \/ VarsWrite \/ VarsFail
    \/ VarsRepublish \/ VarsSucceed \/ VarsStuck
OperatorStep == OpValidate \/ OpUndo \/ OpWrite \/ OpRestore \/ OpRewrite
ReconcileStep == Scan \/ ScanVars \/ FinalWrite
OpStep == DeployStep \/ VarsStep \/ OperatorStep \/ ReconcileStep

Next ==
    \/ \E k \in Deploys : BeginDeploy(k) \/ RetryDeploy(k)
    \/ \E v \in VarsKeys : BeginVars(v) \/ RetryVars(v)
    \/ \E T \in SUBSET Deployments : SetTraffic(T)
    \/ StartBoot \/ StartRepair
    \/ OpStep
    \/ Crash \/ RunnerRestart

Spec == Init /\ [][Next]_vars

\* An operation that holds the guard makes progress, the supervisor restarts a
\* process that exited, and the reconciliation tick gets the guard in turn.
Fairness == WF_vars(OpStep) /\ WF_vars(StartBoot) /\ SF_vars(StartRepair)

FairSpec == Spec /\ Fairness

-----------------------------------------------------------------------------
(* Properties.                                                             *)

\* Every variable has its type.
TypeOK ==
    /\ stored \subseteq Deployments /\ traffic \subseteq stored
    /\ acked \in BOOLEAN /\ runtime \in (SUBSET Deployments) \cup {Lost}
    /\ pub \in [Deploys -> [stage : Stages, previous : SUBSET Deployments]]
    /\ log \in Seq(Deploys)
    /\ varsOps \in [VarsKeys -> [status : {"none", "pending", "rolling_back", "succeeded", "failed"},
                                 base : Deployments]]
    /\ op \in Op
    /\ up \in BOOLEAN /\ repair \in BOOLEAN /\ faults \in 0..MaxFaults
    /\ chosen \in BOOLEAN /\ undone \subseteq Deploys /\ reverted \subseteq Deployments

\* "PublishedGeneration is an ack only": whatever failed before, an acknowledged
\* generation is the one a running runtime serves.
AckedMeansServed == acked /\ runtime # Lost => runtime = traffic

\* Rollback intent is durable before routing changes, so no crash or failed call
\* turns an operation that rolled itself back into one reported as applied.
RolledBackNotReported ==
    /\ \A k \in reverted \cap Deploys : pub[k].stage # "route_published"
    /\ \A v \in reverted \cap VarsKeys : varsOps[v].status # "succeeded"

\* A vars update reported succeeded kept its revision, one reported failed left
\* none behind, and a revision only disappears under recorded rollback intent.
VarsOutcomeExact ==
    \A v \in VarsKeys :
        /\ varsOps[v].status \in {"pending", "succeeded"} => v \in stored
        /\ varsOps[v].status = "failed" => v \notin stored

\* The durable records never claim what is not so, wherever a call failed or the
\* process stopped: the acknowledged generation is served, what was rolled back is
\* not reported as applied, and a vars update left exactly what it reports.
RecordsTruthful == AckedMeansServed /\ RolledBackNotReported /\ VarsOutcomeExact

\* The stages of a publication are truthful when they are recorded, on the first
\* attempt and on every replay: route_published only while its revision has all
\* traffic, the generation is acknowledged and no other traffic is served; failed,
\* once past its build, only when its revision has no traffic, so that an unknown
\* outcome is never declared a failure.
StagesTruthful ==
    [][\A k \in Deploys :
          /\ pub[k].stage # "route_published" /\ pub'[k].stage = "route_published"
                => traffic = {k} /\ acked /\ runtime \in {{k}, Lost}
          /\ pub[k].stage \notin {"building", "failed"} /\ pub'[k].stage = "failed"
                => k \notin traffic]_vars

\* When the public listener opens no operation is half done: every record is
\* terminal (but one whose failed build could not be saved), and the runtime
\* serves current routing.
BootSettles ==
    [][~up /\ up' =>
          /\ acked' /\ runtime' = traffic'
          /\ \A k \in Deploys : pub[k].stage \in Terminal \cup {"none", "building"}
          /\ \A v \in VarsKeys : varsOps[v].status \in {"none", "succeeded", "failed"}]_vars

\* A publication, first run or replayed, only changes routing that is what it found
\* when it began or what it left itself: an allocation made in between supersedes it.
ReplayRespectsTraffic ==
    [][(At("activate") \/ At("restore")) /\ traffic' # traffic
          => traffic \in {{key}, pub[key].previous}]_vars

\* "Idempotent request replay recovers the original result without reversing
\* rollback": a publication does not activate
\* again what an operator took out.
ReplayKeepsRollback ==
    [][\A k \in undone : At("activate") /\ key = k => k \notin traffic']_vars

\* recoverVarsRollback "completes an interrupted rollback without overwriting a
\* subsequent deployment or traffic allocation".
RecoveryKeepsSelection ==
    [][At("varsRestore") /\ traffic' # traffic => ~chosen]_vars

\* Startup gets through: once calls stop failing a process that is down is
\* eventually serving again.
BootCompletes == ~up ~> up

\* A runner that lost its generation is eventually repaired, or is restarted again.
RunnerRepaired == runtime = Lost ~> runtime # Lost

=============================================================================
