------------------------- MODULE RuntimePublication -------------------------
(***************************************************************************)
(* Publication, session recovery and snapshot collection of the dynamic    *)
(* runtime manager (internal/runtime/dynamic_manager.go) against the       *)
(* control plane's execution API.                                          *)
(*                                                                         *)
(* DynamicManager.publication lets one publisher or recovery run at a time *)
(* (job); DynamicManager.mu is only held between two control calls.  The   *)
(* collector, the heartbeat, the process watcher and admissions run beside *)
(* the job.  A control call may be lost before or after it took effect, the*)
(* control plane may forget every session, the process may exit.           *)
(*                                                                         *)
(* A revision stands for the frozen snapshot of one Worker's deployment; a *)
(* grant key names its session and a registration drawn fresh.  The control*)
(* plane is reduced to this manager's sessions and grants there (its own   *)
(* model is ExecutionControl).                                             *)
(***************************************************************************)
EXTENDS Naturals, FiniteSets

CONSTANTS
    Revisions,        \* frozen contents a publication can select
    Broken,           \* revisions whose module initialization fails
    Deletable,        \* revisions whose Worker can be deleted from the repository
    Publications,     \* operations publishers may start: kind, revisions, target
    NoRevision,
    MaxSessions,      \* bound on session ids remembered anywhere at a time
    MaxProcesses,     \* bound on process identities remembered at a time
    MaxDraws,         \* bound on registrations of one revision in one session
    MaxRunning,       \* bound on keys with admitted invocations
    Budgets           \* how many operations and faults (lost calls, exits, failed stops,
                      \* control restarts, deletions) one behaviour may have

ASSUME RuntimeAssumption ==
    /\ Broken \subseteq Revisions /\ Deletable \subseteq Revisions /\ NoRevision \notin Revisions
    /\ Publications \subseteq [kind : {"restore", "write", "prepare", "check"},
                              goal : SUBSET Revisions, target : Revisions \cup {NoRevision}]
    /\ MaxSessions \in Nat /\ MaxProcesses \in Nat /\ MaxDraws \in Nat /\ MaxRunning \in Nat
    /\ Budgets \subseteq [ops : Nat, faults : Nat]

VARIABLES
    dm,         \* the fields of DynamicManager
    snap,       \* DynamicManager.snapshots by key
    retiring,   \* keys a collection has marked and not yet retired
    job,        \* the holder of DynamicManager.publication
    watchers,   \* recoveries waiting for it, with the state each has observed
    control,    \* the control plane: live sessions, deleted Workers and grants
    left        \* operations and faults left

runtimeVars == <<dm, snap, retiring, job, watchers, control, left>>

\* ResourceGrantID(session, registration); session 0 is the empty string.
Keys == (0..MaxSessions) \X Revisions \X (1..MaxDraws)
SessionOfKey(k) == k[1]
RevisionOfKey(k) == k[2]

Absent == [known |-> FALSE, registered |-> FALSE, retired |-> FALSE, validated |-> FALSE, failed |-> FALSE]
NoPending == [open |-> FALSE, keys |-> {}, active |-> {}]

\* kind: the operation; rec: recoveries nested in it; old: the session a recovery replaces;
\* keys: candidates built; todo: what the current loop has left.
NoJob == [kind |-> "none", pc |-> "idle", goal |-> {}, target |-> NoRevision, rec |-> 0,
          old |-> 0, keys |-> {}, todo |-> {}]

\* NewDynamicManager: no broker, session or process until the first boot.
RuntimeInit ==
    /\ dm = [session |-> 0, process |-> 0, broker |-> FALSE, closed |-> FALSE, committed |-> {},
             active |-> {}, pending |-> NoPending, running |-> {}]
    /\ snap = [k \in Keys |-> Absent] /\ retiring = {} /\ job = NoJob /\ watchers = {}
    /\ control = [live |-> {}, deleted |-> {}, grant |-> [k \in Keys |-> "absent"]]
    /\ left \in Budgets

-----------------------------------------------------------------------------
(* Control calls.                                                          *)

Fault == left.faults > 0 /\ left' = [left EXCEPT !.faults = @ - 1]

\* control: a call that takes the control plane to next answers, or the request or
\* its answer is lost.
ControlCall(next, answered, lost) ==
    \/ control' = next /\ answered /\ UNCHANGED left
    \/ control' \in {control, next} /\ lost /\ Fault

KnownSession(s) == s \in control.live
Grant(k, g) == [control EXCEPT !.grant[k] = g]

\* close-session revokes every grant of the session.
CloseSession(s) ==
    [control EXCEPT !.live = @ \ {s},
                    !.grant = [k \in Keys |-> IF SessionOfKey(k) = s THEN "absent" ELSE @[k]]]

\* A session or process identity that is drawn is one nobody remembers.
Lowest(S) == {x \in S : \A y \in S : x <= y}
FreshSession ==
    Lowest({s \in 1..MaxSessions :
              /\ s \notin control.live \cup {dm.session} /\ \A w \in watchers : w.session # s
              /\ \A k \in Keys : SessionOfKey(k) = s =>
                    ~snap[k].known /\ k \notin retiring \cup dm.committed /\ control.grant[k] = "absent"})
FreshProcess == Lowest({p \in 1..MaxProcesses : p # dm.process /\ \A w \in watchers : w.process # p})

\* open-session: it answers, or the request or its answer is lost.
OpenSession(s, answered, lost) ==
    s \in FreshSession /\ ControlCall([control EXCEPT !.live = @ \cup {s}], answered, lost)

Goto(pc) == job' = [job EXCEPT !.pc = pc]

-----------------------------------------------------------------------------
(* Collection: collectSnapshots.                                           *)

\* DynamicManager.staging covers the candidates no pending publication owns yet.
Staging == job.pc \in {"build", "validate"} \/ (job.kind # "check" /\ job.pc = "stage")

Retained(d) == d.committed \cup d.pending.keys \cup d.running

\* Mutant: a collection does not wait for candidates nobody owns yet.
CollectableUnstaged(d) == {k \in Keys : snap[k].known /\ k \notin Retained(d)}

\* Keys that no committed route, pending publication or invocation retains.
Collectable(d) == IF Staging THEN {} ELSE {k \in Keys : snap[k].known /\ k \notin Retained(d)}

\* collectSnapshots marks what it will retire; the calls follow one by one.
Collect(ks) ==
    /\ snap' = [k \in Keys |-> IF k \in ks THEN [snap[k] EXCEPT !.retired = TRUE] ELSE snap[k]]
    /\ retiring' = retiring \cup ks

\* The collection after a heartbeat or a released pin.
CollectSnapshots ==
    /\ Collectable(dm) \ retiring # {}
    /\ Collect(Collectable(dm))
    /\ UNCHANGED <<dm, job, watchers, control, left>>

\* Mutant: the record goes away although its grant could not be retired.
RetireCollectedForgets(k) ==
    /\ k \in retiring
    /\ retiring' = retiring \ {k}
    /\ snap' = [snap EXCEPT ![k] = Absent]
    /\ IF KnownSession(SessionOfKey(k)) THEN ControlCall(Grant(k, "retired"), TRUE, TRUE)
       ELSE UNCHANGED <<control, left>>
    /\ UNCHANGED <<dm, job, watchers>>

\* A retirement the control plane answers drops the record; an unknown session is refused.
RetireCollected(k) ==
    /\ k \in retiring
    /\ retiring' = retiring \ {k}
    /\ IF KnownSession(SessionOfKey(k))
       THEN ControlCall(Grant(k, "retired"), snap' = [snap EXCEPT ![k] = Absent], UNCHANGED snap)
       ELSE UNCHANGED <<control, snap, left>>
    /\ UNCHANGED <<dm, job, watchers>>

-----------------------------------------------------------------------------
(* Prepare: prepareDynamic, boot, build and register.                      *)

\* The set the running prepareDynamic was called with, and whether it restores.
Goal == IF job.rec > 0 THEN dm.active ELSE job.goal
Restoring == job.rec > 0 \/ job.kind \in {"restore", "write"}

\* A publisher: Prepare or PrepareWorkerPublication (target), PrepareRestore, Write,
\* or ValidateWorkerPublication, which does not look at the session and is done at
\* once when there is nothing to run.
StartPublisher(p) ==
    /\ job = NoJob /\ ~dm.closed /\ left.ops > 0
    /\ p.goal \cap control.deleted = {} /\ (p.kind = "check" => p.goal # {} \/ dm.process # 0)
    /\ job' = [NoJob EXCEPT !.kind = p.kind, !.goal = p.goal, !.target = p.target,
                            !.pc = IF p.kind = "check" THEN "stage" ELSE "session"]
    /\ left' = [left EXCEPT !.ops = @ - 1]
    /\ UNCHANGED <<dm, snap, retiring, watchers, control>>

Recovering == job' = [job EXCEPT !.pc = "recover", !.rec = @ + 1]

\* A cleared session, or one the control plane refuses, is recovered first; any
\* other heartbeat error fails the call.
CheckSession ==
    /\ job.pc = "session"
    /\ \/ dm.session = 0 /\ dm.broker /\ Recovering /\ UNCHANGED left
       \/ dm.session = 0 /\ ~dm.broker /\ Goto("stage") /\ UNCHANGED left
       \/ dm.session # 0 /\ KnownSession(dm.session) /\ Goto("stage") /\ UNCHANGED left
       \/ dm.session # 0 /\ ~KnownSession(dm.session) /\ Recovering /\ UNCHANGED left
       \/ dm.session # 0 /\ Goto("fail") /\ Fault
    /\ UNCHANGED <<dm, snap, retiring, watchers, control>>

\* The candidates become DynamicManager.pending; Write and recovery go on to publish.
Hold(ks, acts) ==
    /\ dm' = [dm EXCEPT !.pending = [open |-> TRUE, keys |-> ks, active |-> acts]]
    /\ job' = IF job.rec > 0 \/ job.kind = "write" THEN [job EXCEPT !.pc = "route"] ELSE NoJob

\* A second publication is refused, and nothing to run needs no process.  Validation
\* alone starts at boot.
Refused == job.kind # "check" /\ dm.pending.open
NothingToRun == job.kind # "check" /\ ~dm.pending.open /\ Goal = {} /\ dm.process = 0
Booting == job.pc = "stage" /\ ~Refused /\ ~NothingToRun

Stage ==
    /\ job.pc = "stage"
    /\ \/ Refused /\ Goto("fail") /\ UNCHANGED dm
       \/ NothingToRun /\ Hold({}, {})
    /\ UNCHANGED <<snap, retiring, watchers, control, left>>

\* boot: a first session together with the broker, then the process.
BootBroker ==
    /\ Booting /\ dm.process = 0 /\ ~dm.broker
    /\ \E s \in FreshSession :
          LET opened == dm' = [dm EXCEPT !.session = s, !.broker = TRUE] /\ UNCHANGED job
          IN  OpenSession(s, opened, Goto("fail") /\ UNCHANGED dm)
    /\ UNCHANGED <<snap, retiring, watchers>>

\* A new process has validated nothing.
Boot ==
    /\ Booting /\ (dm.process # 0 \/ dm.broker)
    /\ LET built == [job EXCEPT !.pc = "build", !.keys = {}, !.todo = Goal] IN
       \/ /\ dm.process # 0 /\ job' = built /\ UNCHANGED <<dm, snap, left>>
       \/ /\ dm.process = 0 /\ job' = built /\ UNCHANGED left
          /\ \E p \in FreshProcess : dm' = [dm EXCEPT !.process = p]
          /\ snap' = [k \in Keys |-> [snap[k] EXCEPT !.validated = FALSE]]
       \/ dm.process = 0 /\ Goto("fail") /\ Fault /\ UNCHANGED <<dm, snap>>
    /\ UNCHANGED <<retiring, watchers, control>>

\* Snapshots of r that this session may reuse, and the next fresh registration.
Reusable(r) == {k \in Keys : /\ snap[k].known /\ ~snap[k].retired
                             /\ RevisionOfKey(k) = r /\ SessionOfKey(k) = dm.session}
Unused(r) == {n \in 1..MaxDraws : LET k == <<dm.session, r, n>> IN
                  ~snap[k].known /\ control.grant[k] = "absent" /\ k \notin retiring}

\* build and register: freeze the next Worker, reusing its snapshot where the session
\* has one.  Registration is refused for an unknown session and a deleted Worker.
Build(r) ==
    /\ job.pc = "build" /\ r \in job.todo
    /\ \E k \in IF Reusable(r) # {} THEN Reusable(r)
                ELSE {<<dm.session, r, n>> : n \in Lowest(Unused(r))} :
         LET known == [snap EXCEPT ![k] = [@ EXCEPT !.known = TRUE]]
             next == [job EXCEPT !.pc = "validate", !.todo = @ \ {r}, !.keys = @ \cup {k}] IN
         IF snap[k].registered THEN job' = next /\ UNCHANGED <<snap, control, left>>
         ELSE IF ~KnownSession(dm.session) \/ r \in control.deleted
         THEN snap' = known /\ Goto("fail") /\ UNCHANGED <<control, left>>
         ELSE ControlCall(Grant(k, "registered"),
                          snap' = [known EXCEPT ![k].registered = TRUE] /\ job' = next,
                          snap' = known /\ Goto("fail"))
    /\ UNCHANGED <<dm, retiring, watchers>>

\* The candidates this process has not validated.
Current == {k \in job.keys : ~snap[k].validated}

\* A broken Worker is tolerated on restore, and in a targeted publication when it is
\* another Worker whose committed snapshot was already unavailable.
AllowFailure(r) ==
    \/ Restoring
    \/ /\ job.target \notin {NoRevision, r}
       /\ \E k \in dm.committed : RevisionOfKey(k) = r /\ snap[k].failed

\* Validation in the process, then the next candidate or the pending record.
Validate ==
    /\ job.pc = "validate"
    /\ snap' = [k \in Keys |->
                  IF k \in Current /\ dm.process # 0 /\ (RevisionOfKey(k) \in Broken => AllowFailure(RevisionOfKey(k)))
                  THEN [snap[k] EXCEPT !.validated = TRUE, !.failed = RevisionOfKey(k) \in Broken]
                  ELSE snap[k]]
    /\ IF \/ Current # {} /\ dm.process = 0
          \/ \E k \in job.keys : RevisionOfKey(k) \in Broken /\ ~AllowFailure(RevisionOfKey(k))
       THEN Goto("fail") /\ UNCHANGED dm
       ELSE IF job.todo # {} THEN Goto("build") /\ UNCHANGED dm
       ELSE IF job.kind = "check" /\ job.rec = 0 THEN job' = NoJob /\ UNCHANGED dm
       ELSE Hold(job.keys, Goal)
    /\ UNCHANGED <<retiring, watchers, control, left>>

\* The validation request fails.
ValidateLost ==
    /\ job.pc = "validate" /\ Current # {}
    /\ Goto("fail") /\ Fault
    /\ UNCHANGED <<dm, snap, retiring, watchers, control>>

\* An empty candidate set has nothing to build.
BuildNothing ==
    /\ job.pc = "build" /\ job.todo = {}
    /\ IF job.kind = "check" /\ job.rec = 0 THEN job' = NoJob /\ UNCHANGED dm ELSE Hold({}, Goal)
    /\ UNCHANGED <<snap, retiring, watchers, control, left>>

-----------------------------------------------------------------------------
(* Commit, abort and the routing file.                                     *)

\* WriteTraefik between prepare and commit, in Write and in a recovery.
Route ==
    /\ job.pc = "route"
    /\ \/ /\ job' = [job EXCEPT !.pc = "publish", !.todo = {k \in dm.pending.keys : ~snap[k].failed}]
          /\ UNCHANGED <<dm, left>>
       \/ /\ Goto("fail") /\ Fault
          /\ dm' = IF job.rec > 0 THEN dm ELSE [dm EXCEPT !.pending = NoPending]
    /\ UNCHANGED <<snap, retiring, watchers, control>>

\* A recovery that failed on the routing file leaves its publication pending without a
\* session, and nobody knows that publication's id.
PendingKnown == dm.pending.open /\ (dm.session # 0 \/ ~dm.broker)

\* Commit of the pending publication; any other id is refused.
StartCommit ==
    /\ job = NoJob /\ ~dm.closed /\ PendingKnown
    /\ job' = [NoJob EXCEPT !.kind = "commit", !.pc = "publish",
                            !.todo = {k \in dm.pending.keys : ~snap[k].failed}]
    /\ UNCHANGED <<dm, snap, retiring, watchers, control, left>>

\* A grant that cannot be published ends the publication and collects its candidates.
Publish(k) ==
    LET dropped == [dm EXCEPT !.pending = NoPending]
        drop == dm' = dropped /\ Collect(Collectable(dropped)) /\ Goto("fail") IN
    /\ job.pc = "publish" /\ k \in job.todo
    /\ IF KnownSession(dm.session) /\ SessionOfKey(k) = dm.session /\ control.grant[k] \in {"registered", "published"}
       THEN ControlCall(Grant(k, "published"),
                        job' = [job EXCEPT !.todo = @ \ {k}] /\ UNCHANGED <<dm, snap, retiring>>, drop)
       ELSE drop /\ UNCHANGED <<control, left>>
    /\ UNCHANGED watchers

\* Keys of the previous publication the new one does not keep.
Replaced == dm.committed \ dm.pending.keys

\* Everything is published: the new routes become DynamicManager.committed.
Swap ==
    /\ job.pc = "publish" /\ job.todo = {}
    /\ dm' = [dm EXCEPT !.committed = dm.pending.keys, !.active = dm.pending.active, !.pending = NoPending]
    /\ job' = [job EXCEPT !.pc = "retire", !.todo = Replaced]
    /\ UNCHANGED <<snap, retiring, watchers, control, left>>

\* Retire the replaced grants; the first error returns without a collection.
RetireReplaced(k) ==
    /\ job.pc = "retire" /\ k \in job.todo
    /\ snap' = [snap EXCEPT ![k].retired = snap[k].known]
    /\ IF KnownSession(dm.session)
       THEN ControlCall(Grant(k, "retired"), job' = [job EXCEPT !.todo = @ \ {k}], Goto("fail"))
       ELSE Goto("fail") /\ UNCHANGED <<control, left>>
    /\ UNCHANGED <<dm, retiring, watchers>>

\* The publication succeeded.  A nested recovery returns to the prepare that needed it.
Committed ==
    /\ job.pc = "retire" /\ job.todo = {}
    /\ Collect(Collectable(dm))
    /\ job' = IF job.rec > 1 \/ (job.rec = 1 /\ job.kind \notin {"heartbeat", "watch"})
              THEN [job EXCEPT !.pc = "stage", !.rec = @ - 1, !.keys = {}] ELSE NoJob
    /\ UNCHANGED <<dm, watchers, control, left>>

Abort ==
    /\ job = NoJob /\ PendingKnown
    /\ dm' = [dm EXCEPT !.pending = NoPending]
    /\ Collect(Collectable(dm'))
    /\ UNCHANGED <<job, watchers, control, left>>

\* The operation returns an error.  A recovery gives up its new session, a strict
\* prepare collects its candidates, the process watcher will try again.
FailJob ==
    /\ job.pc = "fail"
    /\ IF job.rec > 0 /\ dm.session # 0
       THEN dm' = [dm EXCEPT !.session = 0] /\ ControlCall(CloseSession(dm.session), TRUE, TRUE)
       ELSE UNCHANGED <<dm, control, left>>
    /\ IF job.kind \in {"prepare", "check"} THEN Collect(Collectable(dm)) ELSE UNCHANGED <<snap, retiring>>
    /\ watchers' = IF job.kind = "watch"
                   THEN watchers \cup {[by |-> "watch", process |-> dm'.process, session |-> dm'.session]}
                   ELSE watchers
    /\ job' = NoJob

-----------------------------------------------------------------------------
(* Recovery: heartbeat, watchDynamic and recoverSession.                   *)

\* Mutant: the ticker skips a manager whose session a failed recovery has cleared.
HeartbeatFailsOnlyOpen ==
    /\ dm.session # 0
    /\ dm.broker /\ ~dm.closed /\ job.kind # "heartbeat" /\ \A w \in watchers : w.by # "heartbeat"
    /\ watchers' = watchers \cup {[by |-> "heartbeat", process |-> dm.process, session |-> dm.session]}
    /\ IF KnownSession(dm.session) THEN Fault ELSE UNCHANGED left
    /\ UNCHANGED <<dm, snap, retiring, job, control>>

\* A refused or lost heartbeat asks for a recovery of the state it has observed.
HeartbeatFails ==
    /\ dm.broker /\ ~dm.closed /\ job.kind # "heartbeat" /\ \A w \in watchers : w.by # "heartbeat"
    /\ watchers' = watchers \cup {[by |-> "heartbeat", process |-> dm.process, session |-> dm.session]}
    /\ IF KnownSession(dm.session) THEN Fault ELSE UNCHANGED left
    /\ UNCHANGED <<dm, snap, retiring, job, control>>

\* The process exits by itself; its watcher drops the invocations and asks for a restart.
ProcessExits ==
    /\ dm.process # 0 /\ Fault
    /\ dm' = [dm EXCEPT !.process = 0, !.running = {}]
    /\ watchers' = IF dm.closed THEN watchers
                   ELSE watchers \cup {[by |-> "watch", process |-> 0, session |-> dm.session]}
    /\ UNCHANGED <<snap, retiring, job, control>>

\* recoverSession: only the observed state is recovered.
TakeRecovery(w) ==
    /\ job = NoJob /\ w \in watchers
    /\ watchers' = watchers \ {w}
    /\ job' = IF ~dm.closed /\ dm.process = w.process /\ dm.session = w.session
              THEN [NoJob EXCEPT !.kind = w.by, !.pc = "recover", !.rec = 1] ELSE NoJob
    /\ UNCHANGED <<dm, snap, retiring, control, left>>

\* Mutant: the invocations of the lost session survive it.
ClearedKeepsInvocations == [dm EXCEPT !.process = 0, !.session = 0, !.pending = NoPending]

\* Admission stops and every invocation of the lost session is forgotten.
Cleared == [dm EXCEPT !.process = 0, !.session = 0, !.running = {}, !.pending = NoPending]

\* The old process is stopped; one that does not stop stays reachable, without a session.
Recover ==
    /\ job.pc = "recover"
    /\ \/ /\ dm' = Cleared /\ UNCHANGED left
          /\ job' = [job EXCEPT !.pc = "close", !.old = dm.session]
       \/ dm.process # 0 /\ dm' = [Cleared EXCEPT !.process = dm.process] /\ Goto("fail") /\ Fault
    /\ UNCHANGED <<snap, retiring, watchers, control>>

\* The old session is closed whether or not the call arrives.
CloseOld ==
    /\ job.pc = "close" /\ job' = [job EXCEPT !.pc = "open", !.old = 0]
    /\ IF job.old # 0 THEN ControlCall(CloseSession(job.old), TRUE, TRUE)
       ELSE UNCHANGED <<control, left>>
    /\ UNCHANGED <<dm, snap, retiring, watchers>>

\* A new session starts without snapshots and routes.
OpenNew ==
    /\ job.pc = "open"
    /\ \E s \in FreshSession :
          LET opened == /\ dm' = [dm EXCEPT !.session = s, !.committed = {}]
                        /\ snap' = [k \in Keys |-> Absent] /\ Goto("session")
          IN  OpenSession(s, opened, Goto("fail") /\ UNCHANGED <<dm, snap>>)
    /\ UNCHANGED <<retiring, watchers>>

-----------------------------------------------------------------------------
(* Requests, shutdown and the environment.                                 *)

\* Ensure and admitLocked: the committed key, under a session the control plane knows.
Ensure(k) ==
    /\ k \in dm.committed \ dm.running /\ Cardinality(dm.running) < MaxRunning
    /\ ~dm.closed /\ dm.process # 0 /\ dm.session # 0 /\ ~snap[k].failed
    /\ KnownSession(dm.session) /\ control.grant[k] = "published"
    /\ dm' = [dm EXCEPT !.running = @ \cup {k}]
    /\ UNCHANGED <<snap, retiring, job, watchers, control, left>>

\* The last invocation of k is released (its life is InvocationLifetime).
ReleaseLast(k) ==
    /\ k \in dm.running
    /\ dm' = [dm EXCEPT !.running = @ \ {k}]
    /\ UNCHANGED <<snap, retiring, job, watchers, control, left>>

Close ==
    /\ job = NoJob /\ ~dm.closed /\ dm.broker
    /\ dm' = [dm EXCEPT !.closed = TRUE, !.process = 0, !.pending = NoPending, !.running = {}]
    /\ IF dm.session # 0 THEN ControlCall(CloseSession(dm.session), TRUE, TRUE)
       ELSE UNCHANGED <<control, left>>
    /\ UNCHANGED <<snap, retiring, job, watchers>>

\* The control process restarts, or the sessions' leases run out.
ControlForgets ==
    /\ control.live # {} /\ Fault
    /\ control' = [control EXCEPT !.live = {}, !.grant = [k \in Keys |-> "absent"]]
    /\ UNCHANGED <<dm, snap, retiring, job, watchers>>

\* DeleteApp removes the Worker from the repository before the runtime is rewritten.
DeleteWorker(r) ==
    /\ r \in Deletable \ control.deleted /\ Fault
    /\ control' = [control EXCEPT !.deleted = @ \cup {r}]
    /\ UNCHANGED <<dm, snap, retiring, job, watchers>>
-----------------------------------------------------------------------------
\* The steps of the holder of DynamicManager.publication.
JobStep ==
    \/ CheckSession \/ Stage \/ BootBroker \/ Boot \/ BuildNothing \/ Validate \/ ValidateLost
    \/ Route \/ Swap \/ Committed \/ FailJob \/ Recover \/ CloseOld \/ OpenNew
    \/ \E r \in Revisions : Build(r)
    \/ \E k \in Keys : Publish(k) \/ RetireReplaced(k)

RuntimeNext ==
    \/ StartCommit \/ Abort \/ JobStep
    \/ CollectSnapshots \/ HeartbeatFails \/ ProcessExits \/ Close \/ ControlForgets
    \/ \E p \in Publications : StartPublisher(p)
    \/ \E w \in watchers : TakeRecovery(w)
    \/ \E k \in Keys : RetireCollected(k) \/ Ensure(k) \/ ReleaseLast(k)
    \/ \E r \in Revisions : DeleteWorker(r)

\* What never stands still: the holder of the lock goes on, recoveries get the lock, and
\* the ticker notices a refused session.
RuntimeProgress ==
    \/ JobStep
    \/ \E w \in watchers : TakeRecovery(w)
    \/ HeartbeatFails /\ ~KnownSession(dm.session)

RuntimeSpec == RuntimeInit /\ [][RuntimeNext]_runtimeVars /\ WF_runtimeVars(RuntimeProgress)

-----------------------------------------------------------------------------
(* Properties.                                                             *)

Admitting == dm.process # 0 /\ dm.session # 0 /\ ~dm.closed /\ KnownSession(dm.session)

\* While requests are admitted and the control plane knows the session, every
\* committed route of a working Worker has a live, published grant of this very
\* session, whatever collections, failed publications and recoveries ran beside it;
\* and what a pending publication needs has not been retired.
RoutesBacked ==
    Admitting =>
        /\ \A k \in dm.committed :
              /\ SessionOfKey(k) = dm.session /\ snap[k].known /\ ~snap[k].retired
              /\ snap[k].failed \/ control.grant[k] = "published"
        /\ \A k \in dm.pending.keys : snap[k].known /\ control.grant[k] \in {"registered", "published"}

\* "Never continue an old invocation under new grants": while a session is in force,
\* every invocation belongs to it, and no snapshot is collected under an invocation.
\* (An invocation can outlive its session: a recovery that commits inside another one
\* opens admission, and when the outer one fails the session is given up under it.)
InvocationsOfSession ==
    \A k \in dm.running : /\ dm.process # 0 /\ snap[k].known /\ k \notin retiring
                          /\ dm.session # 0 => SessionOfKey(k) = dm.session

\* A grant that is live in the session in force has a record here, so that some later
\* collection can still retire it; lost answers never strand one.
GrantsAccounted ==
    \A k \in Keys : SessionOfKey(k) = dm.session /\ dm.session # 0
                        /\ control.grant[k] \in {"registered", "published"} => snap[k].known

Serving == Admitting /\ {RevisionOfKey(k) : k \in dm.committed} = dm.active

\* Whatever exits, restarts, lost calls and failed stops happen, a manager that has
\* published keeps coming back to serving what it published, unless it is closed or
\* a published Worker has been deleted.
RunnerRecovers ==
    dm.active # {} ~> Serving \/ dm.closed \/ dm.active \cap control.deleted # {} \/ dm.active = {}
=============================================================================
