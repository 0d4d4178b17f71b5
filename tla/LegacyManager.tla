---------------------------- MODULE LegacyManager ----------------------------
(***************************************************************************)
(* The static runtime manager (internal/runtime/manager.go): a publication *)
(* starts a whole new workerd process (pool) beside the serving one, commit*)
(* swaps them, the replaced pool drains and is stopped, and a watcher      *)
(* restarts a serving pool that exits.  Every method holds Manager.mu.     *)
(***************************************************************************)
EXTENDS Naturals, FiniteSets

CONSTANTS
    Inputs,         \* publication inputs (publicationInput), other than the empty one
    Dispatching,    \* inputs with a dispatch namespace binding
    NoInput,        \* the empty publication
    MaxPools,       \* bound on pools started
    MaxPublications, \* bound on publications committed by clients
    MaxLegacyFaults \* bound on exits and failed starts, writes and stops

ASSUME LegacyAssumption ==
    /\ Dispatching \subseteq Inputs /\ NoInput \notin Inputs
    /\ MaxPools \in Nat /\ MaxPublications \in Nat /\ MaxLegacyFaults \in Nat

Pools == 1..MaxPools
EmptyPool == MaxPools + 1   \* the pool without a process

VARIABLES
    lm,         \* fields of Manager; 0 is no pool
    pool,       \* the pools by generation
    draining,   \* replaced pools whose retirement waits
    restarts,   \* watchers about to restart what exited: desired input and revision
    served,     \* the publication committed last
    mishaps     \* faults so far

legacyVars == <<lm, pool, draining, restarts, served, mishaps>>

LegacyInit ==
    /\ lm = [active |-> 0, pending |-> 0, closed |-> FALSE, revision |-> 0, generation |-> 0]
    /\ pool = [g \in Pools \cup {EmptyPool} |-> [input |-> NoInput, st |-> "none"]]
    /\ draining = {} /\ restarts = {} /\ served = NoInput /\ mishaps = 0

Mishap == mishaps < MaxLegacyFaults /\ mishaps' = mishaps + 1

\* stop: out of livePools, the process ended.
StoppedPool(p, g) == IF g \in Pools THEN [p EXCEPT ![g].st = "stopped"] ELSE p

PoolRuns(g) == g \in Pools /\ pool[g].st = "running"

\* The pool a repeated prepare of the same input is answered with.
ReusedPool(i) ==
    {g \in {lm.pending} \ {0} : (g = EmptyPool \/ PoolRuns(g)) /\ pool[g].input = i}
        \cup {g \in {lm.active} : lm.pending = 0 /\ i \in Dispatching /\ PoolRuns(g) /\ pool[g].input = i}

\* prepare: reuse, or give up a stale pending pool and start a new one.  The result is
\* the manager's fields, the pools and whether it succeeded.
PreparedPool(i) ==
    LET freed == StoppedPool(pool, lm.pending)
        g == lm.generation + 1 IN
    IF ReusedPool(i) # {} THEN {[lm |-> lm, pool |-> pool, ok |-> TRUE, fault |-> FALSE]}
    ELSE {[lm |-> [lm EXCEPT !.pending = 0], pool |-> freed, ok |-> FALSE, fault |-> TRUE]} \cup
         (IF i = NoInput THEN {[lm |-> [lm EXCEPT !.pending = EmptyPool], pool |-> freed, ok |-> TRUE, fault |-> FALSE]}
          ELSE IF g > MaxPools THEN {}
          ELSE {[lm |-> [lm EXCEPT !.pending = g, !.generation = g], ok |-> TRUE, fault |-> FALSE,
                 pool |-> [freed EXCEPT ![g] = [input |-> i, st |-> "running"]]]})

\* commit of the pending pool: it serves, and the replaced pool drains.
PublishedPool(l) ==
    [l EXCEPT !.active = IF l.pending = EmptyPool THEN 0 ELSE l.pending, !.pending = 0,
              !.revision = @ + 1]
ReplacedPools(l) == draining \cup ({l.active} \ {0})

SpendMishap(fault) == IF fault THEN Mishap ELSE UNCHANGED mishaps

LegacyPrepare(i) ==
    /\ ~lm.closed
    /\ \E r \in PreparedPool(i) : lm' = r.lm /\ pool' = r.pool /\ SpendMishap(r.fault)
    /\ UNCHANGED <<draining, restarts, served>>

\* ValidatePublication aborts whatever is pending after a successful prepare.
ValidatePublication(i) ==
    /\ ~lm.closed
    /\ \E r \in PreparedPool(i) :
          /\ SpendMishap(r.fault)
          /\ IF r.ok THEN lm' = [r.lm EXCEPT !.pending = 0] /\ pool' = StoppedPool(r.pool, r.lm.pending)
             ELSE lm' = r.lm /\ pool' = r.pool
    /\ UNCHANGED <<draining, restarts, served>>

\* LegacyCommit(g): repeated for the serving pool it succeeds, for any other it is refused;
\* a configuration that cannot be written stops the candidate.
LegacyCommit(g) ==
    /\ ~lm.closed /\ lm.pending = g /\ g # 0 /\ lm.revision < MaxPublications
    /\ \/ /\ lm' = PublishedPool(lm) /\ draining' = ReplacedPools(lm)
          /\ served' = pool[g].input /\ UNCHANGED <<pool, mishaps>>
       \/ /\ Mishap /\ lm' = [lm EXCEPT !.pending = 0] /\ pool' = StoppedPool(pool, g)
          /\ UNCHANGED <<draining, served>>
    /\ UNCHANGED restarts

LegacyAbort(g) ==
    /\ lm.pending = g /\ g # 0
    /\ lm' = [lm EXCEPT !.pending = 0]
    /\ pool' = StoppedPool(pool, g)
    /\ UNCHANGED <<draining, restarts, served, mishaps>>

\* write: prepare, the routing file and commit under one lock; the routing file may fail.
\* A prepare that reuses the serving pool has nothing pending to commit.
LegacyWrite(i, ok) ==
    \E r \in PreparedPool(i) :
        \/ /\ ok /\ r.ok /\ SpendMishap(r.fault) /\ pool' = r.pool
           /\ IF r.lm.pending = 0 THEN lm' = r.lm /\ UNCHANGED draining
              ELSE lm' = PublishedPool(r.lm) /\ draining' = ReplacedPools(r.lm)
        \/ /\ ~ok /\ r.ok /\ ~r.fault /\ Mishap /\ pool' = StoppedPool(r.pool, r.lm.pending)
           /\ lm' = [r.lm EXCEPT !.pending = 0] /\ UNCHANGED draining
        \/ /\ ~ok /\ ~r.ok /\ Mishap /\ pool' = r.pool /\ lm' = r.lm /\ UNCHANGED draining

LegacyPublish(i) ==
    /\ ~lm.closed /\ lm.revision < MaxPublications
    /\ \E ok \in BOOLEAN : LegacyWrite(i, ok) /\ served' = (IF ok THEN i ELSE served)
    /\ UNCHANGED restarts

\* The process of a pool exits by itself.
PoolExits(g) ==
    /\ PoolRuns(g) /\ Mishap
    /\ pool' = [pool EXCEPT ![g].st = "exited"]
    /\ UNCHANGED <<lm, draining, restarts, served>>

\* watch: the serving pool exited and its contents are to be restarted.
WatchExit(g) ==
    /\ lm.active = g /\ pool[g].st = "exited" /\ ~lm.closed
    /\ lm' = [lm EXCEPT !.active = 0]
    /\ restarts' = restarts \cup {[desired |-> pool[g].input, revision |-> lm.revision]}
    /\ UNCHANGED <<pool, draining, served, mishaps>>

\* Mutant: a restart does not notice that a publication happened meanwhile.
SupersededNever(w) == lm.closed \/ lm.active # 0

\* The manager was closed, serves again, or something else was published since.
Superseded(w) == lm.closed \/ lm.active # 0 \/ lm.revision # w.revision

\* The restart loop: give way to a newer publication, or write the desired set again.
RestartPool(w) ==
    /\ w \in restarts
    /\ IF Superseded(w)
       THEN restarts' = restarts \ {w} /\ UNCHANGED <<lm, pool, draining, served, mishaps>>
       ELSE /\ \E ok \in BOOLEAN : /\ LegacyWrite(w.desired, ok)
                                   /\ restarts' = (IF ok THEN restarts \ {w} ELSE restarts)
            /\ UNCHANGED served

\* Retirement: drained, or the stop timeout passed.
RetirePool(g) ==
    /\ g \in draining
    /\ draining' = draining \ {g}
    /\ pool' = StoppedPool(pool, g)
    /\ UNCHANGED <<lm, restarts, served, mishaps>>

\* Close stops the pending and the serving pool.
LegacyClose ==
    /\ ~lm.closed
    /\ lm' = [lm EXCEPT !.closed = TRUE, !.active = 0, !.pending = 0]
    /\ pool' = StoppedPool(StoppedPool(pool, lm.pending), lm.active)
    /\ UNCHANGED <<draining, restarts, served, mishaps>>

LegacyNext ==
    \/ LegacyClose
    \/ \E i \in Inputs \cup {NoInput} : LegacyPrepare(i) \/ ValidatePublication(i) \/ LegacyPublish(i)
    \/ \E g \in Pools \cup {EmptyPool} : LegacyCommit(g) \/ LegacyAbort(g)
    \/ \E g \in Pools : PoolExits(g) \/ WatchExit(g) \/ RetirePool(g)
    \/ \E w \in restarts : RestartPool(w)

\* What never stands still: watchers notice an exit and restart loops keep trying.
LegacyProgress == (\E w \in restarts : RestartPool(w)) \/ \E g \in Pools : WatchExit(g)

LegacySpec == LegacyInit /\ [][LegacyNext]_legacyVars /\ WF_legacyVars(LegacyProgress)

-----------------------------------------------------------------------------
(* Properties.                                                             *)

\* Whatever exits, restarts, stale candidates and validations happen in between, the
\* serving pool holds the publication committed last: a restart never brings back
\* what a later commit replaced.
LegacyServesCommitted == lm.active # 0 => pool[lm.active].input = served

=============================================================================
