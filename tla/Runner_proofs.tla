----------------------------- MODULE Runner_proofs -----------------------------
(***************************************************************************)
(* Proofs about the runner's three models: the dynamic manager, the life   *)
(* of its invocations, and the static manager.  They share no variable and *)
(* each has a specification of its own, proved about in its own section.   *)
(***************************************************************************)
EXTENDS LegacyManager, InvocationLifetime, RuntimePublication, FiniteSetTheorems, TLAPS

-----------------------------------------------------------------------------
(* The static manager, for any number of pools, publications, exits,       *)
(* failed starts and restarts.                                             *)

AnyInput == Inputs \cup {NoInput}
PoolStates == {"none", "running", "exited", "stopped"}
Fields == [active : 0..MaxPools, pending : 0..(MaxPools + 1), closed : BOOLEAN,
           revision : Nat, generation : 0..MaxPools]
PoolTable == [Pools \cup {EmptyPool} -> [input : AnyInput, st : PoolStates]]

\* Every variable the argument uses has its type.
LegacyTyped ==
    /\ lm \in Fields /\ pool \in PoolTable
    /\ draining \subseteq Pools /\ served \in AnyInput
    /\ restarts \subseteq [desired : AnyInput, revision : Nat]

\* A pool in a field was started, so that a new pool is never one of them.
PoolsStarted ==
    /\ lm.active <= lm.generation
    /\ lm.pending \in Pools => lm.pending <= lm.generation
    /\ pool[EmptyPool].input = NoInput

\* What a restart wants is what was committed last, unless something was committed
\* since: every commit has a revision of its own.
RestartsCurrent ==
    \A w \in restarts :
        /\ w.revision <= lm.revision
        /\ w.revision = lm.revision => w.desired = served

LegacyInv == LegacyTyped /\ PoolsStarted /\ RestartsCurrent /\ LegacyServesCommitted

-----------------------------------------------------------------------------

\* Arithmetic of the pool numbers.
LEMMA PoolNumbers ==
    /\ MaxPools \in Nat /\ EmptyPool \notin Pools /\ EmptyPool = MaxPools + 1
    /\ Pools \subseteq 0..MaxPools /\ Pools \cup {EmptyPool} = (0..(MaxPools + 1)) \ {0}
    /\ 0 \notin Pools /\ EmptyPool # 0
    /\ (0..MaxPools) \ {0} = Pools
BY LegacyAssumption DEF Pools, EmptyPool

\* Stopping a pool leaves the contents of every pool.
LEMMA StopKeepsInputs ==
    ASSUME NEW p \in PoolTable, NEW g \in 0..(MaxPools + 1)
    PROVE  /\ StoppedPool(p, g) \in PoolTable
           /\ \A h \in Pools \cup {EmptyPool} : StoppedPool(p, g)[h].input = p[h].input
BY DEF StoppedPool, PoolTable, PoolStates

\* A prepare leaves the serving pool, and a prepared pool holds the input asked for;
\* with none prepared the serving pool holds it.
LEMMA PrepareKeepsServing ==
    ASSUME LegacyTyped, PoolsStarted, NEW i \in AnyInput, NEW r \in PreparedPool(i)
    PROVE  /\ r.lm \in Fields /\ r.pool \in PoolTable
           /\ r.lm.active = lm.active /\ r.lm.closed = lm.closed
           /\ r.lm.revision = lm.revision
           /\ r.lm.generation >= lm.generation
           /\ r.lm.pending \in Pools => r.lm.pending <= r.lm.generation
           /\ r.pool[EmptyPool].input = NoInput
           /\ lm.active # 0 => r.pool[lm.active].input = pool[lm.active].input
           /\ r.ok /\ r.lm.pending # 0 => r.pool[r.lm.pending].input = i
           /\ r.ok /\ r.lm.pending = 0 => lm.active # 0 /\ pool[lm.active].input = i
<1> DEFINE freed == StoppedPool(pool, lm.pending)
           g == lm.generation + 1
<1> USE PoolNumbers
<1>1. /\ freed \in PoolTable
      /\ \A h \in Pools \cup {EmptyPool} : freed[h].input = pool[h].input
    BY StopKeepsInputs DEF LegacyTyped, Fields
<1>2. /\ lm \in Fields /\ lm.active \in 0..MaxPools /\ lm.pending \in 0..(MaxPools + 1)
      /\ lm.generation \in 0..MaxPools /\ lm.revision \in Nat /\ lm.closed \in BOOLEAN
    BY DEF LegacyTyped, Fields
<1>3. lm.active # 0 => lm.active \in Pools /\ lm.active # EmptyPool /\ lm.active # g
    BY <1>2 DEF PoolsStarted
<1>4. CASE r = [lm |-> lm, pool |-> pool, ok |-> TRUE, fault |-> FALSE] /\ ReusedPool(i) # {}
    BY <1>4, <1>2 DEF ReusedPool, PoolRuns, LegacyTyped, PoolsStarted
<1>5. CASE r = [lm |-> [lm EXCEPT !.pending = 0], pool |-> freed, ok |-> FALSE, fault |-> TRUE]
    BY <1>5, <1>2, <1>1, <1>3 DEF Fields, PoolsStarted
<1>6. CASE /\ i = NoInput
           /\ r = [lm |-> [lm EXCEPT !.pending = EmptyPool], pool |-> freed, ok |-> TRUE, fault |-> FALSE]
    BY <1>6, <1>2, <1>1, <1>3 DEF Fields, PoolsStarted
<1>7. CASE /\ g <= MaxPools
           /\ r = [lm |-> [lm EXCEPT !.pending = g, !.generation = g], ok |-> TRUE, fault |-> FALSE,
                   pool |-> [freed EXCEPT ![g] = [input |-> i, st |-> "running"]]]
  <2>1. /\ r.lm = [lm EXCEPT !.pending = g, !.generation = g]
        /\ r.pool = [freed EXCEPT ![g] = [input |-> i, st |-> "running"]]
    BY <1>7
  <2>2. g \in Pools /\ g # EmptyPool /\ g # 0
    BY <1>2, <1>7 DEF Pools, EmptyPool
  <2>3. /\ r.lm \in Fields /\ r.lm.pending = g /\ r.lm.generation = g /\ r.lm.active = lm.active
        /\ r.lm.closed = lm.closed /\ r.lm.revision = lm.revision
    BY <1>2, <1>7, <2>1, <2>2 DEF Fields
  <2> HIDE DEF freed
  <2>4. r.pool \in PoolTable
    BY <1>1, <2>1, <2>2 DEF PoolTable, PoolStates
  <2>5. /\ r.pool[g].input = i
        /\ \A h \in (Pools \cup {EmptyPool}) \ {g} : r.pool[h].input = pool[h].input
    BY <1>1, <2>1, <2>2 DEF PoolTable
  <2> QED
    BY <1>2, <1>3, <2>2, <2>3, <2>4, <2>5 DEF PoolsStarted
<1> QED
    BY <1>4, <1>5, <1>6, <1>7, <1>2 DEF PreparedPool

\* The commit of a prepared pool keeps the fields typed.
LEMMA CommitTyped ==
    ASSUME LegacyTyped, NEW l \in Fields
    PROVE  /\ PublishedPool(l) \in Fields
           /\ PublishedPool(l).active = IF l.pending = EmptyPool THEN 0 ELSE l.pending
           /\ PublishedPool(l).pending = 0
           /\ PublishedPool(l).revision = l.revision + 1
           /\ PublishedPool(l).generation = l.generation
           /\ ReplacedPools(l) \subseteq Pools
<1>1. l.active \in 0..MaxPools /\ l.pending \in 0..(MaxPools + 1) /\ l.revision \in Nat
    BY DEF Fields
<1> DEFINE a == IF l.pending = EmptyPool THEN 0 ELSE l.pending
<1>2. a \in 0..MaxPools /\ 0 \in 0..(MaxPools + 1)
    BY <1>1, PoolNumbers
<1>3. PublishedPool(l) = [l EXCEPT !.active = a, !.pending = 0, !.revision = l.revision + 1]
    BY DEF PublishedPool, Fields
<1> HIDE DEF a
<1>4. /\ PublishedPool(l) \in Fields
      /\ PublishedPool(l).active = a
      /\ PublishedPool(l).pending = 0
      /\ PublishedPool(l).revision = l.revision + 1
      /\ PublishedPool(l).generation = l.generation
  <2>1. l.revision + 1 \in Nat
    BY <1>1
  <2>2. PublishedPool(l) \in Fields
    BY <1>2, <1>3, <2>1 DEF Fields
  <2> QED
    BY <1>3, <2>2 DEF Fields
<1>5. l.active # 0 => l.active \in Pools
    BY <1>1, PoolNumbers
<1>6. ReplacedPools(l) \subseteq Pools
    BY <1>5 DEF ReplacedPools, LegacyTyped
<1> QED
    BY <1>4, <1>6 DEF a

\* A write, by a client or by a restart of what was committed last.
LEMMA WriteSound ==
    ASSUME LegacyInv, NEW i \in AnyInput, NEW ok \in BOOLEAN, LegacyWrite(i, ok),
           served' = (IF ok THEN i ELSE served), restarts' \subseteq restarts
    PROVE  LegacyInv'
<1> USE PoolNumbers
<1>1. LegacyTyped /\ PoolsStarted /\ RestartsCurrent /\ LegacyServesCommitted
    BY DEF LegacyInv
<1>2. PICK r \in PreparedPool(i) :
        \/ /\ ok /\ r.ok /\ pool' = r.pool
           /\ IF r.lm.pending = 0 THEN lm' = r.lm /\ UNCHANGED draining
              ELSE lm' = PublishedPool(r.lm) /\ draining' = ReplacedPools(r.lm)
        \/ /\ ~ok /\ pool' = StoppedPool(r.pool, r.lm.pending)
           /\ lm' = [r.lm EXCEPT !.pending = 0] /\ UNCHANGED draining
        \/ ~ok /\ pool' = r.pool /\ lm' = r.lm /\ UNCHANGED draining
    BY DEF LegacyWrite
<1>3. /\ r.lm \in Fields /\ r.pool \in PoolTable
      /\ r.lm.active = lm.active /\ r.lm.revision = lm.revision
      /\ r.lm.generation >= lm.generation
      /\ r.lm.pending \in Pools => r.lm.pending <= r.lm.generation
      /\ r.pool[EmptyPool].input = NoInput
      /\ lm.active # 0 => r.pool[lm.active].input = pool[lm.active].input
      /\ r.ok /\ r.lm.pending # 0 => r.pool[r.lm.pending].input = i
      /\ r.ok /\ r.lm.pending = 0 => lm.active # 0 /\ pool[lm.active].input = i
    BY <1>1, PrepareKeepsServing
<1>4. /\ r.lm.pending \in 0..(MaxPools + 1) /\ r.lm.revision \in Nat /\ lm.revision \in Nat
      /\ r.lm.generation \in 0..MaxPools /\ lm.generation \in 0..MaxPools
      /\ lm.active \in 0..MaxPools
      /\ served' \in AnyInput /\ restarts' \subseteq [desired : AnyInput, revision : Nat]
    BY <1>1, <1>3 DEF LegacyTyped, Fields
<1>5. lm.active # 0 => lm.active \in Pools
    BY <1>4
<1>6. CASE /\ ok /\ r.ok /\ pool' = r.pool /\ r.lm.pending # 0
           /\ lm' = PublishedPool(r.lm) /\ draining' = ReplacedPools(r.lm)
    BY <1>1, <1>3, <1>6, CommitTyped, <1>4 DEF LegacyTyped, PoolsStarted, RestartsCurrent,
       LegacyServesCommitted, LegacyInv
<1>7. CASE ok /\ r.ok /\ pool' = r.pool /\ r.lm.pending = 0 /\ lm' = r.lm /\ UNCHANGED draining
    BY <1>1, <1>3, <1>7, <1>4 DEF LegacyServesCommitted, LegacyTyped, PoolsStarted,
       RestartsCurrent, LegacyInv
<1>8. CASE ~ok /\ UNCHANGED draining /\
           \/ pool' = StoppedPool(r.pool, r.lm.pending) /\ lm' = [r.lm EXCEPT !.pending = 0]
           \/ pool' = r.pool /\ lm' = r.lm
  <2>1. /\ pool' \in PoolTable
        /\ \A h \in Pools \cup {EmptyPool} : pool'[h].input = r.pool[h].input
    <3>1. CASE pool' = StoppedPool(r.pool, r.lm.pending)
      <4>1. /\ StoppedPool(r.pool, r.lm.pending) \in PoolTable
            /\ \A h \in Pools \cup {EmptyPool} :
                  StoppedPool(r.pool, r.lm.pending)[h].input = r.pool[h].input
        BY <1>3, <1>4, StopKeepsInputs
      <4> QED
        BY <3>1, <4>1
    <3>2. CASE pool' = r.pool
      BY <1>3, <3>2
    <3> QED
      BY <1>8, <3>1, <3>2
  <2>2. /\ lm' \in Fields /\ lm'.active = lm.active /\ lm'.revision = lm.revision
        /\ lm'.generation = r.lm.generation /\ lm'.pending \in {0, r.lm.pending}
    BY <1>3, <1>8 DEF Fields
  <2>3. served' = served
    BY <1>8
  <2>4. LegacyTyped'
    BY <1>1, <1>4, <1>8, <2>1, <2>2 DEF LegacyTyped
  <2>5. PoolsStarted'
    BY <1>1, <1>3, <1>4, <2>1, <2>2 DEF PoolsStarted
  <2>6. RestartsCurrent' /\ LegacyServesCommitted'
    BY <1>1, <1>3, <1>5, <2>1, <2>2, <2>3 DEF RestartsCurrent, LegacyServesCommitted
  <2> QED
    BY <2>4, <2>5, <2>6 DEF LegacyInv
<1> QED
    BY <1>2, <1>6, <1>7, <1>8

\* A step that keeps the contents of the pools, the revision and the committed
\* publication, and changes which pool serves only to none.
LEMMA QuietSound ==
    ASSUME LegacyInv, lm' \in Fields, pool' \in PoolTable, draining' \subseteq Pools,
           restarts' \subseteq restarts, UNCHANGED served,
           lm'.active \in {0, lm.active}, lm'.revision = lm.revision,
           lm'.generation = lm.generation, lm'.pending \in {0, lm.pending},
           \A h \in Pools \cup {EmptyPool} : pool'[h].input = pool[h].input
    PROVE  LegacyInv'
BY PoolNumbers DEF LegacyInv, LegacyTyped, Fields, PoolsStarted, RestartsCurrent,
   LegacyServesCommitted

\* A prepare, kept pending or given up again.
LEMMA PrepareSound ==
    ASSUME LegacyInv, NEW i \in AnyInput, LegacyPrepare(i) \/ ValidatePublication(i)
    PROVE  LegacyInv'
<1> USE PoolNumbers
<1>1. LegacyTyped /\ PoolsStarted /\ RestartsCurrent /\ LegacyServesCommitted
    BY DEF LegacyInv
<1>2. PICK r \in PreparedPool(i) :
        \/ lm' = r.lm /\ pool' = r.pool
        \/ lm' = [r.lm EXCEPT !.pending = 0] /\ pool' = StoppedPool(r.pool, r.lm.pending)
    BY DEF LegacyPrepare, ValidatePublication
<1>3. UNCHANGED <<draining, restarts, served>>
    BY DEF LegacyPrepare, ValidatePublication
<1>4. /\ r.lm \in Fields /\ r.pool \in PoolTable
      /\ r.lm.active = lm.active /\ r.lm.revision = lm.revision
      /\ r.lm.generation >= lm.generation
      /\ r.lm.pending \in Pools => r.lm.pending <= r.lm.generation
      /\ r.pool[EmptyPool].input = NoInput
      /\ lm.active # 0 => r.pool[lm.active].input = pool[lm.active].input
    BY <1>1, PrepareKeepsServing
<1>5. /\ r.lm.pending \in 0..(MaxPools + 1) /\ r.lm.generation \in 0..MaxPools
      /\ lm.generation \in 0..MaxPools /\ lm.active \in 0..MaxPools
    BY <1>1, <1>4 DEF LegacyTyped, Fields
<1>6. /\ pool' \in PoolTable
      /\ \A h \in Pools \cup {EmptyPool} : pool'[h].input = r.pool[h].input
    BY <1>2, <1>4, <1>5, StopKeepsInputs
<1>7. /\ lm' \in Fields /\ lm'.active = lm.active /\ lm'.revision = lm.revision
      /\ lm'.generation = r.lm.generation /\ lm'.pending \in {0, r.lm.pending}
    BY <1>2, <1>4 DEF Fields
<1>8. LegacyTyped'
    BY <1>1, <1>3, <1>6, <1>7 DEF LegacyTyped
<1>9. PoolsStarted'
    BY <1>1, <1>4, <1>5, <1>6, <1>7 DEF PoolsStarted
<1>10. RestartsCurrent' /\ LegacyServesCommitted'
    BY <1>1, <1>3, <1>4, <1>5, <1>6, <1>7 DEF RestartsCurrent, LegacyServesCommitted
<1> QED
    BY <1>8, <1>9, <1>10 DEF LegacyInv

\* A commit serves the pending pool, or stops it and leaves the serving one.
LEMMA CommitSound ==
    ASSUME LegacyInv, NEW g \in Pools \cup {EmptyPool}, LegacyCommit(g)
    PROVE  LegacyInv'
<1> USE PoolNumbers
<1>1. LegacyTyped /\ PoolsStarted /\ RestartsCurrent /\ LegacyServesCommitted
    BY DEF LegacyInv
<1>2. /\ lm \in Fields /\ pool \in PoolTable /\ lm.pending = g /\ g # 0 /\ lm.revision \in Nat
      /\ lm.generation \in 0..MaxPools /\ UNCHANGED restarts
    BY <1>1 DEF LegacyCommit, LegacyTyped, Fields
<1>3. CASE /\ lm' = PublishedPool(lm) /\ draining' = ReplacedPools(lm)
           /\ served' = pool[g].input /\ UNCHANGED pool
    BY <1>1, <1>2, <1>3, CommitTyped DEF PoolTable, LegacyTyped, PoolsStarted, RestartsCurrent,
       LegacyServesCommitted, LegacyInv
<1>4. CASE /\ lm' = [lm EXCEPT !.pending = 0] /\ pool' = StoppedPool(pool, g)
           /\ UNCHANGED <<draining, served>>
  <2>1. /\ lm' \in Fields /\ lm'.active = lm.active /\ lm'.revision = lm.revision
        /\ lm'.generation = lm.generation /\ lm'.pending = 0
    BY <1>2, <1>4 DEF Fields
  <2>2. /\ pool' \in PoolTable
        /\ \A h \in Pools \cup {EmptyPool} : pool'[h].input = pool[h].input
    BY <1>2, <1>4, StopKeepsInputs
  <2>3. draining' \subseteq Pools
    BY <1>1, <1>4 DEF LegacyTyped
  <2> QED
    BY <1>2, <1>4, <2>1, <2>2, <2>3, QuietSound
<1> QED
    BY <1>3, <1>4 DEF LegacyCommit

\* Aborts, exits, retirement and Close leave the contents of every pool.
LEMMA StopSound ==
    ASSUME LegacyInv,
           \/ LegacyClose
           \/ \E g \in Pools \cup {EmptyPool} : LegacyAbort(g)
           \/ \E g \in Pools : PoolExits(g) \/ RetirePool(g)
    PROVE  LegacyInv'
<1> USE PoolNumbers
<1>1. /\ lm \in Fields /\ pool \in PoolTable /\ draining \subseteq Pools
      /\ lm.active \in 0..(MaxPools + 1) /\ lm.pending \in 0..(MaxPools + 1)
    BY DEF LegacyInv, LegacyTyped, Fields
<1>2. /\ draining' \subseteq Pools /\ UNCHANGED <<restarts, served>>
    BY <1>1 DEF LegacyClose, LegacyAbort, PoolExits, RetirePool
<1>3. /\ lm' \in Fields /\ lm'.active \in {0, lm.active} /\ lm'.revision = lm.revision
      /\ lm'.generation = lm.generation /\ lm'.pending \in {0, lm.pending}
  <2>1. \/ lm' = [lm EXCEPT !.closed = TRUE, !.active = 0, !.pending = 0]
        \/ lm' = [lm EXCEPT !.pending = 0]
        \/ lm' = lm
    BY DEF LegacyClose, LegacyAbort, PoolExits, RetirePool
  <2>2. 0 \in 0..MaxPools /\ 0 \in 0..(MaxPools + 1)
    BY LegacyAssumption
  <2> QED
    BY <1>1, <2>1, <2>2 DEF Fields
<1>4. /\ pool' \in PoolTable
      /\ \A h \in Pools \cup {EmptyPool} : pool'[h].input = pool[h].input
  <2>1. CASE LegacyClose BY <1>1, StopKeepsInputs, <2>1 DEF LegacyClose
  <2>2. CASE \E g \in Pools \cup {EmptyPool} : LegacyAbort(g)
    BY SMTT(30), <1>1, <2>2, StopKeepsInputs DEF LegacyAbort
  <2>3. CASE \E g \in Pools : RetirePool(g)
    <3>1. PICK g \in Pools : pool' = StoppedPool(pool, g)
      BY <2>3 DEF RetirePool
    <3>2. g \in 0..(MaxPools + 1)
      OBVIOUS
    <3>3. /\ StoppedPool(pool, g) \in PoolTable
          /\ \A h \in Pools \cup {EmptyPool} : StoppedPool(pool, g)[h].input = pool[h].input
      BY <1>1, <3>2, StopKeepsInputs
    <3> QED
      BY <3>1, <3>3
  <2>4. CASE \E g \in Pools : PoolExits(g)
    BY <1>1, <2>4 DEF PoolExits, PoolTable, PoolStates
  <2> QED
    BY <2>1, <2>2, <2>3, <2>4
<1> QED
    BY <1>2, <1>3, <1>4, QuietSound

\* A watcher that finds the serving pool exited wants back what was committed last.
LEMMA WatchSound ==
    ASSUME LegacyInv, NEW g \in Pools, WatchExit(g)
    PROVE  LegacyInv'
BY PoolNumbers, LegacyAssumption DEF LegacyInv, WatchExit, LegacyTyped, LegacyServesCommitted,
   Fields, PoolsStarted, RestartsCurrent

\* A restart gives way, or writes what was committed last.
LEMMA RestartSound ==
    ASSUME LegacyInv, NEW w \in restarts, RestartPool(w)
    PROVE  LegacyInv'
<1>1. /\ lm \in Fields /\ pool \in PoolTable /\ draining \subseteq Pools
      /\ w.desired \in AnyInput
      /\ w.revision = lm.revision => w.desired = served
    BY DEF LegacyInv, LegacyTyped, RestartsCurrent
<1>2. CASE Superseded(w) BY <1>2, <1>1, QuietSound DEF RestartPool
<1>3. CASE ~Superseded(w) BY <1>3, <1>1, WriteSound DEF RestartPool, Superseded
<1> QED
    BY <1>2, <1>3

\* No process is kept at first.
LEMMA LegacyInitSound == LegacyInit => LegacyInv
<1> SUFFICES ASSUME LegacyInit PROVE LegacyInv
    OBVIOUS
<1>1. LegacyTyped
    BY PoolNumbers
    DEF LegacyInit, LegacyTyped, Fields, PoolTable, PoolStates, AnyInput
<1> QED
    BY <1>1, PoolNumbers DEF LegacyInit, LegacyInv, PoolsStarted, RestartsCurrent, LegacyServesCommitted

\* Every step of the manager keeps the invariant.
LEMMA LegacyNextSound == LegacyInv /\ [LegacyNext]_legacyVars => LegacyInv'
<1> SUFFICES ASSUME LegacyInv, [LegacyNext]_legacyVars PROVE LegacyInv'
    OBVIOUS
<1>1. CASE \E i \in Inputs \cup {NoInput} : LegacyPrepare(i) \/ ValidatePublication(i)
    BY <1>1, PrepareSound DEF AnyInput
<1>2. CASE \E i \in Inputs \cup {NoInput} : LegacyPublish(i)
    BY <1>2, WriteSound DEF LegacyPublish, AnyInput
<1>3. CASE \E g \in Pools \cup {EmptyPool} : LegacyCommit(g)
    BY <1>3, CommitSound
<1>4. CASE \/ LegacyClose
           \/ \E g \in Pools \cup {EmptyPool} : LegacyAbort(g)
           \/ \E g \in Pools : PoolExits(g) \/ RetirePool(g)
    BY <1>4, StopSound
<1>5. CASE \E g \in Pools : WatchExit(g)
    BY <1>5, WatchSound
<1>6. CASE \E w \in restarts : RestartPool(w)
    BY <1>6, RestartSound
<1>7. CASE UNCHANGED legacyVars
    BY <1>7 DEF legacyVars, LegacyInv, LegacyTyped, PoolsStarted, RestartsCurrent,
       LegacyServesCommitted
<1> QED
    BY <1>1, <1>2, <1>3, <1>4, <1>5, <1>6, <1>7 DEF LegacyNext

\* The inductive invariant holds in every state of every instance.
THEOREM LegacyInductive == LegacySpec => []LegacyInv
BY LegacyInitSound, LegacyNextSound, PTL DEF LegacySpec

\* The serving pool holds the publication committed last, for any number of
\* publications, exits and restarts under way at once.
THEOREM ServesCommitted == LegacySpec => []LegacyServesCommitted
<1>1. LegacyInv => LegacyServesCommitted
    BY DEF LegacyInv
<1> QED
    BY <1>1, LegacyInductive, PTL

-----------------------------------------------------------------------------
(* The life of invocations, for any number of admissions, method calls,    *)
(* lost answers and process exits.                                         *)

Invocation == [live : BOOLEAN, root : Nat, started : BOOLEAN, complete : BOOLEAN, epoch : Nat]
Lifetime == [open : BOOLEAN, responseDone : BOOLEAN, pending : Int]
WrapperStates == {"none", "new", "starting", "running", "completing", "done", "gone"}

\* The types of what the broker and the control plane keep, and of the wrappers.
BrokerTyped ==
    /\ inv \in [Admissions -> Invocation]
    /\ root \in [Admissions -> Lifetime]
    /\ queue \subseteq Admissions /\ pinned \subseteq Admissions
    /\ refused \subseteq Admissions /\ late \subseteq Admissions
    /\ admitted \in Nat
WrapperTyped == wrapper \in [Admissions -> [st : WrapperStates, epoch : Nat]]

\* An admission number not given out yet is unknown everywhere.
NumbersFresh ==
    \A n \in Admissions : n > admitted =>
        /\ ~inv[n].live /\ ~root[n].open /\ root[n].pending = 0
        /\ n \notin pinned /\ n \notin late /\ n \notin queue

\* A live invocation belongs to an open root and keeps its pin; a root's own
\* admission belongs to no other root.
LiveSound ==
    \A n \in Admissions :
        /\ inv[n].live => /\ inv[n].root \in Admissions /\ root[inv[n].root].open
                          /\ n \in pinned /\ n \notin queue
        /\ inv[n].live /\ root[n].open => inv[n].root = n

\* The unfinished work of root r among the invocations i, and what roots ro count.
Unfinished(i, r) == {n \in Admissions : i[n].live /\ i[n].root = r /\ ~i[n].complete}
CountsWork(i, ro) ==
    \A r \in Admissions : (\E n \in Admissions : i[n].live /\ i[n].root = r) =>
        ro[r].pending = Cardinality(Unfinished(i, r))

\* The invocations i without those that ended with root r, and the state once n is complete.
Kept(r, i, ro) == [n \in Admissions |-> IF n \in Ended(r, i, ro) THEN NoInvocation ELSE i[n]]
FinishedWork(n) == [inv EXCEPT ![n].complete = TRUE]
FinishedRoots(n) ==
    [root EXCEPT ![inv[n].root].pending = IF inv[n].complete THEN @ ELSE @ - 1]

\* How far a wrapper is agrees with what the broker knows of its invocation: running
\* code is the broker's current, unfinished epoch, or the first epoch of an admission
\* that was abandoned before it started.
WrapperAt(n) ==
    /\ n > admitted => wrapper[n].st = "none" /\ wrapper[n].epoch = 0
    /\ wrapper[n].st = "running" =>
          /\ inv[n].live => inv[n].started
          /\ \/ inv[n].live /\ ~inv[n].complete /\ inv[n].epoch = wrapper[n].epoch
             \/ n \in revoked /\ wrapper[n].epoch = 1
    /\ wrapper[n].st = "new" => wrapper[n].epoch = 0
    /\ inv[n].live /\ (wrapper[n].st \in {"completing", "done"} \/ wrapper[n].epoch > 1) =>
          inv[n].started
    /\ inv[n].live /\ ~inv[n].started /\ inv[n].complete =>
          wrapper[n].st = "gone" \/ n \in revoked
WrapperSound == \A n \in Admissions : WrapperAt(n)

BrokerInv == BrokerTyped /\ NumbersFresh /\ LiveSound /\ PendingExact /\ PinsAccounted
WrapperInv == WrapperTyped /\ WrapperSound
InvocationInv == BrokerInv /\ WrapperInv

-----------------------------------------------------------------------------
(* Counting work.                                                          *)

\* Sets of admissions are finite, and counting them is exact.
LEMMA CountFacts ==
    ASSUME NEW S, S \subseteq Admissions
    PROVE  /\ IsFiniteSet(S) /\ Cardinality(S) \in Nat
           /\ Cardinality(S) = 0 <=> S = {}
           /\ \A x \in S : Cardinality(S \ {x}) = Cardinality(S) - 1
           /\ \A x : x \notin S => Cardinality(S \cup {x}) = Cardinality(S) + 1
<1>1. IsFiniteSet(Admissions)
    BY InvocationAssumption, FS_Interval, SMT DEF Admissions
<1>2. IsFiniteSet(S)
    BY <1>1, FS_Subset
<1>3. Cardinality(S) \in Nat
    BY <1>2, FS_CardinalityType
<1>4. Cardinality(S) = 0 <=> S = {}
    BY <1>2, FS_EmptySet
<1>5. \A x \in S : Cardinality(S \ {x}) = Cardinality(S) - 1
    BY <1>2, FS_RemoveElement
<1>6. \A x : x \notin S => Cardinality(S \cup {x}) = Cardinality(S) + 1
    BY <1>2, FS_AddElement
<1> QED
    BY <1>2, <1>3, <1>4, <1>5, <1>6

\* What the broker counts is what the property counts.
LEMMA CountsInvocations == PendingExact <=> CountsWork(inv, root)
BY DEF PendingExact, CountsWork, Unfinished

\* A root that ends has no unfinished work.
LEMMA EndedComplete ==
    ASSUME NEW i \in [Admissions -> Invocation], NEW ro \in [Admissions -> Lifetime],
           NEW r \in Admissions, CountsWork(i, ro)
    PROVE  \A n \in Ended(r, i, ro) : n \in Admissions /\ i[n].live /\ i[n].root = r /\ i[n].complete
<1> SUFFICES ASSUME NEW n \in Ended(r, i, ro)
             PROVE  n \in Admissions /\ i[n].live /\ i[n].root = r /\ i[n].complete
    OBVIOUS
<1>1. n \in Admissions /\ i[n].live /\ i[n].root = r /\ ro[r].pending = 0
    BY DEF Ended
<1>2. Cardinality(Unfinished(i, r)) = 0
    BY <1>1 DEF CountsWork
<1>3. Unfinished(i, r) = {}
    BY <1>2, CountFacts DEF Unfinished
<1> QED
    BY <1>1, <1>3 DEF Unfinished

\* Dropping what ended leaves every other root its count.
LEMMA DropCounts ==
    ASSUME NEW i \in [Admissions -> Invocation], NEW ro \in [Admissions -> Lifetime],
           NEW r \in Admissions, CountsWork(i, ro)
    PROVE  CountsWork(Kept(r, i, ro), ro)
<1> DEFINE j == Kept(r, i, ro)
<1> SUFFICES ASSUME NEW q \in Admissions, NEW m \in Admissions, j[m].live, j[m].root = q
             PROVE  ro[q].pending = Cardinality(Unfinished(j, q))
    BY DEF CountsWork
<1>1. m \notin Ended(r, i, ro) /\ i[m].live /\ i[m].root = q
    BY DEF Kept, NoInvocation
<1>2. \A n \in Admissions : n \in Ended(r, i, ro) => i[n].root # q
    BY <1>1 DEF Ended
<1>3. Unfinished(j, q) = Unfinished(i, q)
    BY <1>2 DEF Unfinished, Kept, NoInvocation
<1> QED
    BY <1>1, <1>3 DEF CountsWork

\* Completing an invocation takes it out of its root's count, once.
LEMMA CompleteCounts ==
    ASSUME BrokerInv, NEW n \in Admissions, inv[n].live
    PROVE  /\ FinishedWork(n) \in [Admissions -> Invocation]
           /\ FinishedRoots(n) \in [Admissions -> Lifetime]
           /\ CountsWork(FinishedWork(n), FinishedRoots(n))
           /\ \A m \in Admissions : m # n => FinishedWork(n)[m] = inv[m]
           /\ FinishedWork(n)[n].live /\ FinishedWork(n)[n].complete
           /\ FinishedWork(n)[n].root = inv[n].root
           /\ FinishedWork(n)[n].started = inv[n].started
           /\ FinishedWork(n)[n].epoch = inv[n].epoch
           /\ \A m \in Admissions : FinishedRoots(n)[m].open = root[m].open
           /\ \A m \in Admissions : m # inv[n].root => FinishedRoots(n)[m] = root[m]
<1> DEFINE r == inv[n].root
           i == FinishedWork(n)
           ro == FinishedRoots(n)
<1>1. /\ inv \in [Admissions -> Invocation] /\ root \in [Admissions -> Lifetime] /\ r \in Admissions
      /\ CountsWork(inv, root)
    BY CountsInvocations DEF BrokerInv, BrokerTyped, LiveSound
<1>2. /\ i \in [Admissions -> Invocation]
      /\ \A m \in Admissions : m # n => i[m] = inv[m]
      /\ i[n].live /\ i[n].complete /\ i[n].root = r
      /\ i[n].started = inv[n].started /\ i[n].epoch = inv[n].epoch
    BY <1>1 DEF FinishedWork, Invocation
<1>3. root[r].pending \in Int /\ inv[n].complete \in BOOLEAN
    BY <1>1 DEF Lifetime, Invocation
<1>4. /\ ro \in [Admissions -> Lifetime]
      /\ \A m \in Admissions : ro[m].open = root[m].open
      /\ \A m \in Admissions : m # r => ro[m] = root[m]
      /\ ro[r].pending = IF inv[n].complete THEN root[r].pending ELSE root[r].pending - 1
    BY <1>1, <1>3 DEF FinishedRoots, Lifetime
<1>5. Unfinished(i, r) = Unfinished(inv, r) \ {n}
    BY <1>1, <1>2 DEF Unfinished
<1>6. \A q \in Admissions : q # r => Unfinished(i, q) = Unfinished(inv, q)
    BY <1>1, <1>2 DEF Unfinished
<1>7. root[r].pending = Cardinality(Unfinished(inv, r))
    BY <1>1 DEF CountsWork
<1>8. Unfinished(inv, r) \subseteq Admissions
    BY DEF Unfinished
<1>9. ro[r].pending = Cardinality(Unfinished(i, r))
  <2>1. CASE inv[n].complete BY <1>5, <2>1, <1>4, <1>7 DEF Unfinished
  <2>2. CASE ~inv[n].complete
    <3>1. n \in Unfinished(inv, r)
      BY <2>2 DEF Unfinished
    <3>2. Cardinality(Unfinished(i, r)) = Cardinality(Unfinished(inv, r)) - 1
      BY <1>5, <1>8, <3>1, CountFacts
    <3> QED
      BY <1>4, <1>7, <2>2, <3>2
  <2> QED
    BY <2>1, <2>2
<1>10. CountsWork(i, ro)
  <2> SUFFICES ASSUME NEW q \in Admissions, NEW m \in Admissions, i[m].live, i[m].root = q
               PROVE  ro[q].pending = Cardinality(Unfinished(i, q))
    BY DEF CountsWork
  <2>1. CASE q = r
    BY <1>9, <2>1
  <2>2. CASE q # r BY <1>2, <2>2, <1>1, <1>4, <1>6 DEF CountsWork
  <2> QED
    BY <2>1, <2>2
<1> QED
    BY <1>2, <1>4, <1>10

-----------------------------------------------------------------------------
(* The broker's handlers.                                                  *)

\* After a handler made the invocations i and the roots ro of root r's business and
\* dropped what ended, the broker is sound and unfinished work is still there.
LEMMA HandlerSound ==
    ASSUME BrokerInv,
           NEW i \in [Admissions -> Invocation], NEW ro \in [Admissions -> Lifetime],
           NEW r \in Admissions, NEW Q \in SUBSET Admissions,
           CountsWork(i, ro),
           \A n \in Admissions : ro[n].open = root[n].open,
           \A n \in Admissions : n > admitted => ro[n].pending = 0,
           \A n \in Admissions : i[n].live => inv[n].live /\ i[n].root = inv[n].root,
           inv' = Kept(r, i, ro), root' = ro, queue' = queue \cup Q,
           \A n \in Q : inv[n].live /\ ~inv'[n].live,
           \A n \in Admissions : inv[n].live => inv'[n].live \/ n \in Q,
           UNCHANGED <<pinned, refused, late, admitted>>
    PROVE  /\ BrokerInv'
           /\ \A n \in Admissions : i[n].live /\ ~i[n].complete => inv'[n] = i[n]
           /\ \A n \in Admissions : inv'[n].live => inv'[n] = i[n]
<1>1. /\ \A n \in Admissions : inv'[n].live => inv'[n] = i[n]
      /\ inv' \in [Admissions -> Invocation] BY DEF NoInvocation, Invocation, Kept
<1>2. BrokerTyped'
    BY <1>1 DEF BrokerInv, BrokerTyped
<1>3. NumbersFresh'
    BY <1>1 DEF BrokerInv, NumbersFresh
<1>4. LiveSound' BY <1>1 DEF LiveSound, BrokerInv
<1>5. PendingExact'
  <2>1. CountsWork(inv', root')
    BY DropCounts
  <2> QED
    BY <2>1 DEF PendingExact, CountsWork, Unfinished
<1>6. PinsAccounted'
    BY DEF BrokerInv, BrokerTyped, PinsAccounted
<1>7. \A n \in Admissions : i[n].live /\ ~i[n].complete => inv'[n] = i[n]
    BY EndedComplete DEF Kept
<1> QED
    BY <1>1, <1>2, <1>3, <1>4, <1>5, <1>6, <1>7 DEF BrokerInv

\* A completion taken for the current epoch.
LEMMA FinishSound ==
    ASSUME BrokerInv, NEW n \in Admissions, inv[n].live,
           root' = FinishedRoots(n),
           Drop(Ended(inv[n].root, FinishedWork(n), FinishedRoots(n)), FinishedWork(n)),
           UNCHANGED <<pinned, refused, late, admitted>>
    PROVE  /\ BrokerInv'
           /\ \A m \in Admissions \ {n} : inv[m].live /\ ~inv[m].complete => inv'[m] = inv[m]
           /\ \A m \in Admissions \ {n} : inv'[m].live => inv'[m] = inv[m]
           /\ inv'[n].live => /\ inv'[n].complete /\ inv'[n].started = inv[n].started
                              /\ inv'[n].epoch = inv[n].epoch
<1> DEFINE r == inv[n].root
           i == FinishedWork(n)
           ro == FinishedRoots(n)
           Q == Ended(r, i, ro)
<1>1. /\ i \in [Admissions -> Invocation] /\ ro \in [Admissions -> Lifetime]
      /\ CountsWork(i, ro)
      /\ \A m \in Admissions : m # n => i[m] = inv[m]
      /\ i[n].live /\ i[n].complete /\ i[n].root = r
      /\ i[n].started = inv[n].started /\ i[n].epoch = inv[n].epoch
      /\ \A m \in Admissions : ro[m].open = root[m].open
      /\ \A m \in Admissions : m # r => ro[m] = root[m]
    BY CompleteCounts
<1>2. r \in Admissions /\ root[r].open /\ r <= admitted
    BY InvocationAssumption DEF BrokerInv, BrokerTyped, LiveSound, NumbersFresh, Admissions
<1>3. Q \in SUBSET Admissions /\ \A m \in Q : i[m].live /\ inv[m].live
    BY <1>1 DEF Ended
<1>4. inv' = Kept(r, i, ro) /\ root' = ro /\ queue' = queue \cup Q
    BY DEF Drop, Kept
<1>5. \A m \in Admissions : m > admitted => ro[m].pending = 0
    BY <1>1, <1>2 DEF BrokerInv, BrokerTyped, NumbersFresh, Admissions
<1>6. \A m \in Admissions : i[m].live => inv[m].live /\ i[m].root = inv[m].root
    BY <1>1
<1>7. /\ \A m \in Q : inv[m].live /\ ~inv'[m].live
      /\ \A m \in Admissions : inv[m].live => inv'[m].live \/ m \in Q
    BY <1>1, <1>3, <1>4 DEF Kept, NoInvocation
<1> HIDE DEF r, i, ro, Q
<1>8. /\ BrokerInv'
      /\ \A m \in Admissions : i[m].live /\ ~i[m].complete => inv'[m] = i[m]
      /\ \A m \in Admissions : inv'[m].live => inv'[m] = i[m]
    BY ZenonT(60), <1>1, <1>2, <1>3, <1>4, <1>5, <1>6, <1>7, HandlerSound
<1> QED
    BY <1>1, <1>8 DEF i

\* "complete", of the current epoch or of an earlier one.
LEMMA CompletedSound ==
    ASSUME BrokerInv, NEW n \in Admissions, NEW e \in Nat, inv[n].live, Completed(n, e),
           UNCHANGED <<pinned, refused, late, admitted>>
    PROVE  /\ BrokerInv'
           /\ \A m \in Admissions \ {n} : inv[m].live /\ ~inv[m].complete => inv'[m] = inv[m]
           /\ \A m \in Admissions \ {n} : inv'[m].live => inv'[m] = inv[m]
           /\ inv'[n].live => /\ inv'[n].started = inv[n].started
                              /\ inv'[n].epoch = inv[n].epoch
           /\ e # 0 /\ e < inv[n].epoch => inv' = inv
<1>1. CASE e # 0 /\ Outdated(n, e)
    BY <1>1 DEF Completed, BrokerInv, BrokerTyped, NumbersFresh, LiveSound, PendingExact,
       PinsAccounted
<1>2. CASE ~(e # 0 /\ Outdated(n, e))
    BY <1>2, FinishSound DEF Completed, FinishedRoots, FinishedWork, Outdated
<1> QED
    BY <1>1, <1>2

-----------------------------------------------------------------------------
(* Steps of the wrapper with the broker's answer.                          *)

\* A step about n leaves the unfinished work of the others, and their wrappers.
LEMMA WrapperStep ==
    ASSUME InvocationInv, BrokerInv', NEW n \in Admissions, UNCHANGED admitted,
           revoked \subseteq revoked',
           WrapperTyped', WrapperAt(n)',
           \A m \in Admissions \ {n} : wrapper'[m] = wrapper[m],
           \A m \in Admissions \ {n} : inv[m].live /\ ~inv[m].complete => inv'[m] = inv[m],
           \A m \in Admissions \ {n} : inv'[m].live => inv'[m] = inv[m]
    PROVE  InvocationInv'
BY DEF InvocationInv, WrapperInv, WrapperSound, WrapperAt

\* What a step about n starts from.
LEMMA Facts ==
    ASSUME InvocationInv, NEW n \in Admissions
    PROVE  /\ BrokerInv /\ WrapperAt(n) /\ WrapperTyped
           /\ inv \in [Admissions -> Invocation] /\ inv[n] \in Invocation
           /\ root \in [Admissions -> Lifetime] /\ root[n] \in Lifetime
           /\ wrapper \in [Admissions -> [st : WrapperStates, epoch : Nat]]
           /\ wrapper[n].st \in WrapperStates /\ wrapper[n].epoch \in Nat
           /\ inv[n].epoch \in Nat /\ admitted \in Nat
           /\ n \in Nat /\ n > 0
           /\ inv[n].live => inv[n].root \in Admissions
<1>1. BrokerInv /\ WrapperAt(n) /\ WrapperTyped
    BY DEF InvocationInv, WrapperInv, WrapperSound
<1>2. /\ inv \in [Admissions -> Invocation] /\ inv[n] \in Invocation
      /\ root \in [Admissions -> Lifetime] /\ root[n] \in Lifetime
      /\ admitted \in Nat
      /\ inv[n].live => inv[n].root \in Admissions
    BY <1>1 DEF BrokerInv, BrokerTyped, LiveSound
<1>3. inv[n].epoch \in Nat
    BY <1>2 DEF Invocation
<1>4. n \in Nat /\ n > 0
    BY InvocationAssumption DEF Admissions
<1>5. /\ wrapper \in [Admissions -> [st : WrapperStates, epoch : Nat]]
      /\ wrapper[n].st \in WrapperStates /\ wrapper[n].epoch \in Nat
    BY <1>1 DEF WrapperTyped
<1> QED
    BY <1>1, <1>2, <1>3, <1>4, <1>5

\* A wrapper moves on alone.
LEMMA WrapperAlone ==
    ASSUME InvocationInv, NEW n \in Admissions, NEW w \in [st : WrapperStates, epoch : Nat],
           wrapper' = [wrapper EXCEPT ![n] = w], WrapperAt(n)',
           UNCHANGED <<inv, root, queue, pinned, refused, late, admitted, revoked>>
    PROVE  InvocationInv'
<1>1. BrokerInv'
    BY DEF InvocationInv, BrokerInv, BrokerTyped, NumbersFresh, LiveSound, PendingExact,
       PinsAccounted
<1>2. WrapperTyped' /\ \A m \in Admissions \ {n} : wrapper'[m] = wrapper[m]
    BY Facts DEF WrapperTyped
<1> QED
    BY <1>1, <1>2, WrapperStep

\* A Worker that could not be loaded completes without an epoch.
LEMMA CompleteWithoutExecutionSound ==
    ASSUME InvocationInv, NEW n \in Admissions, CompleteWithoutExecution(n)
    PROVE  InvocationInv'
<1>1. /\ wrapper[n].st = "new" /\ wrapper' = [wrapper EXCEPT ![n].st = "gone"]
      /\ UNCHANGED <<pinned, refused, late, admitted, revoked>>
    BY DEF CompleteWithoutExecution
<1>2. /\ WrapperTyped' /\ wrapper'[n].st = "gone" /\ wrapper'[n].epoch = wrapper[n].epoch
      /\ \A m \in Admissions \ {n} : wrapper'[m] = wrapper[m]
    BY <1>1, Facts DEF WrapperTyped, WrapperStates
<1>3. CASE inv[n].live
    BY <1>3, <1>1, CompletedSound, Facts, <1>2, WrapperStep DEF CompleteWithoutExecution,
       WrapperAt
<1>4. CASE ~inv[n].live
  <2>1. UNCHANGED <<inv, root, queue>>
    BY <1>4 DEF CompleteWithoutExecution
  <2>2. WrapperAt(n)'
    BY <1>1, <1>2, <1>4, <2>1, Facts DEF WrapperAt
  <2>3. wrapper' = [wrapper EXCEPT ![n] = wrapper'[n]] /\ wrapper'[n] \in [st : WrapperStates, epoch : Nat]
    BY <1>1, <1>2, Facts DEF WrapperTyped
  <2> QED
    BY <1>1, <2>1, <2>2, <2>3, WrapperAlone
<1> QED
    BY <1>3, <1>4

\* A wrapper begins an epoch on its own; the broker learns of it at "start".
LEMMA BeginEpochSound ==
    ASSUME InvocationInv, NEW n \in Admissions, BeginEpoch(n)
    PROVE  InvocationInv'
<1> DEFINE w == [st |-> "starting", epoch |-> wrapper[n].epoch + 1]
<1>1. /\ wrapper[n].st \in {"new", "done"} /\ wrapper' = [wrapper EXCEPT ![n] = w]
      /\ UNCHANGED <<inv, root, queue, pinned, refused, late, admitted, revoked>>
    BY Facts DEF BeginEpoch
<1>2. w \in [st : WrapperStates, epoch : Nat] /\ wrapper'[n] = w
    BY <1>1, Facts DEF WrapperStates
<1>3. WrapperAt(n)'
    BY <1>1, <1>2, Facts DEF WrapperAt, NoInvocation
<1> QED
    BY <1>1, <1>2, <1>3, WrapperAlone

\* User code that is done is still the broker's epoch until "complete" is taken.
LEMMA UserDoneSound ==
    ASSUME InvocationInv, NEW n \in Admissions, UserDone(n)
    PROVE  InvocationInv'
<1> DEFINE w == [st |-> "completing", epoch |-> wrapper[n].epoch]
<1>1. /\ wrapper[n].st = "running" /\ wrapper' = [wrapper EXCEPT ![n] = w]
      /\ UNCHANGED <<inv, root, queue, pinned, refused, late, admitted, revoked>>
  <2>1. [wrapper[n] EXCEPT !.st = "completing"] = w
    BY Facts
  <2> QED
    BY <2>1 DEF UserDone
<1>2. w \in [st : WrapperStates, epoch : Nat] /\ wrapper'[n] = w
    BY <1>1, Facts DEF WrapperStates
<1>3. WrapperAt(n)'
    BY <1>1, <1>2, Facts DEF WrapperAt
<1> QED
    BY <1>1, <1>2, <1>3, WrapperAlone

\* "complete" of the current epoch, answered or not.
LEMMA NotifyCompleteSound ==
    ASSUME InvocationInv, NEW n \in Admissions, NotifyComplete(n)
    PROVE  InvocationInv'
<1>1. /\ wrapper[n].st = "completing" /\ UNCHANGED <<pinned, refused, late, admitted, revoked>>
      /\ \/ wrapper' = [wrapper EXCEPT ![n].st = IF inv[n].live THEN "done" ELSE "gone"]
         \/ wrapper' = wrapper
    BY DEF NotifyComplete
<1>2. /\ WrapperTyped' /\ wrapper'[n].st \in {"completing", "done", "gone"}
      /\ wrapper'[n].epoch = wrapper[n].epoch
      /\ \A m \in Admissions \ {n} : wrapper'[m] = wrapper[m]
  <2>1. CASE wrapper' = wrapper
    BY <1>1, <2>1, Facts DEF WrapperTyped
  <2>2. ASSUME NEW s \in {"done", "gone"}, wrapper' = [wrapper EXCEPT ![n].st = s]
        PROVE  /\ WrapperTyped' /\ wrapper'[n].st = s /\ wrapper'[n].epoch = wrapper[n].epoch
               /\ \A m \in Admissions \ {n} : wrapper'[m] = wrapper[m]
    BY <2>2, Facts DEF WrapperTyped, WrapperStates
  <2> QED
    BY <1>1, <2>1, <2>2
<1>3. CASE inv[n].live
    BY <1>3, <1>1, CompletedSound, Facts, <1>2, WrapperStep DEF NotifyComplete, WrapperAt
<1>4. CASE ~inv[n].live
    BY <1>4, <1>1, <1>2, Facts, WrapperAlone DEF NotifyComplete, WrapperAt, WrapperTyped
<1> QED
    BY <1>3, <1>4

\* A late copy of an earlier completion does not end the epoch that runs now.
LEMMA LateCompleteSound ==
    ASSUME InvocationInv, NEW n \in Admissions, NEW e \in 1..MaxEpoch, LateComplete(n, e)
    PROVE  InvocationInv'
BY InvocationAssumption, CompletedSound, Facts, WrapperStep DEF LateComplete, WrapperAt,
   WrapperTyped

\* An abandoned call ends only work that has not started, and is on record as revoked.
LEMMA AbandonSound ==
    ASSUME InvocationInv, NEW n \in Admissions, Abandon(n)
    PROVE  InvocationInv'
<1>1. /\ wrapper[n].st # "none"
      /\ \/ UNCHANGED wrapper
         \/ wrapper[n].st = "new" /\ wrapper' = [wrapper EXCEPT ![n].st = "gone"]
      /\ UNCHANGED <<pinned, refused, late, admitted>>
      /\ revoked \subseteq revoked'
  <2>1. RejectedCall(n) /\ UNCHANGED <<pinned, refused, late, admitted>>
    BY DEF Abandon
  <2>2. revoked' = revoked \/ revoked' = revoked \cup {n}
    BY DEF Abandon
  <2> QED
    BY <2>1, <2>2 DEF RejectedCall
<1>2. /\ WrapperTyped' /\ wrapper'[n].epoch = wrapper[n].epoch
      /\ \/ wrapper'[n].st = wrapper[n].st
         \/ wrapper[n].st = "new" /\ wrapper'[n].st = "gone"
      /\ \A m \in Admissions \ {n} : wrapper'[m] = wrapper[m]
  <2>1. CASE UNCHANGED wrapper
    BY <2>1, Facts DEF WrapperTyped
  <2>2. CASE wrapper[n].st = "new" /\ wrapper' = [wrapper EXCEPT ![n].st = "gone"]
    BY <2>2, Facts DEF WrapperTyped, WrapperStates
  <2> QED
    BY <1>1, <2>1, <2>2
<1>3. CASE ~inv[n].live
  <2>1. UNCHANGED <<inv, root, queue, revoked>>
    BY <1>3 DEF Abandon
  <2>2. WrapperAt(n)'
    BY <1>1, <1>2, <1>3, <2>1, Facts DEF WrapperAt
  <2>3. BrokerInv'
    BY <1>1, <2>1 DEF InvocationInv, BrokerInv, BrokerTyped, NumbersFresh, LiveSound,
       PendingExact, PinsAccounted
  <2> QED
    BY <1>1, <1>2, <2>1, <2>2, <2>3, WrapperStep
<1>4. CASE inv[n].live /\ ~inv[n].started /\ ~inv[n].complete
  <2>1. /\ root' = FinishedRoots(n)
        /\ Drop(Ended(inv[n].root, FinishedWork(n), FinishedRoots(n)), FinishedWork(n))
        /\ n \in revoked'
    BY <1>4 DEF Abandon, FinishedRoots, FinishedWork
  <2>2. /\ BrokerInv'
        /\ \A m \in Admissions \ {n} : inv[m].live /\ ~inv[m].complete => inv'[m] = inv[m]
        /\ \A m \in Admissions \ {n} : inv'[m].live => inv'[m] = inv[m]
        /\ inv'[n].live => inv'[n].started = inv[n].started
    BY <1>1, <1>4, <2>1, FinishSound, Facts
  <2>3. WrapperAt(n)'
    BY <1>1, <1>2, <1>4, <2>1, <2>2, Facts DEF WrapperAt
  <2> QED
    BY <1>1, <1>2, <2>2, <2>3, WrapperStep
<1>5. CASE inv[n].live /\ ~(~inv[n].started /\ ~inv[n].complete)
  <2>1. root' = root /\ Drop(Ended(inv[n].root, inv, root), inv)
    <3>1. /\ root' = [root EXCEPT ![inv[n].root].pending = @]
          /\ Drop(Ended(inv[n].root, inv, root'), inv)
      BY <1>5 DEF Abandon
    <3>2. root' = root
      BY <1>5, <3>1, Facts DEF Lifetime
    <3> QED
      BY <3>1, <3>2
  <2> DEFINE r == inv[n].root
             Q == Ended(r, inv, root)
  <2>2. inv' = Kept(r, inv, root) /\ queue' = queue \cup Q
    BY <2>1 DEF Drop, Kept
  <2>3. /\ Q \in SUBSET Admissions
        /\ \A m \in Q : inv[m].live /\ ~inv'[m].live
        /\ \A m \in Admissions : inv[m].live => inv'[m].live \/ m \in Q
    BY <2>2 DEF Kept, Ended, NoInvocation
  <2>4. /\ CountsWork(inv, root) /\ \A m \in Admissions : m > admitted => root[m].pending = 0
        /\ BrokerInv /\ r \in Admissions
        /\ inv \in [Admissions -> Invocation] /\ root \in [Admissions -> Lifetime]
    BY <1>5, CountsInvocations, Facts DEF BrokerInv, NumbersFresh
  <2> HIDE DEF r, Q
  <2>5. /\ BrokerInv'
        /\ \A m \in Admissions : inv[m].live /\ ~inv[m].complete => inv'[m] = inv[m]
        /\ \A m \in Admissions : inv'[m].live => inv'[m] = inv[m]
    BY <1>1, <2>1, <2>2, <2>3, <2>4, HandlerSound
  <2>6. WrapperAt(n)'
    BY <1>1, <1>2, <1>5, <2>5, Facts DEF WrapperAt
  <2> QED
    BY <1>1, <1>2, <2>5, <2>6, WrapperStep
<1> QED
    BY <1>3, <1>4, <1>5

\* A release of a root's response is one more completion when its first admission never
\* started: that one is cancelled, and everything goes once nothing is left.
LEMMA ReleaseRootSound ==
    ASSUME InvocationInv, NEW r \in Admissions, ReleaseRoot(r)
    PROVE  InvocationInv'
<1> DEFINE unstarted == inv[r].live /\ ~inv[r].started
           ro == [root EXCEPT ![r].responseDone = TRUE,
                              ![r].pending = IF unstarted /\ ~inv[r].complete THEN @ - 1 ELSE @]
           first == IF unstarted THEN {r} ELSE {}
           i == [n \in Admissions |-> IF n \in first THEN NoInvocation ELSE inv[n]]
           Q == first \cup Ended(r, inv, ro)
<1>1. /\ root[r].open /\ root' = ro /\ Drop(Q, inv)
      /\ UNCHANGED <<wrapper, pinned, refused, late, admitted, revoked>>
    BY DEF ReleaseRoot
<1>2. inv[r].live => inv[r].root = r
    BY <1>1, Facts DEF BrokerInv, LiveSound
<1>3. /\ i \in [Admissions -> Invocation]
      /\ \A n \in Admissions : i[n].live => inv[n].live /\ i[n] = inv[n] /\ n \notin first
      /\ \A n \in Admissions : n \notin first => i[n] = inv[n]
    BY Facts DEF NoInvocation, Invocation
<1>4. root[r].pending \in Int /\ inv[r].complete \in BOOLEAN
    BY Facts DEF Lifetime, Invocation
<1>5. /\ ro \in [Admissions -> Lifetime]
      /\ \A n \in Admissions : ro[n].open = root[n].open
      /\ \A n \in Admissions : n # r => ro[n] = root[n]
      /\ ro[r].pending = IF unstarted /\ ~inv[r].complete THEN root[r].pending - 1 ELSE root[r].pending
  <2> DEFINE p == IF unstarted /\ ~inv[r].complete THEN root[r].pending - 1 ELSE root[r].pending
  <2>1. p \in Int
    BY <1>4
  <2>2. ro = [root EXCEPT ![r] = [open |-> root[r].open, responseDone |-> TRUE, pending |-> p]]
    <3>1. root[r] = [open |-> root[r].open, responseDone |-> root[r].responseDone,
                     pending |-> root[r].pending]
      BY Facts DEF Lifetime
    <3>2. DOMAIN root = Admissions /\ DOMAIN ro = Admissions
      BY Facts
    <3>3. ro[r] = [open |-> root[r].open, responseDone |-> TRUE, pending |-> p]
      BY <3>1, <3>2
    <3>4. \A n \in Admissions : n # r => ro[n] = root[n]
      BY <3>2
    <3> QED
      BY <3>2, <3>3, <3>4
  <2> HIDE DEF p, ro
  <2>3. root[r].open \in BOOLEAN
    BY Facts DEF Lifetime
  <2>4. /\ ro \in [Admissions -> Lifetime] /\ ro[r].pending = p /\ ro[r].open = root[r].open
        /\ \A n \in Admissions : n # r => ro[n] = root[n]
    BY <2>1, <2>2, <2>3, Facts DEF Lifetime
  <2> QED
    BY <2>4 DEF p
<1>6. r <= admitted /\ \A n \in Admissions : n > admitted => ro[n].pending = 0
    BY <1>1, <1>5, Facts DEF BrokerInv, NumbersFresh
<1>7. CountsWork(i, ro)
  <2> SUFFICES ASSUME NEW q \in Admissions, NEW m \in Admissions, i[m].live, i[m].root = q
               PROVE  ro[q].pending = Cardinality(Unfinished(i, q))
    BY DEF CountsWork
  <2>1. root[q].pending = Cardinality(Unfinished(inv, q))
    BY <1>3, CountsInvocations, Facts DEF BrokerInv, CountsWork
  <2>2. Unfinished(i, q) = Unfinished(inv, q) \ first
    BY <1>3 DEF Unfinished, NoInvocation
  <2>3. CASE q = r /\ unstarted /\ ~inv[r].complete
    <3>1. r \in Unfinished(inv, q) /\ Unfinished(i, q) = Unfinished(inv, q) \ {r}
      BY <1>2, <2>2, <2>3 DEF Unfinished
    <3>2. Unfinished(inv, q) \subseteq Admissions
      BY DEF Unfinished
    <3>3. Cardinality(Unfinished(i, q)) = Cardinality(Unfinished(inv, q)) - 1
      BY <3>1, <3>2, CountFacts
    <3> QED
      BY <1>5, <2>1, <2>3, <3>3
  <2>4. CASE ~(q = r /\ unstarted /\ ~inv[r].complete)
    <3>1. Unfinished(i, q) = Unfinished(inv, q)
      BY <1>2, <2>2, <2>4 DEF Unfinished
    <3> QED
      BY <1>5, <2>1, <2>4, <3>1
  <2> QED
    BY <2>3, <2>4
<1>8. Ended(r, i, ro) \subseteq Ended(r, inv, ro) /\ Ended(r, inv, ro) \subseteq Ended(r, i, ro) \cup first
    BY <1>3 DEF Ended
<1>9. inv' = Kept(r, i, ro)
    BY <1>1, <1>3, <1>8 DEF Drop, Kept, NoInvocation
<1>10. /\ Q \in SUBSET Admissions /\ queue' = queue \cup Q
       /\ \A n \in Q : inv[n].live /\ ~inv'[n].live
       /\ \A n \in Admissions : inv[n].live => inv'[n].live \/ n \in Q
    BY <1>1 DEF Drop, Ended, NoInvocation
<1>11. \A n \in Admissions : i[n].live => inv[n].live /\ i[n].root = inv[n].root
    BY <1>3
<1>12. r \notin first => i[r] = inv[r]
    BY <1>3
<1>13. r \in first => ~inv[r].started /\ ~i[r].live
    BY <1>3
<1>14. \A n \in Admissions \ {r} : i[n] = inv[n]
    BY <1>3
<1> HIDE DEF unstarted, i, ro, Q, first
<1>15. /\ BrokerInv'
       /\ \A n \in Admissions : i[n].live /\ ~i[n].complete => inv'[n] = i[n]
       /\ \A n \in Admissions : inv'[n].live => inv'[n] = i[n]
  <2>1. root' = ro /\ BrokerInv /\ UNCHANGED <<pinned, refused, late, admitted, revoked>>
    BY <1>1, Facts
  <2>2. \A n \in Admissions : n > admitted => ro[n].pending = 0
    BY <1>6
  <2>3. i \in [Admissions -> Invocation] /\ ro \in [Admissions -> Lifetime] /\ Q \in SUBSET Admissions
    BY <1>3, <1>5, <1>10
  <2>4. \A n \in Admissions : ro[n].open = root[n].open
    BY <1>5
  <2> QED
    BY <1>7, <1>9, <1>10, <1>11, <2>1, <2>2, <2>3, <2>4, HandlerSound
<1>16. WrapperAt(r)' BY <1>1, <1>13, <1>15, Facts, <1>12 DEF WrapperAt
<1>17. WrapperTyped'
    BY <1>1, Facts DEF WrapperTyped
<1> QED
    BY <1>1, <1>14, <1>15, <1>16, <1>17, WrapperStep

\* A late admission pins only what nobody has released: it is queued for release.
LEMMA LateAdmitSound ==
    ASSUME InvocationInv, NEW n \in Admissions, LateAdmit(n)
    PROVE  InvocationInv'
<1>1. /\ n \in late /\ late' = late \ {n}
      /\ pinned' = IF n \in refused THEN pinned ELSE pinned \cup {n}
      /\ UNCHANGED <<inv, root, queue, wrapper, refused, admitted, revoked>>
    BY DEF LateAdmit
<1>2. BrokerInv'
  <2>1. BrokerTyped' /\ NumbersFresh' /\ LiveSound'
    BY <1>1, Facts DEF BrokerInv, BrokerTyped, NumbersFresh, LiveSound
  <2>2. PendingExact'
    BY <1>1, Facts DEF BrokerInv, PendingExact
  <2>3. PinsAccounted'
    BY <1>1, Facts DEF BrokerInv, PinsAccounted
  <2> QED
    BY <2>1, <2>2, <2>3 DEF BrokerInv
<1>3. WrapperTyped' /\ WrapperAt(n)'
    BY <1>1, Facts DEF WrapperTyped, WrapperAt
<1> QED
    BY <1>1, <1>2, <1>3, WrapperStep

\* A release takes effect with or without its answer; the admission is refused from then on.
LEMMA FlushReleaseSound ==
    ASSUME InvocationInv, NEW n \in Admissions, FlushRelease(n)
    PROVE  InvocationInv'
<1>1. /\ n \in queue /\ queue' \in {queue, queue \ {n}}
      /\ \/ UNCHANGED <<pinned, refused, queue>>
         \/ pinned' = pinned \ {n} /\ refused' = refused \cup {n}
      /\ UNCHANGED <<inv, root, wrapper, late, admitted, revoked>>
    BY DEF FlushRelease
<1>2. BrokerInv'
  <2>1. BrokerTyped' /\ NumbersFresh' /\ LiveSound'
    BY <1>1, Facts DEF BrokerInv, BrokerTyped, NumbersFresh, LiveSound
  <2>2. PendingExact'
    BY <1>1, Facts DEF BrokerInv, PendingExact
  <2>3. PinsAccounted'
    BY <1>1, Facts DEF BrokerInv, PinsAccounted
  <2> QED
    BY <2>1, <2>2, <2>3 DEF BrokerInv
<1>3. WrapperTyped' /\ WrapperAt(n)'
    BY <1>1, Facts DEF WrapperTyped, WrapperAt
<1> QED
    BY <1>1, <1>2, <1>3, WrapperStep

-----------------------------------------------------------------------------
(* New work and lost processes.                                            *)

\* An admission is a new unit of its root's work; one whose outcome is unknown is queued.
LEMMA AdmitSound ==
    ASSUME InvocationInv, NEW r \in Nat, Admit(r),
           r # 0 => /\ r \in Admissions /\ root[r].open
                    /\ \E c \in Admissions : inv[c].live /\ inv[c].root = r
    PROVE  InvocationInv'
<1> DEFINE n == admitted + 1
           into == IF r = 0 THEN n ELSE r
           new == [live |-> TRUE, root |-> into, started |-> FALSE, complete |-> FALSE, epoch |-> 0]
<1>1. n \in Admissions /\ n > admitted /\ admitted' = n /\ admitted \in Nat /\ UNCHANGED revoked
    BY InvocationAssumption DEF Admit, Admissions, InvocationInv, BrokerInv, BrokerTyped
<1>2. into \in Admissions /\ (into = n <=> ~root[into].open)
    BY <1>1, Facts DEF BrokerInv, NumbersFresh
<1>3. /\ ~inv[n].live /\ ~root[n].open /\ root[n].pending = 0
      /\ n \notin pinned /\ n \notin late /\ n \notin queue
      /\ wrapper[n].st = "none" /\ wrapper[n].epoch = 0
    BY <1>1, Facts DEF BrokerInv, NumbersFresh, WrapperAt
<1>4. CASE /\ pinned' = pinned \cup {n}
           /\ inv' = [inv EXCEPT ![n] = [NoInvocation EXCEPT !.live = TRUE, !.root = into]]
           /\ root' = [root EXCEPT ![into].open = TRUE, ![into].pending = @ + 1]
           /\ wrapper' = [wrapper EXCEPT ![n].st = "new"]
           /\ UNCHANGED <<queue, refused, late, upsets>>
  <2>1. /\ inv' \in [Admissions -> Invocation] /\ inv'[n] = new
        /\ \A m \in Admissions \ {n} : inv'[m] = inv[m]
    <3>1. inv' = [inv EXCEPT ![n] = new]
      <4> HIDE DEF into
      <4>1. [NoInvocation EXCEPT !.live = TRUE, !.root = into] = new
        <5> DEFINE t == TRUE
                   f == FALSE
                   no == [live |-> f, root |-> 0, started |-> f, complete |-> f, epoch |-> 0]
        <5> HIDE DEF t, f
        <5>1. no = [live |-> f, root |-> 0, started |-> f, complete |-> f, epoch |-> 0]
          OBVIOUS
        <5> HIDE DEF no
        <5> DEFINE alive == [no EXCEPT !.live = t]
        <5>2. /\ [no EXCEPT !.live = t, !.root = into] = [alive EXCEPT !.root = into]
              /\ alive = [live |-> t, root |-> 0, started |-> f, complete |-> f, epoch |-> 0]
          BY <5>1
        <5> HIDE DEF alive
        <5>3. [no EXCEPT !.live = t, !.root = into]
                  = [live |-> t, root |-> into, started |-> f, complete |-> f, epoch |-> 0]
          BY <5>2
        <5> QED
          BY Zenon, <5>3 DEF t, f, no, NoInvocation
      <4> HIDE DEF new
      <4> QED
        BY <1>4, <4>1
    <3>2. new \in Invocation
      BY <1>1, <1>2 DEF Invocation, Admissions
    <3> HIDE DEF new
    <3> QED
      BY <1>1, <3>1, <3>2, Facts
  <2>2. root[into].pending \in Int /\ root[into].responseDone \in BOOLEAN
    BY <1>2, Facts DEF Lifetime
  <2>3. /\ root' \in [Admissions -> Lifetime]
        /\ root'[into].open /\ root'[into].pending = root[into].pending + 1
        /\ \A m \in Admissions \ {into} : root'[m] = root[m]
      BY <1>2, Facts, <1>4, <2>2 DEF Lifetime
  <2>4. /\ WrapperTyped' /\ wrapper'[n] = [st |-> "new", epoch |-> 0]
        /\ \A m \in Admissions \ {n} : wrapper'[m] = wrapper[m]
    <3>1. wrapper[n] = [st |-> "none", epoch |-> 0]
      BY <1>1, <1>3, Facts
    <3>2. wrapper' = [wrapper EXCEPT ![n] = [st |-> "new", epoch |-> 0]]
      <4>1. [wrapper[n] EXCEPT !.st = "new"] = [st |-> "new", epoch |-> 0]
        BY <3>1
      <4>2. wrapper' = [wrapper EXCEPT ![n] = [wrapper[n] EXCEPT !.st = "new"]]
        BY <1>4
      <4> QED
        BY <4>1, <4>2
    <3> QED
      BY <1>1, <3>2, Facts DEF WrapperTyped, WrapperStates
  <2>5. UNCHANGED <<queue, refused, late>> /\ pinned' = pinned \cup {n}
    BY <1>4
  <2>6. BrokerTyped'
    BY <1>1, <2>1, <2>3, <2>5 DEF InvocationInv, BrokerInv, BrokerTyped
  <2>7. into <= n
    BY <1>1, <1>2, Facts DEF BrokerInv, NumbersFresh
  <2>8. NumbersFresh' BY <1>1, <1>2, <2>7, Facts, <2>1, <2>3, <2>5 DEF NumbersFresh, BrokerInv
  <2>9. LiveSound'
    <3> SUFFICES ASSUME NEW m \in Admissions, inv'[m].live
                 PROVE  /\ inv'[m].root \in Admissions /\ root'[inv'[m].root].open
                        /\ m \in pinned' /\ m \notin queue'
                        /\ root'[m].open => inv'[m].root = m
      BY DEF LiveSound
    <3>1. CASE m = n BY <2>1, <3>1, <1>1, <2>3, <1>2, <1>3, <2>5
    <3>2. CASE m # n
      <4>1. /\ inv'[m] = inv[m] /\ inv[m].root \in Admissions /\ root[inv[m].root].open
            /\ m \in pinned /\ m \notin queue
            /\ root[m].open => inv[m].root = m
        BY <2>1, <3>2, Facts DEF BrokerInv, LiveSound
      <4>2. root'[inv[m].root].open
        BY <2>3, <4>1
      <4>3. root'[m].open => root[m].open
        BY <1>2, <2>3, <3>2
      <4> QED
        BY <2>5, <4>1, <4>2, <4>3
    <3> QED
      BY <3>1, <3>2
  <2>10. CountsWork(inv', root')
    <3> SUFFICES ASSUME NEW q \in Admissions, NEW m \in Admissions, inv'[m].live, inv'[m].root = q
                 PROVE  root'[q].pending = Cardinality(Unfinished(inv', q))
      BY DEF CountsWork
    <3>1. CASE q # into
      <4>1. inv[m].live /\ inv[m].root = q
        BY <2>1, <3>1
      <4>2. Unfinished(inv', q) = Unfinished(inv, q)
        BY <1>1, <1>3, <2>1, <3>1 DEF Unfinished
      <4>3. root'[q] = root[q]
        BY <2>3, <3>1
      <4> QED
        BY <4>1, <4>2, <4>3, CountsInvocations, Facts DEF BrokerInv, CountsWork
    <3>2. CASE q = into
      <4>1. Unfinished(inv', q) = Unfinished(inv, q) \cup {n}
        <5>1. inv'[n].live /\ inv'[n].root = q /\ ~inv'[n].complete
          BY <2>1, <3>2
        <5> QED
          BY <1>1, <1>3, <2>1, <5>1 DEF Unfinished
      <4>2. n \notin Unfinished(inv, q) /\ Unfinished(inv, q) \subseteq Admissions
        BY <1>3 DEF Unfinished
      <4>3. root[into].pending = Cardinality(Unfinished(inv, q))
        <5>1. CASE r = 0
          <6>1. Unfinished(inv, q) = {}
            <7>1. q = n /\ ~root[q].open
              BY <1>3, <3>2, <5>1
            <7>2. \A k \in Admissions : inv[k].live => root[inv[k].root].open
              BY DEF InvocationInv, BrokerInv, LiveSound
            <7> QED
              BY <7>1, <7>2 DEF Unfinished
          <6> QED
            BY <1>3, <4>2, <5>1, <6>1, CountFacts
        <5>2. CASE r # 0
          BY <3>2, <5>2, CountsInvocations, Facts DEF BrokerInv, CountsWork
        <5> QED
          BY <5>1, <5>2
      <4>4. Cardinality(Unfinished(inv', q)) = Cardinality(Unfinished(inv, q)) + 1
        BY <4>1, <4>2, CountFacts
      <4> QED
        BY <2>3, <3>2, <4>3, <4>4
    <3> QED
      BY <3>1, <3>2
  <2>11. PendingExact'
    BY <2>10 DEF PendingExact, CountsWork, Unfinished
  <2>12. PinsAccounted'
    BY <1>1, <2>1, <2>5, Facts DEF BrokerInv, BrokerTyped, PinsAccounted
  <2>13. BrokerInv'
    BY <2>6, <2>8, <2>9, <2>11, <2>12 DEF BrokerInv
  <2>14. ASSUME NEW m \in Admissions PROVE WrapperAt(m)' BY <1>1, <2>1, <2>4, Facts DEF WrapperAt
  <2> QED
    BY <2>4, <2>13, <2>14 DEF InvocationInv, WrapperInv, WrapperSound
<1>5. CASE /\ queue' = queue \cup {n} /\ late' = late \cup {n}
           /\ UNCHANGED <<inv, root, wrapper, pinned, refused>>
  <2>1. BrokerTyped' /\ NumbersFresh' /\ LiveSound'
    BY <1>1, <1>3, <1>5, Facts DEF BrokerInv, BrokerTyped, NumbersFresh, LiveSound
  <2>2. PendingExact' /\ PinsAccounted'
    BY <1>1, <1>5, Facts DEF BrokerInv, PendingExact, PinsAccounted
  <2>3. WrapperTyped' /\ WrapperSound'
    BY <1>1, <1>5, Facts DEF WrapperTyped, WrapperSound, WrapperAt
  <2> QED
    BY <2>1, <2>2, <2>3 DEF InvocationInv, BrokerInv, WrapperInv
<1> QED BY <1>4, <1>5 DEF Admit

\* A start takes effect once, acknowledged or not: running code is the broker's epoch.
LEMMA NotifyStartSound ==
    ASSUME InvocationInv, NEW n \in Admissions, NotifyStart(n)
    PROVE  InvocationInv'
<1> DEFINE e == wrapper[n].epoch
           r == inv[n].root
           starts == Startable(n, e) /\ ~Repeated(n, e)
<1>1. /\ wrapper[n].st = "starting"
      /\ IF starts THEN Started(n, e) ELSE UNCHANGED <<inv, root>>
      /\ UNCHANGED <<queue, pinned, refused, late, admitted, revoked>>
      /\ \/ wrapper' = [wrapper EXCEPT ![n].st =
                            IF Startable(n, e) \/ Repeated(n, e) THEN "running" ELSE "gone"]
         \/ wrapper' = wrapper
    BY DEF NotifyStart
<1>2. e \in Nat /\ n <= admitted /\ wrapper[n].st # "none"
    BY <1>1, Facts DEF WrapperAt
<1>3. /\ WrapperTyped' /\ wrapper'[n].epoch = e
      /\ \/ wrapper'[n].st = IF Startable(n, e) \/ Repeated(n, e) THEN "running" ELSE "gone"
         \/ wrapper'[n].st = "starting"
      /\ \A m \in Admissions \ {n} : wrapper'[m] = wrapper[m]
    BY <1>1, Facts DEF WrapperTyped, WrapperStates, e
<1>4. CASE ~starts
  <2>1. UNCHANGED <<inv, root>>
    BY <1>1, <1>4
  <2>2. BrokerInv'
    BY <1>1, <2>1 DEF InvocationInv, BrokerInv, BrokerTyped, NumbersFresh, LiveSound, PendingExact,
       PinsAccounted
  <2>3. WrapperAt(n)'
    BY <1>1, <1>2, <1>3, <1>4, <2>1, Facts DEF WrapperAt, Repeated
  <2> QED
    BY <1>1, <1>3, <2>1, <2>2, <2>3, WrapperStep
<1>5. CASE starts
  <2> DEFINE again == inv[n].started
  <2>1. /\ inv[n].live /\ r \in Admissions
        /\ IF again THEN inv[n].complete /\ e = inv[n].epoch + 1 ELSE e = 1
    BY <1>5, Facts DEF Startable
  <2> DEFINE done == IF again THEN FALSE ELSE inv[n].complete
  <2>2. again \in BOOLEAN /\ inv[n].complete \in BOOLEAN /\ (done => n \in revoked /\ e = 1)
    BY <1>1, <2>1, Facts DEF WrapperAt, Invocation
  <2>3. /\ inv' = [inv EXCEPT ![n].started = TRUE, ![n].epoch = e,
                              ![n].complete = IF again THEN FALSE ELSE @]
        /\ root' = [root EXCEPT ![r].pending = IF again THEN @ + 1 ELSE @]
    BY <1>1, <1>5 DEF Started
  <2>4. /\ inv' \in [Admissions -> Invocation] /\ inv'[n].live /\ inv'[n].root = r
        /\ inv'[n].started /\ inv'[n].complete = done /\ inv'[n].epoch = e
        /\ \A m \in Admissions \ {n} : inv'[m] = inv[m]
    <3>1. /\ DOMAIN inv = Admissions /\ DOMAIN inv' = Admissions
          /\ inv' = [m \in Admissions |-> inv'[m]]
      BY <2>3, Facts
    <3>2. \A m \in Admissions \ {n} : inv'[m] = inv[m]
      BY <2>3, <3>1
    <3>3. inv[n] = [live |-> inv[n].live, root |-> r, started |-> again,
                    complete |-> inv[n].complete, epoch |-> inv[n].epoch]
      BY Facts DEF Invocation
    <3> DEFINE t == TRUE
               f == done
    <3>4. inv' = [inv EXCEPT ![n].started = t, ![n].epoch = e, ![n].complete = f]
      BY <2>3
    <3>5. t = TRUE /\ f = done /\ f \in BOOLEAN
      BY <2>2
    <3> HIDE DEF t, f, again, done, r, e, starts
    <3>6. inv'[n] = [live |-> inv[n].live, root |-> r, started |-> t, complete |-> f, epoch |-> e]
      BY <3>1, <3>3, <3>4
    <3>7. /\ inv'[n].live /\ inv'[n].root = r /\ inv'[n].started /\ inv'[n].complete = f
          /\ inv'[n].epoch = e
      BY <2>1, <3>5, <3>6
    <3>8. inv'[n] \in Invocation
      <4>1. r \in Nat /\ inv[n].live \in BOOLEAN /\ t \in BOOLEAN /\ f \in BOOLEAN
        BY <2>1, <2>2, <3>5, Facts DEF Invocation, Admissions
      <4> QED
        BY <1>2, <3>6, <4>1 DEF Invocation
    <3>9. \A m \in Admissions : inv'[m] \in Invocation
      BY <3>2, <3>8, Facts
    <3>10. inv' \in [Admissions -> Invocation]
      BY <3>1, <3>9
    <3> QED
      BY <3>2, <3>5, <3>7, <3>10
  <2>5. root[r].pending \in Int
    BY <2>1, Facts DEF Lifetime
  <2>6. /\ root' \in [Admissions -> Lifetime]
        /\ root'[r].pending = IF again THEN root[r].pending + 1 ELSE root[r].pending
        /\ \A m \in Admissions : root'[m].open = root[m].open
        /\ \A m \in Admissions \ {r} : root'[m] = root[m]
    <3> DEFINE p == IF again THEN root[r].pending + 1 ELSE root[r].pending
    <3>1. p \in Int /\ root' = [root EXCEPT ![r].pending = p]
      BY <2>3, <2>5
    <3> HIDE DEF p, r
    <3>2. /\ root' \in [Admissions -> Lifetime] /\ root'[r].pending = p
          /\ \A m \in Admissions : root'[m].open = root[m].open
          /\ \A m \in Admissions \ {r} : root'[m] = root[m]
      BY <2>1, <3>1, Facts DEF Lifetime
    <3> QED
      BY <3>2 DEF p
  <2>7. CountsWork(inv', root')
    <3> SUFFICES ASSUME NEW q \in Admissions, NEW m \in Admissions, inv'[m].live, inv'[m].root = q
                 PROVE  root'[q].pending = Cardinality(Unfinished(inv', q))
      BY DEF CountsWork
    <3>1. inv[m].live /\ inv[m].root = q
      BY <2>1, <2>4
    <3>2. root[q].pending = Cardinality(Unfinished(inv, q))
      BY <3>1, CountsInvocations, Facts DEF BrokerInv, CountsWork
    <3>3. CASE q = r /\ again
      <4>1. /\ Unfinished(inv', q) = Unfinished(inv, q) \cup {n}
            /\ n \notin Unfinished(inv, q) /\ Unfinished(inv, q) \subseteq Admissions
        BY <2>1, <2>2, <2>4, <3>3 DEF Unfinished
      <4>2. Cardinality(Unfinished(inv', q)) = Cardinality(Unfinished(inv, q)) + 1
        BY <4>1, CountFacts
      <4> QED
        BY <2>6, <3>2, <3>3, <4>2
    <3>4. CASE ~(q = r /\ again)
      <4>1. Unfinished(inv', q) = Unfinished(inv, q)
        BY <2>1, <2>2, <2>4, <3>4 DEF Unfinished
      <4> QED
        BY <2>6, <3>2, <3>4, <4>1
    <3> QED
      BY <3>3, <3>4
  <2>8. BrokerTyped'
    BY <1>1, <2>4, <2>6, Facts DEF BrokerInv, BrokerTyped
  <2>9. NumbersFresh'
      BY <1>1, <1>2, <2>1, Facts, <2>4, <2>6 DEF NumbersFresh, BrokerInv, LiveSound
  <2>10. LiveSound' BY <2>1, <2>4, <1>1, <2>6, Facts DEF LiveSound, BrokerInv
  <2>11. PendingExact'
    BY <2>7 DEF PendingExact, CountsWork, Unfinished
  <2>12. PinsAccounted'
    BY <1>1, <2>1, <2>4, Facts DEF BrokerInv, BrokerTyped, PinsAccounted
  <2>13. BrokerInv'
    BY <2>8, <2>9, <2>10, <2>11, <2>12 DEF BrokerInv
  <2>14. WrapperAt(n)'
    BY <1>1, <1>2, <1>3, <2>2, <2>4, Facts DEF WrapperAt
  <2> QED
    BY <1>1, <1>3, <2>4, <2>13, <2>14, WrapperStep
<1> QED
    BY <1>4, <1>5

\* A lost process leaves no running code, and the pins it held are queued.
LEMMA ProcessLostSound ==
    ASSUME InvocationInv, ProcessLost
    PROVE  InvocationInv'
<1>1. /\ wrapper' = [n \in Admissions |-> IF wrapper[n].st = "none" THEN wrapper[n]
                                          ELSE [wrapper[n] EXCEPT !.st = "gone"]]
      /\ inv' = [n \in Admissions |-> IF inv[n].live THEN NoInvocation ELSE inv[n]]
      /\ queue' = queue \cup {n \in Admissions : inv[n].live}
      /\ UNCHANGED <<root, pinned, refused, late, admitted, revoked>>
    BY DEF ProcessLost, Drop
<1>2. inv' \in [Admissions -> Invocation] /\ \A n \in Admissions : ~inv'[n].live
    BY <1>1, Facts DEF NoInvocation, Invocation
<1>3. ASSUME NEW n \in Admissions
      PROVE  /\ wrapper'[n] \in [st : WrapperStates, epoch : Nat]
             /\ wrapper'[n].st \in {"none", "gone"}
             /\ wrapper[n].st = "none" => wrapper'[n] = wrapper[n]
    BY <1>1, Facts DEF WrapperStates
<1>4. WrapperTyped'
    BY <1>1, <1>3 DEF WrapperTyped
<1>5. WrapperSound' BY <1>1, <1>2, <1>3, Facts DEF WrapperSound, WrapperAt
<1>6. BrokerTyped'
    BY <1>1, <1>2 DEF InvocationInv, BrokerInv, BrokerTyped
<1>7. NumbersFresh'
    BY <1>1, <1>2 DEF InvocationInv, BrokerInv, NumbersFresh
<1>8. LiveSound' /\ PendingExact'
    BY <1>2 DEF LiveSound, PendingExact
<1>9. PinsAccounted'
    BY <1>1 DEF InvocationInv, BrokerInv, BrokerTyped, PinsAccounted
<1> QED
    BY <1>4, <1>5, <1>6, <1>7, <1>8, <1>9 DEF InvocationInv, BrokerInv, WrapperInv

-----------------------------------------------------------------------------
(* The theorems.                                                           *)

\* Nothing is admitted at first.
LEMMA InvocationInitSound == InvocationInit => InvocationInv
<1> SUFFICES ASSUME InvocationInit PROVE InvocationInv
    OBVIOUS
<1>1. NoInvocation \in Invocation /\ ~NoInvocation.live
    BY DEF NoInvocation, Invocation
<1>2. /\ inv \in [Admissions -> Invocation] /\ \A n \in Admissions : ~inv[n].live
      /\ admitted = 0 /\ queue = {} /\ pinned = {} /\ refused = {} /\ late = {}
    BY <1>1 DEF InvocationInit
<1>3. /\ root \in [Admissions -> Lifetime]
      /\ \A n \in Admissions : ~root[n].open /\ root[n].pending = 0
    BY DEF InvocationInit, Lifetime
<1>4. /\ WrapperTyped
      /\ \A n \in Admissions : wrapper[n].st = "none" /\ wrapper[n].epoch = 0
    BY DEF InvocationInit, WrapperTyped, WrapperStates
<1>5. BrokerInv
    BY <1>2, <1>3 DEF BrokerInv, BrokerTyped, NumbersFresh, LiveSound, PendingExact, PinsAccounted
<1>6. WrapperSound
    BY <1>2, <1>4 DEF WrapperSound, WrapperAt
<1> QED
    BY <1>4, <1>5, <1>6 DEF InvocationInv, WrapperInv

\* Every step of the broker, the wrappers and the process keeps the invariant.
LEMMA InvocationNextSound == InvocationInv /\ [InvocationNext]_invocationVars => InvocationInv'
<1> SUFFICES ASSUME InvocationInv, [InvocationNext]_invocationVars PROVE InvocationInv'
    OBVIOUS
<1>1. CASE AdmitRequest
    BY <1>1, AdmitSound DEF AdmitRequest
<1>2. CASE ProcessLost
    BY <1>2, ProcessLostSound
<1>3. ASSUME NEW n \in Admissions, CallService(n) PROVE InvocationInv'
    BY <1>3, Facts, AdmitSound DEF CallService, BrokerInv, LiveSound, Admissions
<1>4. ASSUME NEW n \in Admissions,
             \/ LateAdmit(n) \/ ReleaseRoot(n) \/ CompleteWithoutExecution(n) \/ Abandon(n)
             \/ BeginEpoch(n) \/ NotifyStart(n) \/ UserDone(n) \/ NotifyComplete(n)
             \/ FlushRelease(n)
             \/ \E e \in 1..MaxEpoch : LateComplete(n, e)
      PROVE InvocationInv'
    BY <1>4, LateAdmitSound, ReleaseRootSound, CompleteWithoutExecutionSound, AbandonSound,
       BeginEpochSound, NotifyStartSound, UserDoneSound, NotifyCompleteSound, FlushReleaseSound,
       LateCompleteSound
<1>5. CASE UNCHANGED invocationVars
    BY <1>5 DEF invocationVars, InvocationInv, BrokerInv, BrokerTyped, NumbersFresh, LiveSound,
       PendingExact, PinsAccounted, WrapperInv, WrapperTyped, WrapperSound, WrapperAt
<1> QED
    BY <1>1, <1>2, <1>3, <1>4, <1>5 DEF InvocationNext

\* The inductive invariant of the broker and its wrappers.
THEOREM InvocationInductive == InvocationSpec => []InvocationInv
BY InvocationInitSound, InvocationNextSound, PTL DEF InvocationSpec

\* Whatever is lost, late or repeated: a root counts its unfinished work exactly, running
\* user code keeps its pin unless its call was abandoned during its start handshake, and
\* no pin is forgotten.
THEOREM PinsProved == InvocationSpec => []PinsExact
<1>1. InvocationInv => PinsExact
    BY Facts DEF RunningWorkPinned, BrokerInv, LiveSound, WrapperAt, InvocationInv, PinsExact
<1> QED
    BY <1>1, InvocationInductive, PTL

-----------------------------------------------------------------------------
(***************************************************************************)
(* Publication, recovery and collection in the dynamic manager.  What      *)
(* RoutesBacked, InvocationsOfSession and GrantsAccounted promise holds    *)
(* for every set of revisions, any number of operations and faults, and    *)
(* any depth of recoveries nested in one another.                          *)
(*                                                                         *)
(* The argument is about the keys the manager must not lose: those of the  *)
(* committed routes, of the pending publication and, while a job builds    *)
(* and validates, its candidates.  Each of them has a registered record    *)
(* that no collection has marked, of the session in force, and the control *)
(* plane holds its grant as long as it knows that session (KeysKept,       *)
(* GrantsRecorded).  What a step may rely on at each point of a job is     *)
(* JobSound, and BrokerFirst says that nothing happens before a first      *)
(* session was opened with the broker.                                     *)
(***************************************************************************)

Snapshot == [known : BOOLEAN, registered : BOOLEAN, retired : BOOLEAN, validated : BOOLEAN, failed : BOOLEAN]
Pending == [open : BOOLEAN, keys : SUBSET Keys, active : SUBSET Revisions]
Manager == [session : 0..MaxSessions, process : 0..MaxProcesses, broker : BOOLEAN, closed : BOOLEAN,
            committed : SUBSET Keys, active : SUBSET Revisions, pending : Pending, running : SUBSET Keys]
JobSteps == {"idle", "session", "stage", "build", "validate", "route", "publish", "retire", "fail",
             "recover", "close", "open"}
Job == [kind : {"none", "restore", "write", "prepare", "check", "commit", "heartbeat", "watch"},
        pc : JobSteps,
        goal : SUBSET Revisions, target : Revisions \cup {NoRevision}, rec : Nat,
        old : 0..MaxSessions, keys : SUBSET Keys, todo : SUBSET (Keys \cup Revisions)]
Control == [live : SUBSET (1..MaxSessions), deleted : SUBSET Revisions,
            grant : [Keys -> {"absent", "registered", "published", "retired"}]]
Watcher == [by : {"heartbeat", "watch"}, process : 0..MaxProcesses, session : 0..MaxSessions]

RuntimeTyped ==
    /\ dm \in Manager /\ snap \in [Keys -> Snapshot] /\ retiring \in SUBSET Keys
    /\ job \in Job /\ watchers \in SUBSET Watcher /\ control \in Control
    /\ left \in [ops : Nat, faults : Nat]

\* Sessions, processes, routes and recoveries come after the broker.
BrokerFirst ==
    \/ dm.broker
    \/ /\ dm.session = 0 /\ dm.process = 0 /\ dm.committed = {} /\ dm.running = {} /\ dm.pending.keys = {}
       /\ watchers = {} /\ job.kind \notin {"heartbeat", "watch"}
       /\ job.pc \notin {"build", "validate", "recover", "close", "open"}

\* The candidates of a job that no pending publication owns yet.
Candidates == IF job.pc \in {"build", "validate"} THEN job.keys ELSE {}

KeptKeys == dm.committed \cup dm.pending.keys \cup Candidates

\* The session in force, unless a failed recovery has given it up.
OfSession(k) == dm.session # 0 => SessionOfKey(k) = dm.session

KeysKept ==
    \A k \in KeptKeys : /\ snap[k].known /\ snap[k].registered /\ ~snap[k].retired
                        /\ k \notin retiring /\ OfSession(k)

\* A marked record stays marked until it goes away, and nothing is left of it then.
MarksSound ==
    /\ \A k \in retiring : snap[k].known => snap[k].retired
    /\ \A k \in Keys : ~snap[k].known => ~snap[k].registered /\ ~snap[k].retired

\* Here and there agree on the grants of the session in force.
GrantsRecorded ==
    \A k \in Keys : (SessionOfKey(k) = dm.session /\ dm.session # 0) =>
        /\ control.grant[k] \in {"registered", "published"} => snap[k].known
        /\ snap[k].known /\ snap[k].registered /\ ~snap[k].retired /\ KnownSession(dm.session)
              => control.grant[k] \in {"registered", "published"}

\* Only broken revisions fail; a route that works has been published.
Published(k) == (KnownSession(dm.session) /\ dm.session # 0) => control.grant[k] = "published"
RoutesPublished ==
    /\ \A k \in Keys : snap[k].failed => RevisionOfKey(k) \in Broken
    /\ \A k \in dm.committed : snap[k].failed \/ Published(k)

InvocationsHeld ==
    \A k \in dm.running : /\ dm.process # 0 /\ snap[k].known /\ k \notin retiring /\ OfSession(k)

\* What each step of a job finds.
JobSound ==
    /\ job.pc = "publish" =>
          /\ job.todo \subseteq dm.pending.keys
          /\ \A k \in dm.pending.keys \ job.todo : snap[k].failed \/ Published(k)
    /\ job.pc = "retire" => dm.pending.keys = {} /\ job.todo \subseteq Keys \ dm.committed
    /\ job.pc \in {"build", "validate"} => job.todo \subseteq Revisions
    /\ job.pc \in {"close", "open"} =>
          dm.session = 0 /\ dm.process = 0 /\ dm.running = {} /\ dm.pending.keys = {}

RuntimeInv ==
    /\ RuntimeTyped /\ BrokerFirst /\ KeysKept /\ MarksSound /\ GrantsRecorded
    /\ RoutesPublished /\ InvocationsHeld /\ JobSound
-----------------------------------------------------------------------------
(* What the operators of the model do.                                     *)

\* A key names a session, a revision and a draw.
LEMMA KeyParts ==
  /\ \A k \in Keys : SessionOfKey(k) \in 0..MaxSessions /\ RevisionOfKey(k) \in Revisions
  /\ \A s \in 0..MaxSessions, r \in Revisions, n \in 1..MaxDraws :
        /\ <<s, r, n>> \in Keys
        /\ SessionOfKey(<<s, r, n>>) = s /\ RevisionOfKey(<<s, r, n>>) = r
  BY DEF Keys, SessionOfKey, RevisionOfKey

\* The states of a job that a step produces.
LEMMA JobUpdates ==
  ASSUME job \in Job
  PROVE /\ NoJob \in Job
        /\ \A todo \in SUBSET (Keys \cup Revisions) : [job EXCEPT !.todo = todo] \in Job
        /\ \A pc \in JobSteps :
             /\ [job EXCEPT !.pc = pc] \in Job
             /\ [job EXCEPT !.pc = pc, !.rec = @ + 1] \in Job
             /\ \A s \in 0..MaxSessions : [job EXCEPT !.pc = pc, !.old = s] \in Job
             /\ \A todo \in SUBSET (Keys \cup Revisions) :
                  /\ [job EXCEPT !.pc = pc, !.todo = todo] \in Job
                  /\ \A keys \in SUBSET Keys :
                       /\ [job EXCEPT !.pc = pc, !.keys = keys, !.todo = todo] \in Job
                       /\ [job EXCEPT !.pc = pc, !.todo = todo, !.keys = keys] \in Job
             /\ \A keys \in SUBSET Keys : 
                  job.rec >= 1 => [job EXCEPT !.pc = pc, !.rec = @ - 1, !.keys = keys] \in Job
<1>0. MaxSessions \in Nat BY RuntimeAssumption
<1>1. NoJob \in Job BY <1>0 DEF NoJob, Job, JobSteps
<1>2. ASSUME NEW todo \in SUBSET (Keys \cup Revisions) PROVE [job EXCEPT !.todo = todo] \in Job
  BY DEF Job
<1>3. ASSUME NEW pc \in JobSteps
      PROVE /\ [job EXCEPT !.pc = pc] \in Job
            /\ [job EXCEPT !.pc = pc, !.rec = @ + 1] \in Job
            /\ \A s \in 0..MaxSessions : [job EXCEPT !.pc = pc, !.old = s] \in Job
  <2>1. [job EXCEPT !.pc = pc] \in Job BY DEF Job
  <2>2. job.rec + 1 \in Nat BY DEF Job
  <2>3. ASSUME NEW n \in Nat PROVE [job EXCEPT !.pc = pc, !.rec = n] \in Job BY DEF Job
  <2>4. [job EXCEPT !.pc = pc, !.rec = job.rec + 1] \in Job BY <2>2, <2>3
  <2>5. ASSUME NEW s \in 0..MaxSessions PROVE [job EXCEPT !.pc = pc, !.old = s] \in Job BY DEF Job
  <2> QED BY <2>1, <2>4, <2>5
<1>4. ASSUME NEW pc \in JobSteps, NEW todo \in SUBSET (Keys \cup Revisions)
      PROVE /\ [job EXCEPT !.pc = pc, !.todo = todo] \in Job
            /\ \A keys \in SUBSET Keys :
                 /\ [job EXCEPT !.pc = pc, !.keys = keys, !.todo = todo] \in Job
                 /\ [job EXCEPT !.pc = pc, !.todo = todo, !.keys = keys] \in Job BY DEF Job
<1>5. ASSUME NEW pc \in JobSteps, NEW keys \in SUBSET Keys, job.rec >= 1
      PROVE [job EXCEPT !.pc = pc, !.rec = @ - 1, !.keys = keys] \in Job
  <2>1. job.rec - 1 \in Nat BY <1>5 DEF Job
  <2>2. ASSUME NEW n \in Nat PROVE [job EXCEPT !.pc = pc, !.rec = n, !.keys = keys] \in Job BY DEF Job
  <2>3. [job EXCEPT !.pc = pc, !.rec = job.rec - 1, !.keys = keys] \in Job BY <2>1, <2>2
  <2> QED BY <2>3
<1> QED BY <1>1, <1>2, <1>3, <1>4, <1>5

\* A publication held, dropped or swapped in is a publication.
LEMMA PendingUpdates ==
  ASSUME dm \in Manager
  PROVE NoPending \in Pending /\ \A p \in Pending : [dm EXCEPT !.pending = p] \in Manager
BY DEF NoPending, Pending, Manager

\* A session that is opened belongs to nobody and nothing is left of it.
LEMMA FreshSessionIs ==
  ASSUME NEW s \in FreshSession
  PROVE /\ s \in 1..MaxSessions /\ s \notin control.live /\ s # dm.session
        /\ \A k \in Keys : SessionOfKey(k) = s =>
              /\ ~snap[k].known /\ k \notin retiring /\ k \notin dm.committed
              /\ control.grant[k] = "absent"
  BY DEF FreshSession, Lowest

\* close-session forgets one session and its grants.
LEMMA ClosedSession ==
  ASSUME control \in Control, NEW s
  PROVE /\ CloseSession(s) \in Control
        /\ CloseSession(s).live = control.live \ {s}
        /\ CloseSession(s).deleted = control.deleted
        /\ \A k \in Keys : CloseSession(s).grant[k]
                            = IF SessionOfKey(k) = s THEN "absent" ELSE control.grant[k]
BY DEF CloseSession, Control

\* A call about one grant changes that grant.
LEMMA OneGrant ==
  ASSUME control \in Control, NEW k \in Keys, NEW g \in {"registered", "published", "retired"}
  PROVE /\ Grant(k, g) \in Control
        /\ Grant(k, g).live = control.live /\ Grant(k, g).deleted = control.deleted
        /\ Grant(k, g).grant[k] = g
        /\ \A x \in Keys : x # k => Grant(k, g).grant[x] = control.grant[x]
BY DEF Grant, Control

\* A collection marks the records it will retire and changes nothing else about them.
LEMMA CollectMarks ==
  ASSUME snap \in [Keys -> Snapshot], retiring \in SUBSET Keys, NEW ks \in SUBSET Keys, Collect(ks)
  PROVE /\ snap' \in [Keys -> Snapshot] /\ retiring' \in SUBSET Keys
        /\ retiring' = retiring \cup ks
        /\ \A k \in Keys :
              /\ snap'[k].known = snap[k].known /\ snap'[k].registered = snap[k].registered
              /\ snap'[k].failed = snap[k].failed
              /\ k \in ks => snap'[k].retired
              /\ k \notin ks => snap'[k] = snap[k]
BY DEF Collect, Snapshot

\* A collection takes no key that is retained, and none while candidates are built.
LEMMA CollectableKeys ==
  ASSUME NEW d
  PROVE /\ Collectable(d) \in SUBSET Keys
        /\ \A k \in Collectable(d) : /\ snap[k].known /\ ~Staging
                                     /\ k \notin d.committed /\ k \notin d.pending.keys /\ k \notin d.running
  BY DEF Collectable, Retained

\* A record of which one field changes stays a record.
LEMMA SnapshotUpdates ==
  ASSUME snap \in [Keys -> Snapshot], NEW k \in Keys
  PROVE /\ Absent \in Snapshot
        /\ [snap[k] EXCEPT !.known = TRUE] \in Snapshot
        /\ [snap[k] EXCEPT !.known = TRUE].registered = snap[k].registered
  BY DEF Snapshot, Absent
\* A publisher that takes the lock has no candidates yet.
LEMMA StartPublisherKeeps == ASSUME NEW p \in Publications, RuntimeInv, StartPublisher(p) PROVE RuntimeInv'
<1> USE DEF RuntimeInv
<1>1. RuntimeTyped'
  <2>1. dm' \in Manager BY DEF StartPublisher, RuntimeTyped
  <2>2. snap' \in [Keys -> Snapshot] BY DEF StartPublisher, RuntimeTyped
  <2>3. retiring' \in SUBSET Keys BY DEF StartPublisher, RuntimeTyped
  <2>4. job' \in Job
    <3>1. /\ p.kind \in {"restore", "write", "prepare", "check"} /\ p.goal \in SUBSET Revisions
          /\ p.target \in Revisions \cup {NoRevision}
      BY RuntimeAssumption
    <3>2. NoJob \in Job BY JobUpdates DEF RuntimeTyped
    <3>3. ASSUME NEW pc \in JobSteps
          PROVE [NoJob EXCEPT !.kind = p.kind, !.goal = p.goal, !.target = p.target, !.pc = pc] \in Job
      BY <3>1, <3>2 DEF Job
    <3>4. "stage" \in JobSteps /\ "session" \in JobSteps BY DEF JobSteps
    <3>5. PICK pc \in JobSteps : 
             job' = [NoJob EXCEPT !.kind = p.kind, !.goal = p.goal, !.target = p.target, !.pc = pc]
      BY <3>4 DEF StartPublisher
    <3> QED BY <3>3, <3>5
  <2>5. watchers' \in SUBSET Watcher BY DEF StartPublisher, RuntimeTyped
  <2>6. control' \in Control BY DEF StartPublisher, RuntimeTyped
  <2>7. left' \in [ops : Nat, faults : Nat] BY DEF StartPublisher, RuntimeTyped
  <2> QED BY <2>1, <2>2, <2>3, <2>4, <2>5, <2>6, <2>7 DEF RuntimeTyped
<1>2. BrokerFirst'
  BY RuntimeAssumption DEF StartPublisher, NoJob, BrokerFirst, RuntimeTyped, Manager, Pending, Job,
                           Control, Watcher, Snapshot
<1>3. KeysKept' BY DEF StartPublisher, KeysKept, KeptKeys, Candidates, OfSession
<1>4. MarksSound' BY DEF StartPublisher, MarksSound
<1>5. GrantsRecorded' BY DEF StartPublisher, GrantsRecorded, KnownSession
<1>6. RoutesPublished' BY DEF StartPublisher, RoutesPublished, Published, KnownSession
<1>7. InvocationsHeld' BY DEF StartPublisher, InvocationsHeld, OfSession
<1>8. JobSound' BY DEF StartPublisher, JobSound, Published, KnownSession
<1> QED BY <1>1, <1>2, <1>3, <1>4, <1>5, <1>6, <1>7, <1>8 DEF RuntimeInv

\* Looking at the session only decides what the job does next.
LEMMA CheckSessionKeeps == ASSUME RuntimeInv, CheckSession PROVE RuntimeInv'
<1> USE DEF RuntimeInv
<1>a. job'.pc \in {"recover", "stage", "fail"}
  BY DEF CheckSession, Recovering, Goto, RuntimeTyped, Job
<1>1. RuntimeTyped'
  <2>1. dm' \in Manager BY DEF CheckSession, RuntimeTyped
  <2>2. snap' \in [Keys -> Snapshot] BY DEF CheckSession, RuntimeTyped
  <2>3. retiring' \in SUBSET Keys BY DEF CheckSession, RuntimeTyped
  <2>4. job' \in Job BY JobUpdates DEF CheckSession, Recovering, Goto, JobSteps, RuntimeTyped
  <2>5. watchers' \in SUBSET Watcher BY DEF CheckSession, RuntimeTyped
  <2>6. control' \in Control BY DEF CheckSession, RuntimeTyped
  <2>7. left' \in [ops : Nat, faults : Nat] BY DEF CheckSession, Recovering, Goto, Fault, RuntimeTyped
  <2> QED BY <2>1, <2>2, <2>3, <2>4, <2>5, <2>6, <2>7 DEF RuntimeTyped
<1>2. BrokerFirst' BY DEF CheckSession, Recovering, Goto, Fault, BrokerFirst, RuntimeTyped, Job
<1>3. KeysKept'
  BY DEF CheckSession, Recovering, Goto, Fault, KeysKept, KeptKeys, Candidates, OfSession, RuntimeTyped,
         Job
<1>4. MarksSound' BY DEF CheckSession, MarksSound
<1>5. GrantsRecorded' BY DEF CheckSession, GrantsRecorded, KnownSession
<1>6. RoutesPublished' BY DEF CheckSession, RoutesPublished, Published, KnownSession
<1>7. InvocationsHeld' BY DEF CheckSession, InvocationsHeld, OfSession
<1>8. JobSound' BY <1>a DEF JobSound
<1> QED BY <1>1, <1>2, <1>3, <1>4, <1>5, <1>6, <1>7, <1>8 DEF RuntimeInv

\* A refused publication changes nothing, an empty one needs no process.
LEMMA StageKeeps == ASSUME RuntimeInv, Stage PROVE RuntimeInv'
<1> USE DEF RuntimeInv
<1>1. RuntimeTyped'
  <2>1. dm' \in Manager
    <3>1. [open |-> TRUE, keys |-> {}, active |-> {}] \in Pending BY DEF Pending
    <3> QED BY <3>1, PendingUpdates DEF Stage, Hold, Goto, RuntimeTyped
  <2>2. snap' \in [Keys -> Snapshot] BY DEF Stage, RuntimeTyped
  <2>3. retiring' \in SUBSET Keys BY DEF Stage, RuntimeTyped
  <2>4. job' \in Job BY JobUpdates DEF Stage, Hold, Goto, NoJob, JobSteps, RuntimeTyped
  <2>5. watchers' \in SUBSET Watcher BY DEF Stage, RuntimeTyped
  <2>6. control' \in Control BY DEF Stage, RuntimeTyped
  <2>7. left' \in [ops : Nat, faults : Nat] BY DEF Stage, RuntimeTyped
  <2> QED BY <2>1, <2>2, <2>3, <2>4, <2>5, <2>6, <2>7 DEF RuntimeTyped
<1>2. BrokerFirst' BY DEF Stage, Hold, Goto, NoJob, BrokerFirst, RuntimeTyped, Manager, Job
<1>3. KeysKept'
  BY DEF Stage, Hold, Goto, NoJob, KeysKept, KeptKeys, Candidates, OfSession, RuntimeTyped, Manager, Job
<1>4. MarksSound' BY DEF Stage, MarksSound
<1>5. GrantsRecorded'
  BY DEF Stage, Hold, Goto, NoJob, GrantsRecorded, KnownSession, RuntimeTyped, Manager
<1>6. RoutesPublished'
  BY DEF Stage, Hold, Goto, NoJob, RoutesPublished, Published, KnownSession, RuntimeTyped, Manager
<1>7. InvocationsHeld'
  BY DEF Stage, Hold, Goto, NoJob, InvocationsHeld, OfSession, RuntimeTyped, Manager
<1>8. JobSound' BY DEF Stage, Hold, Goto, NoJob, JobSound, Published, KnownSession, RuntimeTyped, Job
<1> QED BY <1>1, <1>2, <1>3, <1>4, <1>5, <1>6, <1>7, <1>8 DEF RuntimeInv

\* The first session finds no routes, invocations or records of its own.
LEMMA BootBrokerKeeps == ASSUME RuntimeInv, BootBroker PROVE RuntimeInv'
<1> USE DEF RuntimeInv
<1>a. PICK s \in FreshSession :
         /\ control' \in {control, [control EXCEPT !.live = @ \cup {s}]}
         /\ \/ dm' = [dm EXCEPT !.session = s, !.broker = TRUE] /\ job' = job
            \/ dm' = dm /\ job' = [job EXCEPT !.pc = "fail"]
  BY DEF BootBroker, OpenSession, ControlCall, Goto
<1>b. /\ UNCHANGED <<snap, retiring, watchers>> /\ job.pc = "stage"
      /\ dm.session = 0 /\ dm.committed = {} /\ dm.running = {} /\ dm.pending.keys = {}
  BY DEF BootBroker, Booting, BrokerFirst
<1>c. /\ dm'.process = dm.process /\ dm'.committed = {} /\ dm'.running = {} /\ dm'.pending.keys = {}
      /\ dm'.session = s \/ dm'.session = 0
      /\ dm' = dm \/ dm'.broker
      /\ job'.pc \in {"stage", "fail"} /\ job'.kind = job.kind
      /\ control'.grant = control.grant
  BY <1>a, <1>b DEF RuntimeTyped, Manager, Job, Control
<1>1. RuntimeTyped'
  <2>1. dm' \in Manager
    <3>1. s \in 0..MaxSessions BY FreshSessionIs, RuntimeAssumption
    <3>2. [dm EXCEPT !.session = s, !.broker = TRUE] \in Manager BY <3>1 DEF RuntimeTyped, Manager
    <3> QED BY <1>a, <3>2 DEF RuntimeTyped
  <2>2. snap' \in [Keys -> Snapshot] BY DEF BootBroker, RuntimeTyped
  <2>3. retiring' \in SUBSET Keys BY DEF BootBroker, RuntimeTyped
  <2>4. job' \in Job
    BY JobUpdates DEF BootBroker, Booting, Refused, NothingToRun, OpenSession, FreshSession, Lowest,
                      Goto, ControlCall, Fault, KnownSession, Grant, CloseSession, JobSteps,
                      RuntimeTyped
  <2>5. watchers' \in SUBSET Watcher BY DEF BootBroker, RuntimeTyped
  <2>6. control' \in Control
    BY DEF BootBroker, Booting, Refused, NothingToRun, OpenSession, FreshSession, Lowest, Goto,
           ControlCall, Fault, KnownSession, Grant, CloseSession, RuntimeTyped, Control
  <2>7. left' \in [ops : Nat, faults : Nat]
    BY DEF BootBroker, Booting, Refused, NothingToRun, OpenSession, FreshSession, Lowest, Goto,
           ControlCall, Fault, KnownSession, Grant, CloseSession, RuntimeTyped
  <2> QED BY <2>1, <2>2, <2>3, <2>4, <2>5, <2>6, <2>7 DEF RuntimeTyped
<1>2. BrokerFirst' BY <1>b, <1>c DEF BrokerFirst
<1>3. KeysKept' BY <1>c DEF KeysKept, KeptKeys, Candidates
<1>4. MarksSound' BY DEF BootBroker, MarksSound
<1>5. GrantsRecorded' BY <1>b, <1>c, FreshSessionIs DEF GrantsRecorded
<1>6. RoutesPublished' BY <1>b, <1>c DEF RoutesPublished
<1>7. InvocationsHeld' BY <1>c DEF InvocationsHeld
<1>8. JobSound'
  BY DEF BootBroker, Booting, Refused, NothingToRun, OpenSession, FreshSession, Lowest, Goto,
         ControlCall, Fault, KnownSession, Grant, CloseSession, JobSound, Published, RuntimeTyped,
         Manager, Job
<1> QED BY <1>1, <1>2, <1>3, <1>4, <1>5, <1>6, <1>7, <1>8 DEF RuntimeInv

\* A new process has validated nothing, and the job no candidates.
LEMMA BootKeeps == ASSUME RuntimeInv, Boot PROVE RuntimeInv'
<1> USE DEF RuntimeInv
<1>a. /\ \/ snap' = snap \/ snap' = [k \in Keys |-> [snap[k] EXCEPT !.validated = FALSE]]
      /\ \/ job' = [job EXCEPT !.pc = "build", !.keys = {}, !.todo = Goal]
         \/ job' = [job EXCEPT !.pc = "fail"]
      /\ \/ dm' = dm \/ \E p \in FreshProcess : dm' = [dm EXCEPT !.process = p]
      /\ UNCHANGED <<retiring, control, watchers>>
  BY DEF Boot, Goto
<1>b. \A k \in Keys : /\ snap'[k] \in Snapshot /\ snap'[k].known = snap[k].known
                      /\ snap'[k].registered = snap[k].registered /\ snap'[k].retired = snap[k].retired
                      /\ snap'[k].failed = snap[k].failed
  <2>1. ASSUME NEW k \in Keys
        PROVE LET s == [snap[k] EXCEPT !.validated = FALSE]
              IN  /\ s \in Snapshot /\ s.known = snap[k].known /\ s.registered = snap[k].registered
                  /\ s.retired = snap[k].retired /\ s.failed = snap[k].failed
    BY DEF RuntimeTyped, Snapshot
  <2>2. \A k \in Keys : snap'[k] = snap[k] \/ snap'[k] = [snap[k] EXCEPT !.validated = FALSE]
    BY <1>a
  <2>3. \A k \in Keys : snap[k] \in Snapshot BY DEF RuntimeTyped
  <2> QED BY <2>1, <2>2, <2>3
<1>c. Goal \in SUBSET Revisions BY DEF Goal, RuntimeTyped, Manager, Job
<1>d. /\ job'.pc \in {"build", "fail"}
      /\ job'.pc = "build" => job'.keys = {} /\ job'.todo \subseteq Revisions
  BY <1>a, <1>c DEF RuntimeTyped, Job
<1>e. /\ dm'.session = dm.session /\ dm'.committed = dm.committed /\ dm'.running = dm.running
      /\ dm'.pending = dm.pending
  BY <1>a DEF RuntimeTyped, Manager
<1>1. RuntimeTyped'
  <2>1. dm' \in Manager
    BY DEF Boot, Booting, Goal, FreshProcess, Lowest, Goto, Fault, RuntimeTyped, Manager
  <2>2. snap' \in [Keys -> Snapshot] BY <1>b, <1>a DEF RuntimeTyped
  <2>3. retiring' \in SUBSET Keys BY DEF Boot, RuntimeTyped
  <2>4. job' \in Job
    <3>1. Goal \in SUBSET (Keys \cup Revisions) /\ {} \in SUBSET Keys BY <1>c
    <3>2. "build" \in JobSteps /\ "fail" \in JobSteps BY DEF JobSteps
    <3>3. job \in Job BY DEF RuntimeTyped
    <3>4. [job EXCEPT !.pc = "fail"] \in Job BY <3>2, <3>3, JobUpdates
    <3>5. [job EXCEPT !.pc = "build", !.keys = {}, !.todo = Goal] \in Job BY <3>1, <3>2, <3>3, JobUpdates
    <3> QED BY <1>a, <3>4, <3>5
  <2>5. watchers' \in SUBSET Watcher BY DEF Boot, RuntimeTyped
  <2>6. control' \in Control BY DEF Boot, RuntimeTyped
  <2>7. left' \in [ops : Nat, faults : Nat] BY DEF Boot, Goto, Fault, RuntimeTyped
  <2> QED BY <2>1, <2>2, <2>3, <2>4, <2>5, <2>6, <2>7 DEF RuntimeTyped
<1>2. BrokerFirst' BY DEF Boot, Goto, Fault, BrokerFirst, RuntimeTyped, Manager
<1>3. KeysKept'
    BY <1>d, <1>e, <1>a, <1>b DEF KeptKeys, Candidates, RuntimeTyped, Manager, Pending, KeysKept,
       OfSession
<1>4. MarksSound' BY <1>a, <1>b DEF MarksSound, RuntimeTyped
<1>5. GrantsRecorded' BY <1>a, <1>b, <1>e DEF GrantsRecorded, KnownSession
<1>6. RoutesPublished'
  BY <1>a, <1>b, <1>e DEF RoutesPublished, Published, KnownSession, RuntimeTyped, Manager
<1>7. InvocationsHeld' BY DEF Boot, Goto, Fault, InvocationsHeld, OfSession, RuntimeTyped, Manager
<1>8. JobSound' BY <1>d DEF JobSound
<1> QED BY <1>1, <1>2, <1>3, <1>4, <1>5, <1>6, <1>7, <1>8 DEF RuntimeInv

\* An empty set of candidates becomes the pending publication.
LEMMA BuildNothingKeeps == ASSUME RuntimeInv, BuildNothing PROVE RuntimeInv'
<1> USE DEF RuntimeInv
<1>1. RuntimeTyped'
  <2>1. dm' \in Manager
    <3>1. Goal \in SUBSET Revisions BY DEF Goal, RuntimeTyped, Manager, Job
    <3>2. [open |-> TRUE, keys |-> {}, active |-> Goal] \in Pending BY <3>1 DEF Pending
    <3> QED BY <3>2, PendingUpdates DEF BuildNothing, Hold, RuntimeTyped
  <2>2. snap' \in [Keys -> Snapshot] BY DEF BuildNothing, RuntimeTyped
  <2>3. retiring' \in SUBSET Keys BY DEF BuildNothing, RuntimeTyped
  <2>4. job' \in Job BY JobUpdates DEF BuildNothing, Hold, NoJob, JobSteps, RuntimeTyped
  <2>5. watchers' \in SUBSET Watcher BY DEF BuildNothing, RuntimeTyped
  <2>6. control' \in Control BY DEF BuildNothing, RuntimeTyped
  <2>7. left' \in [ops : Nat, faults : Nat] BY DEF BuildNothing, RuntimeTyped
  <2> QED BY <2>1, <2>2, <2>3, <2>4, <2>5, <2>6, <2>7 DEF RuntimeTyped
<1>2. BrokerFirst' BY DEF BuildNothing, Hold, NoJob, BrokerFirst, RuntimeTyped, Manager
<1>3. KeysKept'
  BY DEF BuildNothing, Hold, NoJob, KeysKept, KeptKeys, Candidates, OfSession, RuntimeTyped, Manager,
         Job
<1>4. MarksSound' BY DEF BuildNothing, MarksSound
<1>5. GrantsRecorded'
  BY DEF BuildNothing, Hold, NoJob, GrantsRecorded, KnownSession, RuntimeTyped, Manager
<1>6. RoutesPublished'
  BY DEF BuildNothing, Hold, NoJob, RoutesPublished, Published, KnownSession, RuntimeTyped, Manager
<1>7. InvocationsHeld'
  BY DEF BuildNothing, Hold, NoJob, InvocationsHeld, OfSession, RuntimeTyped, Manager
<1>8. JobSound' BY DEF BuildNothing, Hold, NoJob, JobSound, Published, KnownSession, RuntimeTyped, Job
<1> QED BY <1>1, <1>2, <1>3, <1>4, <1>5, <1>6, <1>7, <1>8 DEF RuntimeInv

\* A candidate is a record of this session that no collection has marked: one that is
\* reused, or one drawn fresh; it joins the candidates only when it is registered.
LEMMA BuildKeeps == ASSUME NEW r \in Revisions, RuntimeInv, Build(r) PROVE RuntimeInv'
<1> USE DEF RuntimeInv
<1>a. PICK k \in Keys :
         /\ SessionOfKey(k) = dm.session /\ RevisionOfKey(k) = r
         /\ k \notin retiring /\ ~snap[k].retired
         /\ \/ /\ snap[k].registered /\ snap[k].known
               /\ job' = [job EXCEPT !.pc = "validate", !.todo = @ \ {r}, !.keys = @ \cup {k}]
               /\ snap' = snap /\ control' = control
            \/ /\ ~snap[k].registered /\ snap' = [snap EXCEPT ![k] = [@ EXCEPT !.known = TRUE]]
               /\ job' = [job EXCEPT !.pc = "fail"]
               /\ control' = control \/ (control' = Grant(k, "registered") /\ KnownSession(dm.session))
            \/ /\ ~snap[k].registered
               /\ snap' = [[snap EXCEPT ![k] = [@ EXCEPT !.known = TRUE]] EXCEPT ![k].registered = TRUE]
               /\ job' = [job EXCEPT !.pc = "validate", !.todo = @ \ {r}, !.keys = @ \cup {k}]
               /\ control' = Grant(k, "registered") /\ KnownSession(dm.session)
  <2> DEFINE Known(k) == [snap EXCEPT ![k] = [@ EXCEPT !.known = TRUE]]
             Next(k) == [job EXCEPT !.pc = "validate", !.todo = @ \ {r}, !.keys = @ \cup {k}]
  <2>1. PICK k \in IF Reusable(r) # {} THEN Reusable(r)
                   ELSE {<<dm.session, r, n>> : n \in Lowest(Unused(r))} :
           IF snap[k].registered THEN job' = Next(k) /\ UNCHANGED <<snap, control, left>>
           ELSE IF ~KnownSession(dm.session) \/ r \in control.deleted
           THEN snap' = Known(k) /\ Goto("fail") /\ UNCHANGED <<control, left>>
           ELSE ControlCall(Grant(k, "registered"),
                            snap' = [Known(k) EXCEPT ![k].registered = TRUE] /\ job' = Next(k),
                            snap' = Known(k) /\ Goto("fail"))
    BY DEF Build
  <2>2. /\ k \in Keys /\ SessionOfKey(k) = dm.session /\ RevisionOfKey(k) = r
        /\ k \notin retiring /\ ~snap[k].retired
        /\ snap[k].registered => snap[k].known
    <3>1. CASE Reusable(r) # {} BY <2>1, <3>1 DEF Reusable, MarksSound
    <3>2. CASE Reusable(r) = {}
      <4>1. PICK n \in Unused(r) : k = <<dm.session, r, n>> BY <2>1, <3>2 DEF Lowest
      <4>2. k \in Keys /\ SessionOfKey(k) = dm.session /\ RevisionOfKey(k) = r
        BY <4>1, KeyParts DEF Unused, RuntimeTyped, Manager
      <4>3. ~snap[k].known /\ k \notin retiring BY <4>1 DEF Unused
      <4> QED BY <4>2, <4>3 DEF MarksSound
    <3> QED BY <3>1, <3>2
  <2> HIDE DEF Known, Next
  <2>3. CASE snap[k].registered BY <2>1, <2>3, <2>2 DEF Next
  <2>4. CASE ~snap[k].registered /\ (~KnownSession(dm.session) \/ r \in control.deleted)
      BY <2>1, <2>4, <2>2 DEF Known, Goto
  <2>5. CASE ~snap[k].registered /\ KnownSession(dm.session) /\ r \notin control.deleted
      BY <2>1, <2>5, <2>2 DEF ControlCall, Known, Next, Goto
  <2> QED BY <2>3, <2>4, <2>5
<1>b. UNCHANGED <<dm, retiring, watchers>> /\ job.pc = "build" /\ r \in job.todo
  BY DEF Build
<1>c. /\ snap' \in [Keys -> Snapshot]
      /\ \A x \in Keys : x # k => snap'[x] = snap[x]
      /\ snap'[k].known /\ ~snap'[k].retired /\ snap'[k].failed = snap[k].failed
      /\ snap'[k].registered => snap[k].registered \/ control' = Grant(k, "registered")
      /\ job'.pc # "fail" => snap'[k].registered
  <2>1. snap[k] \in Snapshot BY DEF RuntimeTyped
  <2> DEFINE known == [snap[k] EXCEPT !.known = TRUE]
             both == [known EXCEPT !.registered = TRUE]
  <2>2. /\ known \in Snapshot /\ known.known /\ known.retired = snap[k].retired
        /\ known.failed = snap[k].failed /\ known.registered = snap[k].registered
    BY <2>1 DEF Snapshot
  <2> HIDE DEF known
  <2>3. /\ both \in Snapshot /\ both.known /\ both.retired = known.retired
        /\ both.failed = known.failed /\ both.registered
    BY <2>2 DEF Snapshot
  <2> HIDE DEF both
  <2>4. \/ snap' = snap /\ snap[k].known /\ snap[k].registered
        \/ /\ snap' = [snap EXCEPT ![k] = known] /\ job' = [job EXCEPT !.pc = "fail"]
        \/ /\ snap' = [[snap EXCEPT ![k] = known] EXCEPT ![k] = both]
           /\ control' = Grant(k, "registered")
    BY <1>a DEF known, both, RuntimeTyped
  <2>5. job' = [job EXCEPT !.pc = "fail"] => job'.pc = "fail" BY DEF RuntimeTyped, Job
  <2>6. CASE snap' = snap /\ snap[k].known /\ snap[k].registered
    BY <1>a, <2>6 DEF RuntimeTyped
  <2>7. CASE snap' = [snap EXCEPT ![k] = known] /\ job' = [job EXCEPT !.pc = "fail"]
    BY <1>a, <2>2, <2>5, <2>7 DEF RuntimeTyped
  <2>8. CASE /\ snap' = [[snap EXCEPT ![k] = known] EXCEPT ![k] = both]
             /\ control' = Grant(k, "registered")
    BY <1>a, <2>2, <2>3, <2>8 DEF RuntimeTyped
  <2> QED BY <2>4, <2>6, <2>7, <2>8
<1>d. /\ control' = control \/ (control' = Grant(k, "registered") /\ KnownSession(dm.session))
      /\ control'.live = control.live
      /\ \A x \in Keys : x # k => control'.grant[x] = control.grant[x]
      /\ control' = Grant(k, "registered") => control'.grant[k] = "registered"
    BY <1>a, OneGrant DEF RuntimeTyped
<1>e. /\ job'.pc \in {"validate", "fail"} /\ job'.kind = job.kind
      /\ job'.pc = "validate" => job'.keys = job.keys \cup {k} /\ job'.todo \subseteq job.todo
      /\ job' \in Job
  <2>1. job.todo \ {r} \in SUBSET (Keys \cup Revisions) /\ job.keys \cup {k} \in SUBSET Keys
    BY DEF RuntimeTyped, Job
  <2>2. \/ job' = [job EXCEPT !.pc = "fail"]
        \/ job' = [job EXCEPT !.pc = "validate", !.todo = job.todo \ {r}, !.keys = job.keys \cup {k}]
    BY <1>a
  <2>3. "fail" \in JobSteps /\ "validate" \in JobSteps BY DEF JobSteps
  <2>5. job \in Job BY DEF RuntimeTyped
  <2>6. [job EXCEPT !.pc = "fail"] \in Job BY <2>3, <2>5, JobUpdates
  <2>7. [job EXCEPT !.pc = "validate", !.todo = job.todo \ {r}, !.keys = job.keys \cup {k}] \in Job
    BY <2>1, <2>3, <2>5, JobUpdates
  <2>4. job' \in Job BY <2>2, <2>6, <2>7
  <2> QED BY <2>2, <2>4 DEF RuntimeTyped, Job
<1>1. RuntimeTyped'
  <2>1. dm' \in Manager BY DEF Build, RuntimeTyped
  <2>2. snap' \in [Keys -> Snapshot] BY <1>c
  <2>3. retiring' \in SUBSET Keys BY DEF Build, RuntimeTyped
  <2>4. job' \in Job BY <1>e
  <2>5. watchers' \in SUBSET Watcher BY DEF Build, RuntimeTyped
  <2>6. control' \in Control
    BY DEF Build, Reusable, Unused, Lowest, Goto, Keys, SessionOfKey, RevisionOfKey, ControlCall, Fault,
           KnownSession, Grant, CloseSession, RuntimeTyped, Control
  <2>7. left' \in [ops : Nat, faults : Nat] BY DEF Build, Goto, ControlCall, Fault, RuntimeTyped
  <2> QED BY <2>1, <2>2, <2>3, <2>4, <2>5, <2>6, <2>7 DEF RuntimeTyped
<1>2. BrokerFirst' BY <1>b DEF BrokerFirst
<1>3. KeysKept'
  <2>1. KeptKeys' \subseteq KeptKeys \cup IF job'.pc = "fail" THEN {} ELSE {k}
      BY <1>b, <1>e DEF KeptKeys, Candidates
  <2>2. KeptKeys \subseteq Keys BY DEF KeptKeys, Candidates, RuntimeTyped, Manager, Pending, Job
  <2>3. ASSUME NEW x \in KeptKeys, x # k
          PROVE snap'[x].known /\ snap'[x].registered /\ ~snap'[x].retired /\ x \notin retiring' /\ OfSession(x)'
      BY <1>b, <1>c, <2>2, <2>3 DEF KeysKept, OfSession
  <2>4. ASSUME job'.pc # "fail"
          PROVE snap'[k].known /\ snap'[k].registered /\ ~snap'[k].retired /\ k \notin retiring' /\ OfSession(k)'
      BY <1>a, <1>b, <1>c, <2>4 DEF OfSession
  <2>5. ASSUME k \in KeptKeys PROVE snap[k].registered BY <2>5 DEF KeysKept
  <2>6. ASSUME k \in KeptKeys 
          PROVE snap'[k].known /\ snap'[k].registered /\ ~snap'[k].retired /\ k \notin retiring' /\ OfSession(k)'
      <3>1. snap[k].registered BY <2>6 DEF KeysKept
      <3>2. snap'[k].registered BY <3>1, <1>a, <1>c DEF RuntimeTyped, Snapshot, Job
      <3> QED BY <1>a, <1>b, <1>c, <3>2 DEF OfSession
  <2> QED BY <2>1, <2>3, <2>4, <2>6 DEF KeysKept
<1>4. MarksSound' BY <1>a, <1>b, <1>c DEF MarksSound, RuntimeTyped
<1>5. GrantsRecorded'
  <2>1. ASSUME NEW x \in Keys, x # k, SessionOfKey(x) = dm.session, dm.session # 0
          PROVE /\ control'.grant[x] \in {"registered", "published"} => snap'[x].known
                /\ snap'[x].known /\ snap'[x].registered /\ ~snap'[x].retired /\ KnownSession(dm.session)
                      => control'.grant[x] \in {"registered", "published"}
      BY <1>c, <1>d, <2>1 DEF GrantsRecorded
  <2>2. ASSUME dm.session # 0, snap'[k].registered, KnownSession(dm.session)
          PROVE control'.grant[k] \in {"registered", "published"}
      BY <1>d, <1>c, <2>2, <1>a DEF MarksSound, GrantsRecorded
  <2>3. snap'[k].known BY <1>c
  <2> QED BY <1>b, <1>d, <2>1, <2>2, <2>3 DEF GrantsRecorded, KnownSession
<1>6. RoutesPublished'
  <2>1. \A x \in Keys : snap'[x].failed = snap[x].failed BY <1>c
  <2>2. ASSUME NEW x \in dm.committed, ~snap[x].failed PROVE Published(x)'
      BY <2>2, <1>b, <1>d, <1>a DEF RoutesPublished, RuntimeTyped, Manager, Published,
         KnownSession, KeysKept, KeptKeys
  <2>3. dm.committed \subseteq Keys BY DEF RuntimeTyped, Manager
  <2> QED BY <1>b, <2>1, <2>2, <2>3 DEF RoutesPublished
<1>7. InvocationsHeld' BY <1>b, <1>c DEF InvocationsHeld, OfSession, RuntimeTyped, Manager
<1>8. JobSound' BY <1>b, <1>e DEF JobSound
<1> QED BY <1>1, <1>2, <1>3, <1>4, <1>5, <1>6, <1>7, <1>8 DEF RuntimeInv

\* Validation changes what is known of the candidates; the last one hands them to the
\* pending publication, which keeps them from then on.
LEMMA ValidateKeeps == ASSUME RuntimeInv, Validate PROVE RuntimeInv'
<1> USE DEF RuntimeInv
<1>a. \A k \in Keys : /\ snap'[k] \in Snapshot /\ snap'[k].known = snap[k].known
                      /\ snap'[k].registered = snap[k].registered /\ snap'[k].retired = snap[k].retired
                      /\ \/ snap'[k].failed = snap[k].failed
                         \/ snap'[k].failed = (RevisionOfKey(k) \in Broken)
  <2>1. ASSUME NEW k \in Keys
        PROVE LET s == [snap[k] EXCEPT !.validated = TRUE, !.failed = RevisionOfKey(k) \in Broken]
              IN  /\ s \in Snapshot /\ s.known = snap[k].known /\ s.registered = snap[k].registered
                  /\ s.retired = snap[k].retired /\ s.failed = (RevisionOfKey(k) \in Broken)
    <3> DEFINE b == RevisionOfKey(k) \in Broken
    <3>1. b \in BOOLEAN /\ snap[k] \in Snapshot BY DEF RuntimeTyped
    <3> HIDE DEF b
    <3>2. LET s == [snap[k] EXCEPT !.validated = TRUE, !.failed = b]
          IN  /\ s \in Snapshot /\ s.known = snap[k].known /\ s.registered = snap[k].registered
              /\ s.retired = snap[k].retired /\ s.failed = b
      BY <3>1 DEF Snapshot
    <3> QED BY <3>2 DEF b
  <2>2. \A k \in Keys :
           \/ snap'[k] = snap[k]
           \/ snap'[k] = [snap[k] EXCEPT !.validated = TRUE, !.failed = RevisionOfKey(k) \in Broken]
    BY DEF Validate
  <2>3. \A k \in Keys : snap[k] \in Snapshot BY DEF RuntimeTyped
  <2> QED BY <2>1, <2>2, <2>3
<1>b. snap' \in [Keys -> Snapshot]
  <2>1. \A k \in Keys : snap'[k] \in Snapshot BY <1>a
  <2>2. \E f : snap' = [k \in Keys |-> f[k]]
    <3> DEFINE f == [k \in Keys |->
                  IF k \in Current /\ dm.process # 0 /\ (RevisionOfKey(k) \in Broken => AllowFailure(RevisionOfKey(k)))
                  THEN [snap[k] EXCEPT !.validated = TRUE, !.failed = RevisionOfKey(k) \in Broken]
                  ELSE snap[k]]
    <3>1. snap' = f BY DEF Validate
    <3>2. f = [k \in Keys |-> f[k]] OBVIOUS
    <3> HIDE DEF f
    <3> QED BY <3>1, <3>2
  <2> QED BY <2>1, <2>2
<1>c. /\ UNCHANGED <<retiring, watchers, control>> /\ job.pc = "validate"
      /\ \/ job' = [job EXCEPT !.pc = "fail"] /\ dm' = dm
         \/ job' = [job EXCEPT !.pc = "build"] /\ dm' = dm
         \/ job' = NoJob /\ dm' = dm
         \/ /\ dm' = [dm EXCEPT !.pending = [open |-> TRUE, keys |-> job.keys, active |-> Goal]]
            /\ job' = [job EXCEPT !.pc = "route"] \/ job' = NoJob
  BY DEF Validate, Hold, Goto
<1>d. /\ job' \in Job /\ dm' \in Manager
      /\ dm'.session = dm.session /\ dm'.process = dm.process /\ dm'.broker = dm.broker
      /\ dm'.committed = dm.committed /\ dm'.running = dm.running
      /\ job'.pc \in {"fail", "build", "idle", "route"}
      /\ job'.kind \in {job.kind, "none"}
      /\ job'.pc = "build" => job'.todo = job.todo /\ job'.keys = job.keys
      /\ \/ dm'.pending.keys = dm.pending.keys
         \/ dm'.pending.keys = job.keys /\ job'.pc # "build"
  <2> DEFINE held == [open |-> TRUE, keys |-> job.keys, active |-> Goal]
  <2>1. Goal \in SUBSET Revisions /\ job \in Job /\ dm \in Manager
    BY DEF Goal, RuntimeTyped, Manager, Job
  <2>2. held \in Pending /\ held.keys = job.keys BY <2>1 DEF Pending, Job
  <2>3. "fail" \in JobSteps /\ "build" \in JobSteps /\ "route" \in JobSteps BY DEF JobSteps
  <2>4. /\ [job EXCEPT !.pc = "fail"] \in Job /\ [job EXCEPT !.pc = "build"] \in Job
        /\ [job EXCEPT !.pc = "route"] \in Job /\ NoJob \in Job
    BY <2>1, <2>3, JobUpdates
  <2> HIDE DEF held
  <2>5. [dm EXCEPT !.pending = held] \in Manager BY <2>1, <2>2, PendingUpdates
  <2>6. NoJob.pc = "idle" /\ NoJob.kind = "none" BY DEF NoJob
  <2>7. \/ job' = [job EXCEPT !.pc = "fail"] /\ dm' = dm
        \/ job' = [job EXCEPT !.pc = "build"] /\ dm' = dm
        \/ job' = NoJob /\ dm' = dm
        \/ /\ dm' = [dm EXCEPT !.pending = held]
           /\ job' = [job EXCEPT !.pc = "route"] \/ job' = NoJob
    BY <1>c DEF held
  <2>8. job' \in Job /\ dm' \in Manager BY <2>1, <2>4, <2>5, <2>7
  <2> QED BY <2>1, <2>2, <2>6, <2>7, <2>8 DEF Job, Manager
<1>1. RuntimeTyped' BY <1>d, <1>b DEF Validate, RuntimeTyped
<1>2. BrokerFirst' BY <1>c, <1>d DEF BrokerFirst
<1>3. KeysKept'
    BY <1>c, <1>d, <1>a DEF KeptKeys, Candidates, RuntimeTyped, Manager, Pending, Job, KeysKept,
       OfSession
<1>4. MarksSound' BY <1>a, <1>c DEF MarksSound, RuntimeTyped
<1>5. GrantsRecorded' BY <1>a, <1>c, <1>d DEF GrantsRecorded, KnownSession
<1>6. RoutesPublished'
  <2>1. \A k \in Keys : snap'[k].failed => RevisionOfKey(k) \in Broken
    BY <1>a DEF RoutesPublished
  <2>2. \A k \in Keys : snap[k].failed => snap'[k].failed
    BY <1>a DEF RoutesPublished
  <2>3. \A k \in Keys : Published(k) => Published(k)'
    BY <1>c, <1>d DEF Published, KnownSession
  <2>4. dm.committed \subseteq Keys BY DEF RuntimeTyped, Manager
  <2> QED BY <1>d, <2>1, <2>2, <2>3, <2>4 DEF RoutesPublished
<1>7. InvocationsHeld' BY <1>a, <1>c, <1>d DEF RuntimeTyped, Manager, InvocationsHeld, OfSession
<1>8. JobSound' BY <1>c, <1>d DEF JobSound
<1> QED BY <1>1, <1>2, <1>3, <1>4, <1>5, <1>6, <1>7, <1>8 DEF RuntimeInv

\* A lost validation ends the job.
LEMMA ValidateLostKeeps == ASSUME RuntimeInv, ValidateLost PROVE RuntimeInv'
<1> USE DEF RuntimeInv
<1>1. RuntimeTyped'
  <2>1. dm' \in Manager BY DEF ValidateLost, RuntimeTyped
  <2>2. snap' \in [Keys -> Snapshot] BY DEF ValidateLost, RuntimeTyped
  <2>3. retiring' \in SUBSET Keys BY DEF ValidateLost, RuntimeTyped
  <2>4. job' \in Job BY JobUpdates DEF ValidateLost, Goto, Fault, JobSteps, RuntimeTyped
  <2>5. watchers' \in SUBSET Watcher BY DEF ValidateLost, RuntimeTyped
  <2>6. control' \in Control BY DEF ValidateLost, RuntimeTyped
  <2>7. left' \in [ops : Nat, faults : Nat] BY DEF ValidateLost, Goto, Fault, RuntimeTyped
  <2> QED BY <2>1, <2>2, <2>3, <2>4, <2>5, <2>6, <2>7 DEF RuntimeTyped
<1>2. BrokerFirst' BY DEF ValidateLost, BrokerFirst
<1>3. KeysKept' BY DEF ValidateLost, Goto, Fault, KeysKept, KeptKeys, Candidates, OfSession
<1>4. MarksSound' BY DEF ValidateLost, MarksSound
<1>5. GrantsRecorded' BY DEF ValidateLost, GrantsRecorded, KnownSession
<1>6. RoutesPublished' BY DEF ValidateLost, RoutesPublished, Published, KnownSession
<1>7. InvocationsHeld' BY DEF ValidateLost, InvocationsHeld, OfSession
<1>8. JobSound' BY DEF ValidateLost, Goto, Fault, JobSound, Published, KnownSession
<1> QED BY <1>1, <1>2, <1>3, <1>4, <1>5, <1>6, <1>7, <1>8 DEF RuntimeInv

\* Before a publication no candidate that works has been published yet.
LEMMA RouteKeeps == ASSUME RuntimeInv, Route PROVE RuntimeInv'
<1> USE DEF RuntimeInv
<1>a. /\ UNCHANGED <<snap, retiring, watchers, control>> /\ job.pc = "route"
      /\ \/ /\ job' = [job EXCEPT !.pc = "publish", !.todo = {k \in dm.pending.keys : ~snap[k].failed}]
            /\ dm' = dm
         \/ job' = [job EXCEPT !.pc = "fail"] /\ dm' \in {dm, [dm EXCEPT !.pending = NoPending]}
  BY DEF Route, Goto
<1>b. /\ job' \in Job /\ dm' \in Manager
      /\ dm'.session = dm.session /\ dm'.process = dm.process /\ dm'.broker = dm.broker
      /\ dm'.committed = dm.committed /\ dm'.running = dm.running
      /\ dm'.pending.keys \subseteq dm.pending.keys /\ job'.kind = job.kind
      /\ job'.pc \in {"publish", "fail"}
      /\ job'.pc = "publish" => job'.todo = {k \in dm.pending.keys : ~snap[k].failed} /\ dm' = dm
  <2> DEFINE todo == {k \in dm.pending.keys : ~snap[k].failed}
  <2>1. dm \in Manager /\ job \in Job /\ todo \in SUBSET (Keys \cup Revisions)
    BY DEF RuntimeTyped, Manager, Pending
  <2>2. "publish" \in JobSteps /\ "fail" \in JobSteps BY DEF JobSteps
  <2>3. NoPending.keys = {} BY DEF NoPending
  <2> HIDE DEF todo
  <2>4. /\ [job EXCEPT !.pc = "publish", !.todo = todo] \in Job
        /\ [job EXCEPT !.pc = "fail"] \in Job
    BY <2>1, <2>2, JobUpdates
  <2>5. [dm EXCEPT !.pending = NoPending] \in Manager BY <2>1, PendingUpdates
  <2>6. \/ job' = [job EXCEPT !.pc = "publish", !.todo = todo] /\ dm' = dm
        \/ job' = [job EXCEPT !.pc = "fail"] /\ dm' \in {dm, [dm EXCEPT !.pending = NoPending]}
    BY <1>a DEF todo
  <2>7. job' \in Job /\ dm' \in Manager BY <2>1, <2>4, <2>5, <2>6
  <2>8. /\ job'.pc \in {"publish", "fail"} /\ job'.kind = job.kind
        /\ job'.pc = "publish" => job'.todo = todo /\ dm' = dm
    BY <2>1, <2>6 DEF Job
  <2>9. /\ dm'.session = dm.session /\ dm'.process = dm.process /\ dm'.broker = dm.broker
        /\ dm'.committed = dm.committed /\ dm'.running = dm.running
        /\ dm'.pending = dm.pending \/ dm'.pending = NoPending
    BY <2>1, <2>6 DEF Manager
  <2> QED BY <2>3, <2>7, <2>8, <2>9 DEF todo
<1>1. RuntimeTyped' BY <1>b DEF Route, RuntimeTyped, Goto, Fault, NoPending
<1>2. BrokerFirst' BY <1>a, <1>b DEF BrokerFirst
<1>3. KeysKept' BY <1>a, <1>b DEF KeptKeys, Candidates, KeysKept, OfSession
<1>4. MarksSound' BY DEF Route, MarksSound
<1>5. GrantsRecorded'
  BY DEF Route, Goto, Fault, NoPending, GrantsRecorded, KnownSession, RuntimeTyped, Manager
<1>6. RoutesPublished'
  BY DEF Route, Goto, Fault, NoPending, RoutesPublished, Published, KnownSession, RuntimeTyped, Manager
<1>7. InvocationsHeld'
  BY DEF Route, Goto, Fault, NoPending, InvocationsHeld, OfSession, RuntimeTyped, Manager
<1>8. JobSound' BY <1>a, <1>b DEF JobSound
<1> QED BY <1>1, <1>2, <1>3, <1>4, <1>5, <1>6, <1>7, <1>8 DEF RuntimeInv

\* A commit starts like the second half of a write.
LEMMA StartCommitKeeps == ASSUME RuntimeInv, StartCommit PROVE RuntimeInv'
<1> USE DEF RuntimeInv
<1>1. RuntimeTyped'
  <2>1. dm' \in Manager BY DEF StartCommit, RuntimeTyped
  <2>2. snap' \in [Keys -> Snapshot] BY DEF StartCommit, RuntimeTyped
  <2>3. retiring' \in SUBSET Keys BY DEF StartCommit, RuntimeTyped
  <2>4. job' \in Job BY DEF RuntimeTyped, Manager, Pending, StartCommit, Job, JobSteps
  <2>5. watchers' \in SUBSET Watcher BY DEF StartCommit, RuntimeTyped
  <2>6. control' \in Control BY DEF StartCommit, RuntimeTyped
  <2>7. left' \in [ops : Nat, faults : Nat] BY DEF StartCommit, RuntimeTyped
  <2> QED BY <2>1, <2>2, <2>3, <2>4, <2>5, <2>6, <2>7 DEF RuntimeTyped
<1>2. BrokerFirst' BY DEF StartCommit, BrokerFirst
<1>3. KeysKept' BY DEF StartCommit, KeysKept, KeptKeys, Candidates, OfSession
<1>4. MarksSound' BY DEF StartCommit, MarksSound
<1>5. GrantsRecorded' BY DEF StartCommit, GrantsRecorded, KnownSession
<1>6. RoutesPublished' BY DEF StartCommit, RoutesPublished, Published, KnownSession
<1>7. InvocationsHeld' BY DEF StartCommit, InvocationsHeld, OfSession
<1>8. JobSound' BY DEF StartCommit, JobSound, Published, KnownSession
<1> QED BY <1>1, <1>2, <1>3, <1>4, <1>5, <1>6, <1>7, <1>8 DEF RuntimeInv

\* A published candidate leaves the list; a publication that fails drops its candidates
\* and collects only what no route or invocation needs.
LEMMA PublishKeeps == ASSUME NEW k \in Keys, RuntimeInv, Publish(k) PROVE RuntimeInv'
<1> USE DEF RuntimeInv
<1> DEFINE dropped == [dm EXCEPT !.pending = NoPending]
<1>a. /\ job.pc = "publish" /\ k \in job.todo /\ UNCHANGED watchers
      /\ \/ /\ control' = Grant(k, "published") /\ KnownSession(dm.session) /\ SessionOfKey(k) = dm.session
            /\ control.grant[k] \in {"registered", "published"}
            /\ job' = [job EXCEPT !.todo = @ \ {k}] /\ UNCHANGED <<dm, snap, retiring>>
         \/ /\ \/ control' = control
               \/ /\ control' = Grant(k, "published") /\ KnownSession(dm.session)
                  /\ control.grant[k] \in {"registered", "published"}
            /\ dm' = dropped /\ Collect(Collectable(dropped)) /\ job' = [job EXCEPT !.pc = "fail"]
  BY DEF Publish, ControlCall, Goto
<1>b. dm \in Manager /\ job \in Job /\ control \in Control /\ NoPending.keys = {}
  BY DEF RuntimeTyped, NoPending
<1>c. dropped \in Manager BY <1>b, PendingUpdates
<1>d. /\ dropped.session = dm.session /\ dropped.process = dm.process /\ dropped.broker = dm.broker
      /\ dropped.committed = dm.committed /\ dropped.running = dm.running /\ dropped.pending.keys = {}
  BY <1>b DEF Manager
<1> HIDE DEF dropped
<1>e. /\ dm' \in Manager /\ dm'.session = dm.session /\ dm'.process = dm.process
      /\ dm'.broker = dm.broker /\ dm'.committed = dm.committed /\ dm'.running = dm.running
      /\ dm'.pending.keys \subseteq dm.pending.keys
  BY <1>a, <1>b, <1>c, <1>d
<1>f. /\ job' \in Job /\ job'.kind = job.kind
      /\ \/ job'.pc = "publish" /\ job'.todo = job.todo \ {k} /\ dm' = dm /\ control' = Grant(k, "published")
         \/ job'.pc = "fail"
  <2>1. job.todo \ {k} \in SUBSET (Keys \cup Revisions) /\ "fail" \in JobSteps BY <1>b DEF Job, JobSteps
  <2>2. [job EXCEPT !.todo = job.todo \ {k}] \in Job /\ [job EXCEPT !.pc = "fail"] \in Job
    BY <1>b, <2>1, JobUpdates
  <2>3. \/ /\ job' = [job EXCEPT !.todo = job.todo \ {k}] /\ dm' = dm /\ control' = Grant(k, "published")
        \/ job' = [job EXCEPT !.pc = "fail"]
    BY <1>a
  <2> QED BY <1>a, <1>b, <2>2, <2>3 DEF Job
<1>g. /\ snap' \in [Keys -> Snapshot] /\ retiring' \in SUBSET Keys
      /\ \A x \in retiring' : x \in retiring \/ (snap'[x].retired /\ x \notin dm.committed /\ x \notin dm.running)
      /\ \A x \in Keys : /\ snap'[x].known = snap[x].known /\ snap'[x].registered = snap[x].registered
                         /\ snap'[x].failed = snap[x].failed
                         /\ snap'[x] = snap[x] \/ (snap'[x].retired /\ snap[x].known /\ x \notin dm.committed)
    BY <1>d, CollectableKeys, CollectMarks, <1>a DEF RuntimeTyped
<1>h. /\ control' \in Control /\ control'.live = control.live
      /\ \A x \in Keys : \/ control'.grant[x] = control.grant[x]
                         \/ control'.grant[x] = "published" /\ control.grant[x] \in {"registered", "published"}
      /\ control' = Grant(k, "published") => control'.grant[k] = "published"
    BY <1>b, OneGrant, <1>a
<1>1. RuntimeTyped'
    BY <1>e, <1>g, <1>f, <1>h DEF Publish, RuntimeTyped, NoPending, Goto, ControlCall, Fault,
       Collect
<1>2. BrokerFirst' BY <1>a, <1>e, <1>f DEF BrokerFirst
<1>3. KeysKept'
    BY <1>a, <1>e, <1>f, <1>d, <1>g, <1>b DEF KeptKeys, Candidates, RuntimeTyped, Manager,
       Pending, Job, KeysKept, OfSession
<1>4. MarksSound' BY <1>g DEF MarksSound
<1>5. GrantsRecorded' BY <1>g, <1>e, <1>h DEF GrantsRecorded, KnownSession
<1>6. RoutesPublished'
    BY <1>b, <1>e, <1>h, <1>g DEF Manager, Published, KnownSession, RoutesPublished
<1>7. InvocationsHeld' BY <1>b, <1>e, <1>g DEF Manager, InvocationsHeld, OfSession
<1>8. JobSound'
    BY <1>b, <1>e, <1>h, <1>a, <1>f, <1>g DEF Manager, Pending, Published, KnownSession, JobSound
<1> QED BY <1>1, <1>2, <1>3, <1>4, <1>5, <1>6, <1>7, <1>8 DEF RuntimeInv

\* The new routes are the candidates that have all been published.
LEMMA SwapKeeps == ASSUME RuntimeInv, Swap PROVE RuntimeInv'
<1> USE DEF RuntimeInv
<1>1. RuntimeTyped'
    BY JobUpdates DEF NoPending, Pending, RuntimeTyped, Manager, Swap, Replaced, JobSteps
<1>2. BrokerFirst' BY DEF Swap, NoPending, BrokerFirst
<1>3. KeysKept' BY DEF Swap, NoPending, KeysKept, KeptKeys, Candidates, OfSession
<1>4. MarksSound' BY DEF Swap, MarksSound
<1>5. GrantsRecorded' BY DEF Swap, GrantsRecorded, KnownSession
<1>6. RoutesPublished'
    BY DEF Swap, RuntimeTyped, Manager, Published, KnownSession, Pending, RoutesPublished,
       JobSound
<1>7. InvocationsHeld' BY DEF Swap, InvocationsHeld, OfSession
<1>8. JobSound'
  BY DEF Swap, Replaced, NoPending, JobSound, Published, KnownSession, RuntimeTyped, Manager, Job
<1> QED BY <1>1, <1>2, <1>3, <1>4, <1>5, <1>6, <1>7, <1>8 DEF RuntimeInv

\* A replaced key is no route any more, whatever becomes of the call.
LEMMA RetireReplacedKeeps == ASSUME NEW k \in Keys, RuntimeInv, RetireReplaced(k) PROVE RuntimeInv'
<1> USE DEF RuntimeInv
<1>a. /\ job.pc = "retire" /\ k \in job.todo /\ UNCHANGED <<dm, retiring, watchers>>
      /\ snap' = [snap EXCEPT ![k].retired = snap[k].known]
      /\ \/ job' = [job EXCEPT !.todo = @ \ {k}]
         \/ job' = [job EXCEPT !.pc = "fail"]
      /\ control' = control \/ control' = Grant(k, "retired")
  BY DEF RetireReplaced, ControlCall, Goto
<1>b. /\ snap' \in [Keys -> Snapshot]
      /\ \A x \in Keys : /\ snap'[x].known = snap[x].known /\ snap'[x].registered = snap[x].registered
                         /\ snap'[x].failed = snap[x].failed
                         /\ x # k => snap'[x] = snap[x]
      /\ snap'[k].retired = snap[k].known BY <1>a DEF RuntimeTyped, Snapshot
<1>c. /\ control' \in Control /\ control'.live = control.live
      /\ \A x \in Keys : x # k => control'.grant[x] = control.grant[x]
      /\ control'.grant[k] \in {control.grant[k], "retired"} BY <1>a, OneGrant DEF RuntimeTyped
<1>d. /\ job' \in Job /\ job'.kind = job.kind
      /\ \/ job'.pc = "retire" /\ job'.todo \subseteq job.todo
         \/ job'.pc = "fail"
  <2>1. job \in Job /\ "fail" \in JobSteps /\ job.todo \ {k} \in SUBSET (Keys \cup Revisions)
    BY DEF RuntimeTyped, Job, JobSteps
  <2>2. [job EXCEPT !.todo = job.todo \ {k}] \in Job /\ [job EXCEPT !.pc = "fail"] \in Job
    BY <2>1, JobUpdates
  <2> QED BY <1>a, <2>1, <2>2 DEF Job
<1>e. k \notin dm.committed /\ dm.pending.keys = {} BY <1>a DEF JobSound
<1>1. RuntimeTyped' BY <1>b, <1>d, <1>c DEF RetireReplaced, RuntimeTyped, Goto, ControlCall, Fault
<1>2. BrokerFirst' BY DEF RetireReplaced, Goto, ControlCall, Fault, BrokerFirst, RuntimeTyped, Job
<1>3. KeysKept'
    BY <1>a, <1>d, <1>e, <1>b DEF KeptKeys, Candidates, RuntimeTyped, Manager, KeysKept,
       OfSession
<1>4. MarksSound' BY DEF RetireReplaced, MarksSound
<1>5. GrantsRecorded'
  BY DEF RetireReplaced, Goto, ControlCall, Fault, KnownSession, Grant, CloseSession, GrantsRecorded,
         RuntimeTyped, Manager, Pending, Job, Control
<1>6. RoutesPublished'
    BY <1>a, <1>c, <1>e, <1>b DEF RuntimeTyped, Manager, Published, KnownSession, RoutesPublished
<1>7. InvocationsHeld' BY DEF RetireReplaced, InvocationsHeld, OfSession
<1>8. JobSound'
  BY DEF RetireReplaced, Goto, ControlCall, Fault, JobSound, Published, KnownSession, RuntimeTyped, Job
<1> QED BY <1>1, <1>2, <1>3, <1>4, <1>5, <1>6, <1>7, <1>8 DEF RuntimeInv

\* The collection after a commit spares routes and invocations.
LEMMA CommittedKeeps == ASSUME RuntimeInv, Committed PROVE RuntimeInv'
<1> USE DEF RuntimeInv
<1>1. RuntimeTyped'
  <2>1. dm' \in Manager BY DEF Committed, RuntimeTyped
  <2>2. snap' \in [Keys -> Snapshot] BY CollectableKeys, CollectMarks DEF Committed, RuntimeTyped
  <2>3. retiring' \in SUBSET Keys BY CollectableKeys, CollectMarks DEF Committed, RuntimeTyped
  <2>4. job' \in Job
    <3>1. {} \in SUBSET Keys /\ "stage" \in JobSteps BY DEF JobSteps
    <3>2. job \in Job BY DEF RuntimeTyped
    <3>3. NoJob \in Job BY <3>2, JobUpdates
    <3>4. job.rec >= 1 => [job EXCEPT !.pc = "stage", !.rec = @ - 1, !.keys = {}] \in Job
      BY <3>1, <3>2, JobUpdates
    <3>5. job.rec \in Nat BY <3>2 DEF Job
    <3> QED BY <3>3, <3>4, <3>5 DEF Committed
  <2>5. watchers' \in SUBSET Watcher BY DEF Committed, RuntimeTyped
  <2>6. control' \in Control BY DEF Committed, RuntimeTyped
  <2>7. left' \in [ops : Nat, faults : Nat] BY DEF Committed, RuntimeTyped
  <2> QED BY <2>1, <2>2, <2>3, <2>4, <2>5, <2>6, <2>7 DEF RuntimeTyped
<1>2. BrokerFirst' BY DEF Committed, NoJob, Collect, BrokerFirst
<1>3. KeysKept'
  BY DEF Committed, NoJob, Collect, Collectable, Retained, Staging, KeysKept, KeptKeys, Candidates,
         OfSession, RuntimeTyped, Manager, Pending, Job, Control
<1>4. MarksSound'
  BY DEF Committed, NoJob, Collect, Collectable, Retained, Staging, MarksSound, RuntimeTyped, Manager,
         Job
<1>5. GrantsRecorded' BY DEF Committed, NoJob, Collect, GrantsRecorded, KnownSession
<1>6. RoutesPublished'
  BY DEF Committed, NoJob, Collect, RoutesPublished, Published, KnownSession, RuntimeTyped, Manager
<1>7. InvocationsHeld'
  BY DEF Committed, NoJob, Collect, Collectable, Retained, Staging, InvocationsHeld, OfSession,
         RuntimeTyped, Manager, Job
<1>8. JobSound' BY DEF Committed, NoJob, Collect, JobSound, Published, KnownSession
<1> QED BY <1>1, <1>2, <1>3, <1>4, <1>5, <1>6, <1>7, <1>8 DEF RuntimeInv

\* So does the one after an abort.
LEMMA AbortKeeps == ASSUME RuntimeInv, Abort PROVE RuntimeInv'
<1> USE DEF RuntimeInv
<1>1. RuntimeTyped' BY PendingUpdates, CollectableKeys, CollectMarks DEF Abort, RuntimeTyped
<1>2. BrokerFirst' BY DEF Abort, NoPending, Collect, BrokerFirst
<1>3. KeysKept'
  BY DEF Abort, PendingKnown, NoPending, Collect, Collectable, Retained, Staging, KeysKept, KeptKeys,
         Candidates, OfSession, RuntimeTyped, Manager, Job
<1>4. MarksSound'
  BY DEF Abort, PendingKnown, NoPending, Collect, Collectable, Retained, Staging, MarksSound,
         RuntimeTyped, Manager, Job
<1>5. GrantsRecorded' BY DEF Abort, NoPending, Collect, GrantsRecorded, KnownSession
<1>6. RoutesPublished'
  BY DEF Abort, NoPending, Collect, RoutesPublished, Published, KnownSession, RuntimeTyped, Manager
<1>7. InvocationsHeld'
  BY DEF Abort, PendingKnown, NoPending, Collect, Collectable, Retained, Staging, InvocationsHeld,
         OfSession, RuntimeTyped, Manager, Job
<1>8. JobSound' BY DEF Abort, JobSound, NoJob
<1> QED BY <1>1, <1>2, <1>3, <1>4, <1>5, <1>6, <1>7, <1>8 DEF RuntimeInv

\* A failed job gives up the session of its recovery and collects only what nobody needs.
LEMMA FailJobKeeps == ASSUME RuntimeInv, FailJob PROVE RuntimeInv'
<1> USE DEF RuntimeInv
<1>1. RuntimeTyped'
  <2>1. dm' \in Manager
    BY RuntimeAssumption DEF FailJob, NoJob, ControlCall, Fault, KnownSession, Grant, CloseSession,
                             Collect, Collectable, Retained, Staging, RuntimeTyped, Manager
  <2>2. snap' \in [Keys -> Snapshot] BY CollectableKeys, CollectMarks DEF RuntimeTyped, FailJob
  <2>3. retiring' \in SUBSET Keys BY CollectableKeys, CollectMarks DEF RuntimeTyped, FailJob
  <2>4. job' \in Job
    BY JobUpdates DEF FailJob, NoJob, ControlCall, Fault, Collect, JobSteps, RuntimeTyped
  <2>5. watchers' \in SUBSET Watcher
    BY RuntimeAssumption DEF FailJob, NoJob, ControlCall, Fault, KnownSession, Grant, CloseSession,
                             Collect, Collectable, Retained, Staging, RuntimeTyped, Watcher, Manager
  <2>6. control' \in Control BY ClosedSession DEF RuntimeTyped, FailJob, ControlCall
  <2>7. left' \in [ops : Nat, faults : Nat]
    BY DEF FailJob, NoJob, ControlCall, Fault, Collect, RuntimeTyped
  <2> QED BY <2>1, <2>2, <2>3, <2>4, <2>5, <2>6, <2>7 DEF RuntimeTyped
<1>2. BrokerFirst'
  BY DEF FailJob, NoJob, ControlCall, Fault, Collect, BrokerFirst, RuntimeTyped, Manager
<1>3. KeysKept'
  BY DEF FailJob, NoJob, ControlCall, Fault, KnownSession, Grant, CloseSession, Collect, Collectable,
         Retained, Staging, KeysKept, KeptKeys, Candidates, OfSession, RuntimeTyped, Manager, Pending,
         Job, Control
<1>4. MarksSound'
  BY SMTT(60) DEF FailJob, NoJob, ControlCall, Fault, KnownSession, Grant, CloseSession, Collect, Collectable,
         Retained, Staging, MarksSound, RuntimeTyped, Manager, Pending, Job, Control, Watcher, Snapshot
<1>5. GrantsRecorded'
  BY DEF FailJob, NoJob, ControlCall, Fault, KnownSession, Grant, CloseSession, Collect, Collectable,
         Retained, Staging, GrantsRecorded, RuntimeTyped, Manager, Pending, Job, Control, Watcher,
         Snapshot
<1>6. RoutesPublished'
  BY DEF FailJob, NoJob, ControlCall, Fault, KnownSession, Grant, CloseSession, Collect, Collectable,
         Retained, Staging, RoutesPublished, Published, RuntimeTyped, Manager, Pending, Job, Control,
         Watcher, Snapshot
<1>7. InvocationsHeld'
  BY DEF FailJob, NoJob, ControlCall, Fault, KnownSession, Grant, CloseSession, Collect, Collectable,
         Retained, Staging, InvocationsHeld, OfSession, RuntimeTyped, Manager, Job
<1>8. JobSound' BY DEF FailJob, NoJob, ControlCall, Fault, Collect, JobSound, Published, KnownSession
<1> QED BY <1>1, <1>2, <1>3, <1>4, <1>5, <1>6, <1>7, <1>8 DEF RuntimeInv

\* A collection beside a job marks no key that is kept.
LEMMA CollectSnapshotsKeeps == ASSUME RuntimeInv, CollectSnapshots PROVE RuntimeInv'
<1> USE DEF RuntimeInv
<1>1. RuntimeTyped' BY CollectableKeys, CollectMarks DEF CollectSnapshots, RuntimeTyped
<1>2. BrokerFirst' BY DEF CollectSnapshots, BrokerFirst
<1>3. KeysKept'
  BY DEF CollectSnapshots, Collect, Collectable, Retained, Staging, KeysKept, KeptKeys, Candidates,
         OfSession, RuntimeTyped, Manager, Pending, Job, Control
<1>4. MarksSound'
  BY DEF CollectSnapshots, Collect, Collectable, Retained, Staging, MarksSound, RuntimeTyped, Manager,
         Job
<1>5. GrantsRecorded' BY DEF CollectSnapshots, Collect, GrantsRecorded, KnownSession
<1>6. RoutesPublished'
  BY DEF CollectSnapshots, Collect, RoutesPublished, Published, KnownSession, RuntimeTyped, Manager
<1>7. InvocationsHeld'
  BY DEF CollectSnapshots, Collect, Collectable, Retained, Staging, InvocationsHeld, OfSession,
         RuntimeTyped, Manager, Job
<1>8. JobSound'
  BY DEF CollectSnapshots, Collect, Collectable, Retained, Staging, JobSound, Published, KnownSession,
         RuntimeTyped, Manager, Pending, Job, Control
<1> QED BY <1>1, <1>2, <1>3, <1>4, <1>5, <1>6, <1>7, <1>8 DEF RuntimeInv

\* The record goes away with its grant, and no kept key is marked.
LEMMA RetireCollectedKeeps == ASSUME NEW k \in Keys, RuntimeInv, RetireCollected(k) PROVE RuntimeInv'
<1> USE DEF RuntimeInv
<1>a. /\ k \in retiring /\ retiring' = retiring \ {k} /\ UNCHANGED <<dm, job, watchers>>
      /\ control' = control \/ control' = Grant(k, "retired")
      /\ \/ snap' = snap
         \/ snap' = [snap EXCEPT ![k] = Absent] /\ control' = Grant(k, "retired")
  BY DEF RetireCollected, ControlCall
<1>b. /\ control' \in Control /\ control'.live = control.live
      /\ \A x \in Keys : x # k => control'.grant[x] = control.grant[x]
      /\ control'.grant[k] \in {control.grant[k], "retired"}
      /\ control' = Grant(k, "retired") => control'.grant[k] = "retired"
    BY <1>a, OneGrant DEF RuntimeTyped
<1>c. /\ snap' \in [Keys -> Snapshot] /\ \A x \in Keys : x # k => snap'[x] = snap[x]
      /\ \/ snap'[k] = snap[k]
         \/ snap'[k] = Absent /\ control'.grant[k] = "retired"
  <2>1. Absent \in Snapshot BY DEF Absent, Snapshot
  <2> QED BY <1>a, <1>b, <2>1 DEF RuntimeTyped
<1>d. k \notin KeptKeys /\ k \notin dm.running /\ (snap[k].known => snap[k].retired)
  BY <1>a DEF KeysKept, InvocationsHeld, MarksSound
<1>e. ~Absent.known /\ ~Absent.registered /\ ~Absent.retired /\ ~Absent.failed BY DEF Absent
<1>1. RuntimeTyped' BY <1>c, <1>b DEF RetireCollected, RuntimeTyped, ControlCall, Fault
<1>2. BrokerFirst' BY DEF RetireCollected, BrokerFirst
<1>3. KeysKept'
  BY DEF RetireCollected, Absent, ControlCall, Fault, KnownSession, Grant, CloseSession, KeysKept,
         KeptKeys, Candidates, OfSession, RuntimeTyped, Manager, Pending, Job, Control
<1>4. MarksSound'
  BY DEF RetireCollected, Absent, ControlCall, Fault, KnownSession, Grant, CloseSession, MarksSound,
         RuntimeTyped, Manager, Job
<1>5. GrantsRecorded' BY <1>a, <1>b, <1>c, <1>d, <1>e DEF GrantsRecorded, KnownSession
<1>6. RoutesPublished'
    BY <1>d, <1>a, <1>b, <1>c, <1>e DEF RuntimeTyped, Manager, KeptKeys, Published, KnownSession,
       RoutesPublished
<1>7. InvocationsHeld'
  BY DEF RetireCollected, ControlCall, Fault, InvocationsHeld, OfSession, RuntimeTyped, Manager
<1>8. JobSound'
    BY <1>d, <1>a, <1>b, <1>c DEF RuntimeTyped, Manager, Pending, KeptKeys, Published,
       KnownSession, JobSound
<1> QED BY <1>1, <1>2, <1>3, <1>4, <1>5, <1>6, <1>7, <1>8 DEF RuntimeInv

\* A failed heartbeat only asks for a recovery.
LEMMA HeartbeatFailsKeeps == ASSUME RuntimeInv, HeartbeatFails PROVE RuntimeInv'
<1> USE DEF RuntimeInv
<1>1. RuntimeTyped' BY DEF HeartbeatFails, RuntimeTyped, Fault, Watcher, Manager
<1>2. BrokerFirst' BY DEF HeartbeatFails, BrokerFirst
<1>3. KeysKept' BY DEF HeartbeatFails, KeysKept, KeptKeys, Candidates, OfSession
<1>4. MarksSound' BY DEF HeartbeatFails, MarksSound
<1>5. GrantsRecorded' BY DEF HeartbeatFails, GrantsRecorded, KnownSession
<1>6. RoutesPublished' BY DEF HeartbeatFails, RoutesPublished, Published, KnownSession
<1>7. InvocationsHeld' BY DEF HeartbeatFails, InvocationsHeld, OfSession
<1>8. JobSound' BY DEF HeartbeatFails, JobSound, Published, KnownSession
<1> QED BY <1>1, <1>2, <1>3, <1>4, <1>5, <1>6, <1>7, <1>8 DEF RuntimeInv

\* An exit takes the invocations of the process with it.
LEMMA ProcessExitsKeeps == ASSUME RuntimeInv, ProcessExits PROVE RuntimeInv'
<1> USE DEF RuntimeInv
<1>1. RuntimeTyped'
  <2>1. dm' \in Manager
    <3>1. 0 \in 0..MaxProcesses /\ {} \in SUBSET Keys BY RuntimeAssumption
    <3>2. [dm EXCEPT !.process = 0, !.running = {}] \in Manager BY <3>1 DEF RuntimeTyped, Manager
    <3> QED BY <3>2 DEF ProcessExits
  <2>2. snap' \in [Keys -> Snapshot] BY DEF ProcessExits, RuntimeTyped
  <2>3. retiring' \in SUBSET Keys BY DEF ProcessExits, RuntimeTyped
  <2>4. job' \in Job BY DEF ProcessExits, RuntimeTyped
  <2>5. watchers' \in SUBSET Watcher
    BY RuntimeAssumption DEF ProcessExits, Fault, RuntimeTyped, Watcher, Manager
  <2>6. control' \in Control BY DEF ProcessExits, RuntimeTyped
  <2>7. left' \in [ops : Nat, faults : Nat] BY DEF ProcessExits, Fault, RuntimeTyped
  <2> QED BY <2>1, <2>2, <2>3, <2>4, <2>5, <2>6, <2>7 DEF RuntimeTyped
<1>2. BrokerFirst' BY DEF ProcessExits, BrokerFirst
<1>3. KeysKept' BY DEF ProcessExits, KeysKept, KeptKeys, Candidates, OfSession
<1>4. MarksSound' BY DEF ProcessExits, MarksSound
<1>5. GrantsRecorded' BY DEF ProcessExits, GrantsRecorded, KnownSession
<1>6. RoutesPublished' BY DEF ProcessExits, RoutesPublished, Published, KnownSession
<1>7. InvocationsHeld' BY DEF ProcessExits, InvocationsHeld, OfSession
<1>8. JobSound' BY DEF ProcessExits, JobSound, Published, KnownSession
<1> QED BY <1>1, <1>2, <1>3, <1>4, <1>5, <1>6, <1>7, <1>8 DEF RuntimeInv

\* A recovery that gets the lock starts with its own job.
LEMMA TakeRecoveryKeeps == ASSUME NEW w \in watchers, RuntimeInv, TakeRecovery(w) PROVE RuntimeInv'
<1> USE DEF RuntimeInv
<1>1. RuntimeTyped'
  <2>1. dm' \in Manager BY DEF TakeRecovery, RuntimeTyped
  <2>2. snap' \in [Keys -> Snapshot] BY DEF TakeRecovery, RuntimeTyped
  <2>3. retiring' \in SUBSET Keys BY DEF TakeRecovery, RuntimeTyped
  <2>4. job' \in Job
    <3>1. w.by \in {"heartbeat", "watch"} /\ "recover" \in JobSteps BY DEF RuntimeTyped, Watcher, JobSteps
    <3>2. NoJob \in Job BY JobUpdates DEF RuntimeTyped
    <3>3. [NoJob EXCEPT !.kind = w.by, !.pc = "recover", !.rec = 1] \in Job BY <3>1, <3>2 DEF Job
    <3> QED BY <3>2, <3>3 DEF TakeRecovery
  <2>5. watchers' \in SUBSET Watcher BY DEF TakeRecovery, RuntimeTyped
  <2>6. control' \in Control BY DEF TakeRecovery, RuntimeTyped
  <2>7. left' \in [ops : Nat, faults : Nat] BY DEF TakeRecovery, RuntimeTyped
  <2> QED BY <2>1, <2>2, <2>3, <2>4, <2>5, <2>6, <2>7 DEF RuntimeTyped
<1>2. BrokerFirst' BY DEF TakeRecovery, BrokerFirst
<1>3. KeysKept' BY DEF TakeRecovery, KeysKept, KeptKeys, Candidates, OfSession
<1>4. MarksSound' BY DEF TakeRecovery, MarksSound
<1>5. GrantsRecorded' BY DEF TakeRecovery, GrantsRecorded, KnownSession
<1>6. RoutesPublished' BY DEF TakeRecovery, RoutesPublished, Published, KnownSession
<1>7. InvocationsHeld' BY DEF TakeRecovery, InvocationsHeld, OfSession
<1>8. JobSound' BY DEF TakeRecovery, JobSound, Published, KnownSession
<1> QED BY <1>1, <1>2, <1>3, <1>4, <1>5, <1>6, <1>7, <1>8 DEF RuntimeInv

\* A recovery leaves no session, invocation or pending publication, even when the old
\* process does not stop.
LEMMA RecoverKeeps == ASSUME RuntimeInv, Recover PROVE RuntimeInv'
<1> USE DEF RuntimeInv
<1>a. /\ job.pc = "recover" /\ UNCHANGED <<snap, retiring, watchers, control>>
      /\ \/ dm' = Cleared /\ job' = [job EXCEPT !.pc = "close", !.old = dm.session]
         \/ dm' = [Cleared EXCEPT !.process = dm.process] /\ job' = [job EXCEPT !.pc = "fail"]
  BY DEF Recover, Goto
<1>b. /\ Cleared \in Manager /\ Cleared.session = 0 /\ Cleared.process = 0 /\ Cleared.running = {}
      /\ Cleared.pending.keys = {} /\ Cleared.committed = dm.committed /\ Cleared.broker = dm.broker
  <2>1. NoPending \in Pending /\ NoPending.keys = {} BY DEF NoPending, Pending
  <2>2. 0 \in 0..MaxProcesses /\ 0 \in 0..MaxSessions BY RuntimeAssumption
  <2> QED BY <2>1, <2>2 DEF Cleared, RuntimeTyped, Manager
<1>c. /\ dm' \in Manager /\ dm'.session = 0 /\ dm'.running = {} /\ dm'.pending.keys = {}
      /\ dm'.committed = dm.committed /\ dm'.broker = dm.broker
      /\ dm' = Cleared => dm'.process = 0 BY <1>a, <1>b DEF RuntimeTyped, Manager
<1>d. /\ job' \in Job /\ job'.kind = job.kind
      /\ job'.pc = "fail" \/ (job'.pc = "close" /\ dm' = Cleared)
  <2>1. job \in Job /\ "fail" \in JobSteps /\ "close" \in JobSteps /\ dm.session \in 0..MaxSessions
    BY DEF RuntimeTyped, JobSteps, Manager
  <2>2. [job EXCEPT !.pc = "fail"] \in Job /\ [job EXCEPT !.pc = "close", !.old = dm.session] \in Job
    BY <2>1, JobUpdates
  <2> QED BY <1>a, <2>1, <2>2 DEF Job
<1>1. RuntimeTyped' BY <1>c, <1>d DEF Recover, RuntimeTyped, NoPending, Goto, Fault
<1>2. BrokerFirst' BY <1>a, <1>c DEF BrokerFirst
<1>3. KeysKept' BY <1>c, <1>d, <1>a DEF KeptKeys, Candidates, KeysKept, OfSession
<1>4. MarksSound' BY DEF Recover, MarksSound
<1>5. GrantsRecorded' BY <1>c DEF GrantsRecorded
<1>6. RoutesPublished'
  BY DEF Recover, Cleared, NoPending, Goto, Fault, RoutesPublished, Published, KnownSession,
         RuntimeTyped, Manager, Job
<1>7. InvocationsHeld'
  BY DEF Recover, Cleared, NoPending, Goto, Fault, InvocationsHeld, OfSession, RuntimeTyped, Manager,
         Job
<1>8. JobSound' BY <1>b, <1>c, <1>d DEF JobSound
<1> QED BY <1>1, <1>2, <1>3, <1>4, <1>5, <1>6, <1>7, <1>8 DEF RuntimeInv

\* Closing the old session, or failing to, says nothing about the one to come.
LEMMA CloseOldKeeps == ASSUME RuntimeInv, CloseOld PROVE RuntimeInv'
<1> USE DEF RuntimeInv
<1>a. /\ job.pc = "close" /\ job' = [job EXCEPT !.pc = "open", !.old = 0]
      /\ UNCHANGED <<dm, snap, retiring, watchers>>
      /\ control' = control \/ control' = CloseSession(job.old)
  BY DEF CloseOld, ControlCall
<1>b. dm.session = 0 BY <1>a DEF JobSound
<1>c. control' \in Control BY <1>a, ClosedSession DEF RuntimeTyped
<1>1. RuntimeTyped'
  <2>1. dm' \in Manager BY DEF CloseOld, RuntimeTyped
  <2>2. snap' \in [Keys -> Snapshot] BY DEF CloseOld, RuntimeTyped
  <2>3. retiring' \in SUBSET Keys BY DEF CloseOld, RuntimeTyped
  <2>4. job' \in Job
    <3>1. 0 \in 0..MaxSessions /\ "open" \in JobSteps BY RuntimeAssumption DEF JobSteps
    <3> QED BY <1>a, <3>1, JobUpdates DEF RuntimeTyped
  <2>5. watchers' \in SUBSET Watcher BY DEF CloseOld, RuntimeTyped
  <2>6. control' \in Control BY <1>c
  <2>7. left' \in [ops : Nat, faults : Nat] BY DEF CloseOld, ControlCall, Fault, RuntimeTyped
  <2> QED BY <2>1, <2>2, <2>3, <2>4, <2>5, <2>6, <2>7 DEF RuntimeTyped
<1>2. BrokerFirst' BY DEF CloseOld, BrokerFirst
<1>3. KeysKept' BY DEF CloseOld, KeysKept, KeptKeys, Candidates, OfSession
<1>4. MarksSound' BY DEF CloseOld, MarksSound
<1>5. GrantsRecorded' BY <1>a, <1>b DEF GrantsRecorded
<1>6. RoutesPublished' BY <1>a, <1>b DEF RoutesPublished, Published
<1>7. InvocationsHeld' BY DEF CloseOld, InvocationsHeld, OfSession
<1>8. JobSound' BY DEF CloseOld, JobSound, Published, KnownSession
<1> QED BY <1>1, <1>2, <1>3, <1>4, <1>5, <1>6, <1>7, <1>8 DEF RuntimeInv

\* The new session starts without records and routes, and nothing of it exists yet.
LEMMA OpenNewKeeps == ASSUME RuntimeInv, OpenNew PROVE RuntimeInv'
<1> USE DEF RuntimeInv
<1>a. PICK s \in FreshSession :
         /\ control' \in {control, [control EXCEPT !.live = @ \cup {s}]}
         /\ \/ /\ dm' = [dm EXCEPT !.session = s, !.committed = {}]
               /\ snap' = [k \in Keys |-> Absent] /\ job' = [job EXCEPT !.pc = "session"]
            \/ dm' = dm /\ snap' = snap /\ job' = [job EXCEPT !.pc = "fail"]
  BY DEF OpenNew, OpenSession, ControlCall, Goto
<1>b. /\ job.pc = "open" /\ UNCHANGED <<retiring, watchers>>
      /\ dm.session = 0 /\ dm.running = {} /\ dm.pending.keys = {} /\ dm.broker
  BY DEF OpenNew, JobSound, BrokerFirst
<1>c. /\ s \in 1..MaxSessions /\ s \in 0..MaxSessions /\ s # 0
      /\ \A k \in Keys : SessionOfKey(k) = s => control.grant[k] = "absent"
  BY FreshSessionIs, RuntimeAssumption
<1>d. /\ dm' \in Manager /\ dm'.running = {} /\ dm'.pending.keys = {} /\ dm'.broker
      /\ \/ dm'.session = s /\ dm'.committed = {} /\ snap' = [k \in Keys |-> Absent]
         \/ dm'.session = 0 /\ dm'.committed = dm.committed /\ snap' = snap
  BY <1>a, <1>b, <1>c DEF RuntimeTyped, Manager
<1>e. job' \in Job /\ job'.pc \in {"session", "fail"}
  <2>1. job \in Job /\ "session" \in JobSteps /\ "fail" \in JobSteps BY DEF RuntimeTyped, JobSteps
  <2>2. [job EXCEPT !.pc = "session"] \in Job /\ [job EXCEPT !.pc = "fail"] \in Job BY <2>1, JobUpdates
  <2> QED BY <1>a, <2>1, <2>2 DEF Job
<1>f. control' \in Control /\ control'.grant = control.grant
  BY <1>a, <1>c DEF RuntimeTyped, Control
<1>g. Absent \in Snapshot /\ ~Absent.known /\ ~Absent.registered /\ ~Absent.retired /\ ~Absent.failed
  BY DEF Absent, Snapshot
<1>1. RuntimeTyped'
  <2>1. dm' \in Manager BY <1>d
  <2>2. snap' \in [Keys -> Snapshot] BY <1>a, <1>g DEF RuntimeTyped
  <2>3. retiring' \in SUBSET Keys BY DEF OpenNew, RuntimeTyped
  <2>4. job' \in Job BY <1>e
  <2>5. watchers' \in SUBSET Watcher BY DEF OpenNew, RuntimeTyped
  <2>6. control' \in Control BY <1>f
  <2>7. left' \in [ops : Nat, faults : Nat]
    BY DEF OpenNew, OpenSession, FreshSession, Lowest, Absent, Goto, ControlCall, Fault, KnownSession,
           Grant, CloseSession, RuntimeTyped
  <2> QED BY <2>1, <2>2, <2>3, <2>4, <2>5, <2>6, <2>7 DEF RuntimeTyped
<1>2. BrokerFirst' BY <1>d DEF BrokerFirst
<1>3. KeysKept' BY <1>d, <1>e, <1>b DEF KeptKeys, Candidates, KeysKept, OfSession
<1>4. MarksSound' BY <1>b, <1>d, <1>g DEF MarksSound, RuntimeTyped
<1>5. GrantsRecorded' BY <1>b, <1>c, <1>d, <1>f, <1>g DEF GrantsRecorded
<1>6. RoutesPublished' BY <1>d, <1>g, <1>c DEF RoutesPublished, Published, RuntimeTyped, Manager
<1>7. InvocationsHeld' BY <1>d DEF InvocationsHeld
<1>8. JobSound' BY <1>e DEF JobSound
<1> QED BY <1>1, <1>2, <1>3, <1>4, <1>5, <1>6, <1>7, <1>8 DEF RuntimeInv

\* An admitted invocation runs a committed key.
LEMMA EnsureKeeps == ASSUME NEW k \in Keys, RuntimeInv, Ensure(k) PROVE RuntimeInv'
<1> USE DEF RuntimeInv
<1>1. RuntimeTyped' BY DEF Ensure, RuntimeTyped, Manager
<1>2. BrokerFirst' BY DEF Ensure, BrokerFirst
<1>3. KeysKept' BY DEF Ensure, KeysKept, KeptKeys, Candidates, OfSession
<1>4. MarksSound' BY DEF Ensure, MarksSound
<1>5. GrantsRecorded' BY DEF Ensure, GrantsRecorded, KnownSession
<1>6. RoutesPublished' BY DEF Ensure, RoutesPublished, Published, KnownSession
<1>7. InvocationsHeld'
    BY DEF Ensure, RuntimeTyped, Manager, KeysKept, KeptKeys, InvocationsHeld, OfSession
<1>8. JobSound' BY DEF Ensure, JobSound, Published, KnownSession
<1> QED BY <1>1, <1>2, <1>3, <1>4, <1>5, <1>6, <1>7, <1>8 DEF RuntimeInv

\* A released invocation retains nothing.
LEMMA ReleaseLastKeeps == ASSUME NEW k \in Keys, RuntimeInv, ReleaseLast(k) PROVE RuntimeInv'
<1> USE DEF RuntimeInv
<1>1. RuntimeTyped' BY DEF ReleaseLast, RuntimeTyped, Manager
<1>2. BrokerFirst' BY DEF ReleaseLast, BrokerFirst
<1>3. KeysKept' BY DEF ReleaseLast, KeysKept, KeptKeys, Candidates, OfSession
<1>4. MarksSound' BY DEF ReleaseLast, MarksSound
<1>5. GrantsRecorded' BY DEF ReleaseLast, GrantsRecorded, KnownSession
<1>6. RoutesPublished' BY DEF ReleaseLast, RoutesPublished, Published, KnownSession
<1>7. InvocationsHeld' BY DEF ReleaseLast, InvocationsHeld, OfSession
<1>8. JobSound' BY DEF ReleaseLast, JobSound, Published, KnownSession
<1> QED BY <1>1, <1>2, <1>3, <1>4, <1>5, <1>6, <1>7, <1>8 DEF RuntimeInv

\* A closed manager has neither process nor invocations, and the session is closed at most.
LEMMA CloseKeeps == ASSUME RuntimeInv, Close PROVE RuntimeInv'
<1> USE DEF RuntimeInv
<1>a. /\ job = NoJob /\ dm.broker /\ UNCHANGED <<snap, retiring, job, watchers>>
      /\ dm' = [dm EXCEPT !.closed = TRUE, !.process = 0, !.pending = NoPending, !.running = {}]
      /\ control' = control \/ control' = CloseSession(dm.session)
  BY DEF Close, ControlCall
<1>b. /\ dm' \in Manager /\ dm'.session = dm.session /\ dm'.committed = dm.committed /\ dm'.broker
      /\ dm'.running = {} /\ dm'.pending.keys = {}
  <2>1. NoPending \in Pending /\ NoPending.keys = {} BY DEF NoPending, Pending
  <2>2. 0 \in 0..MaxProcesses BY RuntimeAssumption
  <2> QED BY <1>a, <2>1, <2>2 DEF RuntimeTyped, Manager
<1>c. /\ control' \in Control
      /\ control'.grant = control.grant \/ dm.session \notin control'.live
      /\ \A k \in Keys : control'.grant[k] \in {control.grant[k], "absent"}
      /\ control'.live \subseteq control.live BY <1>a, ClosedSession DEF RuntimeTyped
<1>1. RuntimeTyped' BY <1>b, <1>c DEF Close, RuntimeTyped, NoPending, NoJob, ControlCall, Fault
<1>2. BrokerFirst' BY DEF Close, BrokerFirst
<1>3. KeysKept'
  BY DEF Close, NoPending, NoJob, ControlCall, Fault, KeysKept, KeptKeys, Candidates, OfSession
<1>4. MarksSound' BY DEF Close, MarksSound
<1>5. GrantsRecorded' BY <1>a, <1>b, <1>c DEF GrantsRecorded, KnownSession
<1>6. RoutesPublished'
    BY <1>b, <1>c, <1>a DEF RuntimeTyped, Manager, Published, KnownSession, RoutesPublished
<1>7. InvocationsHeld' BY DEF Close, InvocationsHeld, OfSession
<1>8. JobSound' BY DEF Close, NoPending, NoJob, ControlCall, Fault, JobSound, Published, KnownSession
<1> QED BY <1>1, <1>2, <1>3, <1>4, <1>5, <1>6, <1>7, <1>8 DEF RuntimeInv

\* A control plane that forgets its sessions knows the one in force no more.
LEMMA ControlForgetsKeeps == ASSUME RuntimeInv, ControlForgets PROVE RuntimeInv'
<1> USE DEF RuntimeInv
<1>1. RuntimeTyped'
  <2>1. dm' \in Manager BY DEF ControlForgets, RuntimeTyped
  <2>2. snap' \in [Keys -> Snapshot] BY DEF ControlForgets, RuntimeTyped
  <2>3. retiring' \in SUBSET Keys BY DEF ControlForgets, RuntimeTyped
  <2>4. job' \in Job BY DEF ControlForgets, RuntimeTyped
  <2>5. watchers' \in SUBSET Watcher BY DEF ControlForgets, RuntimeTyped
  <2>6. control' \in Control BY DEF ControlForgets, Fault, RuntimeTyped, Control
  <2>7. left' \in [ops : Nat, faults : Nat] BY DEF ControlForgets, Fault, RuntimeTyped
  <2> QED BY <2>1, <2>2, <2>3, <2>4, <2>5, <2>6, <2>7 DEF RuntimeTyped
<1>2. BrokerFirst' BY DEF ControlForgets, BrokerFirst
<1>3. KeysKept' BY DEF ControlForgets, KeysKept, KeptKeys, Candidates, OfSession
<1>4. MarksSound' BY DEF ControlForgets, MarksSound
<1>5. GrantsRecorded' BY DEF ControlForgets, GrantsRecorded, KnownSession
<1>6. RoutesPublished' BY DEF ControlForgets, RoutesPublished, Published, KnownSession
<1>7. InvocationsHeld' BY DEF ControlForgets, InvocationsHeld, OfSession
<1>8. JobSound' BY DEF ControlForgets, JobSound, Published, KnownSession
<1> QED BY <1>1, <1>2, <1>3, <1>4, <1>5, <1>6, <1>7, <1>8 DEF RuntimeInv

\* A deletion in the repository leaves the records here alone.
LEMMA DeleteWorkerKeeps == ASSUME NEW r \in Revisions, RuntimeInv, DeleteWorker(r) PROVE RuntimeInv'
<1> USE DEF RuntimeInv
<1>1. RuntimeTyped' BY DEF DeleteWorker, RuntimeTyped, Fault, Control
<1>2. BrokerFirst' BY DEF DeleteWorker, BrokerFirst
<1>3. KeysKept' BY DEF DeleteWorker, KeysKept, KeptKeys, Candidates, OfSession
<1>4. MarksSound' BY DEF DeleteWorker, MarksSound
<1>5. GrantsRecorded' BY DEF DeleteWorker, GrantsRecorded, KnownSession
<1>6. RoutesPublished' BY DEF DeleteWorker, RoutesPublished, Published, KnownSession
<1>7. InvocationsHeld' BY DEF DeleteWorker, InvocationsHeld, OfSession
<1>8. JobSound' BY DEF DeleteWorker, JobSound, Published, KnownSession
<1> QED BY <1>1, <1>2, <1>3, <1>4, <1>5, <1>6, <1>7, <1>8 DEF RuntimeInv

\* A state in which nothing changes keeps the invariant.
LEMMA StutterKeeps == ASSUME RuntimeInv, UNCHANGED runtimeVars PROVE RuntimeInv'
<1> USE DEF RuntimeInv, runtimeVars
<1>1. RuntimeTyped' BY DEF RuntimeTyped
<1>2. BrokerFirst' BY DEF BrokerFirst
<1>3. KeysKept' BY DEF KeysKept, KeptKeys, Candidates, OfSession
<1>4. MarksSound' BY DEF MarksSound
<1>5. GrantsRecorded' BY DEF GrantsRecorded, KnownSession
<1>6. RoutesPublished' BY DEF RoutesPublished, Published, KnownSession
<1>7. InvocationsHeld' BY DEF InvocationsHeld, OfSession
<1>8. JobSound' BY DEF JobSound, Published, KnownSession
<1> QED BY <1>1, <1>2, <1>3, <1>4, <1>5, <1>6, <1>7, <1>8

\* A manager that has not booted keeps nothing.
LEMMA InitSound == RuntimeInit => RuntimeInv
<1> SUFFICES ASSUME RuntimeInit PROVE RuntimeInv OBVIOUS
<1>1. /\ dm.session = 0 /\ dm.process = 0 /\ ~dm.broker /\ dm.committed = {} /\ dm.running = {}
      /\ dm.pending.keys = {}
  BY DEF RuntimeInit, NoPending
<1>2. /\ job = NoJob /\ job.pc = "idle" /\ job.kind = "none" /\ retiring = {} /\ watchers = {}
  BY DEF RuntimeInit, NoJob
<1>3. \A k \in Keys : ~snap[k].known /\ ~snap[k].registered /\ ~snap[k].retired /\ ~snap[k].failed
  BY DEF RuntimeInit, Absent
<1>4. RuntimeTyped
  <2>1. 0 \in 0..MaxSessions /\ 0 \in 0..MaxProcesses BY RuntimeAssumption
  <2>2. NoPending \in Pending BY DEF NoPending, Pending
  <2>3. dm \in Manager BY <2>1, <2>2 DEF RuntimeInit, Manager
  <2>4. Absent \in Snapshot BY DEF Absent, Snapshot
  <2>5. snap \in [Keys -> Snapshot] BY <2>4 DEF RuntimeInit
  <2>6. job \in Job BY <2>1, <1>2 DEF NoJob, Job, JobSteps
  <2>7. control \in Control BY DEF RuntimeInit, Control
  <2>8. left \in [ops : Nat, faults : Nat] BY RuntimeAssumption DEF RuntimeInit
  <2> QED BY <1>2, <2>3, <2>5, <2>6, <2>7, <2>8 DEF RuntimeTyped
<1>5. BrokerFirst BY <1>1, <1>2 DEF BrokerFirst
<1>6. KeysKept BY <1>1, <1>2 DEF KeysKept, KeptKeys, Candidates
<1>7. MarksSound BY <1>2, <1>3 DEF MarksSound
<1>8. GrantsRecorded BY <1>1 DEF GrantsRecorded
<1>9. RoutesPublished BY <1>1, <1>3 DEF RoutesPublished
<1>10. InvocationsHeld BY <1>1 DEF InvocationsHeld
<1>11. JobSound BY <1>2 DEF JobSound
<1> QED BY <1>4, <1>5, <1>6, <1>7, <1>8, <1>9, <1>10, <1>11 DEF RuntimeInv

\* Every step of the manager, of the control plane and of the process keeps the invariant.
LEMMA StepKeeps == RuntimeInv /\ [RuntimeNext]_runtimeVars => RuntimeInv'
<1> SUFFICES ASSUME RuntimeInv, [RuntimeNext]_runtimeVars PROVE RuntimeInv' OBVIOUS
<1>1. CASE UNCHANGED runtimeVars BY <1>1, StutterKeeps
<1>2. CASE JobStep
  <2>1. CASE CheckSession BY <2>1, CheckSessionKeeps
  <2>2. CASE Stage BY <2>2, StageKeeps
  <2>3. CASE BootBroker BY <2>3, BootBrokerKeeps
  <2>4. CASE Boot BY <2>4, BootKeeps
  <2>5. CASE BuildNothing BY <2>5, BuildNothingKeeps
  <2>6. CASE Validate BY <2>6, ValidateKeeps
  <2>7. CASE ValidateLost BY <2>7, ValidateLostKeeps
  <2>8. CASE Route BY <2>8, RouteKeeps
  <2>9. CASE Swap BY <2>9, SwapKeeps
  <2>10. CASE Committed BY <2>10, CommittedKeeps
  <2>11. CASE FailJob BY <2>11, FailJobKeeps
  <2>12. CASE Recover BY <2>12, RecoverKeeps
  <2>13. CASE CloseOld BY <2>13, CloseOldKeeps
  <2>14. CASE OpenNew BY <2>14, OpenNewKeeps
  <2>15. CASE \E r \in Revisions : Build(r) BY <2>15, BuildKeeps
  <2>16. CASE \E k \in Keys : Publish(k) \/ RetireReplaced(k)
    BY <2>16, PublishKeeps, RetireReplacedKeeps
  <2> QED BY <1>2, <2>1, <2>2, <2>3, <2>4, <2>5, <2>6, <2>7, <2>8, <2>9, <2>10, <2>11, <2>12, <2>13,
             <2>14, <2>15, <2>16 DEF JobStep
<1>3. CASE StartCommit BY <1>3, StartCommitKeeps
<1>4. CASE Abort BY <1>4, AbortKeeps
<1>5. CASE CollectSnapshots BY <1>5, CollectSnapshotsKeeps
<1>6. CASE HeartbeatFails BY <1>6, HeartbeatFailsKeeps
<1>7. CASE ProcessExits BY <1>7, ProcessExitsKeeps
<1>8. CASE Close BY <1>8, CloseKeeps
<1>9. CASE ControlForgets BY <1>9, ControlForgetsKeeps
<1>10. CASE \E p \in Publications : StartPublisher(p) BY <1>10, StartPublisherKeeps
<1>11. CASE \E w \in watchers : TakeRecovery(w) BY <1>11, TakeRecoveryKeeps
<1>12. CASE \E k \in Keys : RetireCollected(k) \/ Ensure(k) \/ ReleaseLast(k)
  BY <1>12, RetireCollectedKeeps, EnsureKeeps, ReleaseLastKeeps
<1>13. CASE \E r \in Revisions : DeleteWorker(r) BY <1>13, DeleteWorkerKeeps
<1> QED BY <1>1, <1>2, <1>3, <1>4, <1>5, <1>6, <1>7, <1>8, <1>9, <1>10, <1>11, <1>12, <1>13 DEF RuntimeNext

\* A key that is kept, while the control plane knows the session in force, has a live
\* grant of that session.
LEMMA KeptGrantLive ==
  ASSUME RuntimeInv, dm.session # 0, KnownSession(dm.session), NEW k \in KeptKeys
  PROVE /\ SessionOfKey(k) = dm.session /\ snap[k].known /\ ~snap[k].retired
        /\ control.grant[k] \in {"registered", "published"}
<1>1. k \in Keys BY DEF RuntimeInv, RuntimeTyped, KeptKeys, Candidates, Manager, Pending, Job
<1>2. /\ SessionOfKey(k) = dm.session
      /\ snap[k].known /\ snap[k].registered /\ ~snap[k].retired
  BY DEF RuntimeInv, KeysKept, OfSession
<1>3. control.grant[k] \in {"registered", "published"} BY <1>1, <1>2 DEF RuntimeInv, GrantsRecorded
<1> QED BY <1>2, <1>3

-----------------------------------------------------------------------------
(* The theorems.                                                           *)

\* The invariant holds in every reachable state of the manager and its control plane.
THEOREM RuntimeInductive == RuntimeSpec => []RuntimeInv
<1> QED BY InitSound, StepKeeps, PTL DEF RuntimeSpec

\* Committed routes and pending candidates keep live grants of the session in force,
\* whatever collections, failed publications and recoveries run beside each other.
THEOREM RoutesProved == RuntimeSpec => []RoutesBacked
<1>1. RuntimeInv => RoutesBacked
    BY KeptGrantLive DEF RoutesBacked, Admitting, KeptKeys, RuntimeInv, RoutesPublished,
       Published
<1> QED BY <1>1, RuntimeInductive, PTL

\* No invocation goes on under the grants of another session, and no snapshot is
\* collected under an invocation.
THEOREM InvocationsProved == RuntimeSpec => []InvocationsOfSession
<1>1. RuntimeInv => InvocationsOfSession
  BY DEF RuntimeInv, InvocationsHeld, InvocationsOfSession, OfSession
<1> QED BY <1>1, RuntimeInductive, PTL

\* Every live grant of the session in force has a record, so that a collection can
\* still retire it, even when the answer to its registration was lost.
THEOREM GrantsProved == RuntimeSpec => []GrantsAccounted
<1>1. RuntimeInv => GrantsAccounted
  BY DEF RuntimeInv, GrantsRecorded, GrantsAccounted
<1> QED BY <1>1, RuntimeInductive, PTL
================================================================================
