-------------------------- MODULE DurationTelemetry --------------------------
(***************************************************************************)
(* Request durations of the workers: counts and totals in time buckets     *)
(* that leave the window as time goes by, written to disk now and then by  *)
(* whichever batch finds the interval over, outside the lock, through one  *)
(* temporary file.  The process can stop at any moment and then starts     *)
(* from what is on disk, which an older release may have written.          *)
(*                                                                         *)
(* The samples kept for percentile estimates are left out: the count and   *)
(* the total of a bucket do not depend on the reservoir.  Durations are    *)
(* whole numbers: the rounding of a sum of floats is left out.             *)
(***************************************************************************)
EXTENDS Integers, FiniteSets

CONSTANTS Batches,           \* requests that deliver trace events
          BucketSize, Window,
          Durations, MaxBatches, MaxTelemetryClock, MaxTelemetryFaults

ASSUME TelemetryAssumption ==
    /\ {BucketSize, Window} \subseteq Nat \ {0}
    /\ {MaxBatches, MaxTelemetryClock, MaxTelemetryFaults} \subseteq Nat
    /\ Durations \subseteq Nat      \* an event with a negative one is skipped

VARIABLES buckets,                       \* start -> [count, total]
          persistDue,                    \* lastPersist is zero or persistEvery ago
          persisting, batch,
          tmpFile, diskFile,             \* what the two files hold
          telemetryClock, batchesLeft, telemetryFaults,
          recorded,                      \* history: the events that were accepted
          newestOnDisk                   \* history: the last snapshot that was renamed

telemetryVars == <<buckets, persistDue, persisting, batch, tmpFile, diskFile, telemetryClock,
                   batchesLeft, telemetryFaults, recorded, newestOnDisk>>

NoBuckets == [s \in {} |-> 0]
NoFile == [version |-> 0, workers |-> NoBuckets, events |-> {}, number |-> 0]
Partial == [version |-> -1, workers |-> NoBuckets, events |-> {}, number |-> 0]
IdleBatch == [op |-> "idle", snapshot |-> NoFile]

BucketOf(time) == time - (time % BucketSize)
InWindow(start, now) == start + BucketSize > now - Window

PruneWorkerLocked(b, now) == [s \in {x \in DOMAIN b : InWindow(x, now)} |-> b[s]]

Accepted(e, now) == e.time >= now - Window /\ e.time <= now

RecordLocked(b, e, now) ==
    LET start == BucketOf(e.time)
        old == IF start \in DOMAIN b THEN b[start] ELSE [count |-> 0, total |-> 0]
        new == [s \in DOMAIN b \cup {start} |->
                   IF s # start THEN b[s]
                   ELSE [count |-> old.count + 1, total |-> old.total + e.duration]]
    IN  IF ~Accepted(e, now) THEN b
        ELSE IF new[start].count = 1 THEN PruneWorkerLocked(new, now) ELSE new

\* Mutant: a batch writes although another is still writing.
PersistsAnyway == persistDue
Persists == persistDue /\ ~persisting

(* A batch of one event; it carries a time of its own, or none.            *)
RecordBatch(r, time, duration) ==
    LET e == [id |-> batchesLeft, time |-> IF time > 0 THEN time ELSE telemetryClock,
              duration |-> duration]
        b == RecordLocked(buckets, e, telemetryClock)
        all == IF Accepted(e, telemetryClock) THEN recorded \cup {e} ELSE recorded
    IN  /\ batch[r].op = "idle" /\ batchesLeft > 0 /\ batchesLeft' = batchesLeft - 1
        /\ buckets' = b /\ recorded' = all
        /\ IF Persists
           THEN /\ persisting' = TRUE /\ persistDue' = FALSE
                /\ batch' = [batch EXCEPT ![r] = [op |-> "write", snapshot |->
                                [version |-> 2, workers |-> b, events |-> all,
                                 number |-> MaxBatches - batchesLeft + 2]]]
           ELSE UNCHANGED <<persisting, persistDue, batch>>
        /\ UNCHANGED <<tmpFile, diskFile, telemetryClock, telemetryFaults, newestOnDisk>>

(* persistSnapshot: truncate, encode and close the temporary file, rename. *)
PersistSnapshot(r) ==
    /\ \/ /\ batch[r].op = "write" /\ tmpFile' = Partial
          /\ batch' = [batch EXCEPT ![r].op = "close"] /\ UNCHANGED <<diskFile, newestOnDisk>>
       \/ /\ batch[r].op = "close" /\ tmpFile' = batch[r].snapshot
          /\ batch' = [batch EXCEPT ![r].op = "rename"] /\ UNCHANGED <<diskFile, newestOnDisk>>
       \/ /\ batch[r].op = "rename" /\ tmpFile # NoFile
          /\ diskFile' = tmpFile /\ tmpFile' = NoFile
          /\ newestOnDisk' = IF batch[r].snapshot.number > newestOnDisk
                             THEN batch[r].snapshot.number ELSE newestOnDisk
          /\ batch' = [batch EXCEPT ![r].op = "written"]
    /\ UNCHANGED <<buckets, persistDue, persisting, telemetryClock, batchesLeft, telemetryFaults,
                   recorded>>

PersistFails(r) ==
    /\ batch[r].op \in {"write", "close", "rename"}
    /\ telemetryFaults > 0 /\ telemetryFaults' = telemetryFaults - 1
    /\ tmpFile' = IF batch[r].op = "close" THEN NoFile ELSE tmpFile
    /\ batch' = [batch EXCEPT ![r] = IdleBatch]
    /\ persisting' = FALSE /\ persistDue' = TRUE
    /\ UNCHANGED <<buckets, diskFile, telemetryClock, batchesLeft, recorded, newestOnDisk>>

BatchDone(r) ==
    /\ batch[r].op = "written" /\ batch' = [batch EXCEPT ![r] = IdleBatch] /\ persisting' = FALSE
    /\ UNCHANGED <<buckets, persistDue, tmpFile, diskFile, telemetryClock, batchesLeft,
                   telemetryFaults, recorded, newestOnDisk>>

(* The statistics of a worker first drop what has left the window.         *)
Stats ==
    /\ buckets' = PruneWorkerLocked(buckets, telemetryClock)
    /\ UNCHANGED <<persistDue, persisting, batch, tmpFile, diskFile, telemetryClock, batchesLeft,
                   telemetryFaults, recorded, newestOnDisk>>

(* A file of the older format holds one event for each request.            *)
Loaded(file, now) ==
    IF file.version # 1 THEN file.workers
    ELSE LET e == CHOOSE x \in file.events : TRUE IN RecordLocked(NoBuckets, e, now)

(* The process stops anywhere and another loads the file; its temporary    *)
(* file is whatever was written.                                           *)
Restart ==
    /\ telemetryFaults > 0 /\ telemetryFaults' = telemetryFaults - 1
    /\ buckets' = Loaded(diskFile, telemetryClock)
    /\ recorded' = IF diskFile.version # 1 THEN diskFile.events
                   ELSE {e \in diskFile.events : Accepted(e, telemetryClock)}
    /\ persistDue' = TRUE /\ persisting' = FALSE
    /\ batch' = [r \in Batches |-> IdleBatch]
    /\ UNCHANGED <<tmpFile, diskFile, telemetryClock, batchesLeft, newestOnDisk>>

TelemetryTick ==
    /\ telemetryClock < MaxTelemetryClock /\ telemetryClock' = telemetryClock + 1
    /\ UNCHANGED <<buckets, persistDue, persisting, batch, tmpFile, diskFile, batchesLeft,
                   telemetryFaults, recorded, newestOnDisk>>
IntervalPasses ==
    /\ ~persistDue /\ persistDue' = TRUE
    /\ UNCHANGED <<buckets, persisting, batch, tmpFile, diskFile, telemetryClock, batchesLeft,
                   telemetryFaults, recorded, newestOnDisk>>

---------------------------------------------------------------------------
(* No file yet, or one an older release left.                              *)

TelemetryInit ==
    \E file \in {NoFile, [NoFile EXCEPT !.version = 1,
                                        !.events = {[id |-> 0, time |-> 1, duration |-> 1]}]} :
        /\ diskFile = file /\ tmpFile = NoFile /\ newestOnDisk = 0
        /\ telemetryClock = 2
        /\ buckets = Loaded(file, 2) /\ recorded = file.events
        /\ persistDue = TRUE /\ persisting = FALSE
        /\ batch = [r \in Batches |-> IdleBatch]
        /\ batchesLeft = MaxBatches /\ telemetryFaults = MaxTelemetryFaults

TelemetryNext ==
    \/ Stats \/ Restart \/ TelemetryTick \/ IntervalPasses
    \/ \E r \in Batches :
          \/ \E time \in 0..MaxTelemetryClock + 1, duration \in Durations :
                RecordBatch(r, time, duration)
          \/ PersistSnapshot(r) \/ PersistFails(r) \/ BatchDone(r)

---------------------------------------------------------------------------
OfBucket(events, s) == {e \in events : BucketOf(e.time) = s}
Starts == {BucketOf(e.time) : e \in recorded} \cup DOMAIN buckets

(* The statistics of the window count every accepted event once, across    *)
(* pruning, writes that fail and restarts (which go back to the file).     *)
EventsCounted ==
    \A s \in Starts : InWindow(s, telemetryClock) =>
        s \in DOMAIN buckets /\ buckets[s].count = Cardinality(OfBucket(recorded, s))

(* So they do of the time the events took: a sum of durations is the       *)
(* number of their units.                                                  *)
Units(events) == UNION {{e} \X (1..e.duration) : e \in events}
DurationsSummed ==
    \A s \in Starts : InWindow(s, telemetryClock) =>
        buckets[s].total = Cardinality(Units(OfBucket(recorded, s)))

(* The file is a whole snapshot, the newest that was ever renamed, however *)
(* the batches that write overlap.                                         *)
SnapshotNewest == diskFile # Partial /\ diskFile.number = newestOnDisk

(* Statistics are exact in memory and survive in the file.                 *)
TelemetryExact == EventsCounted /\ DurationsSummed /\ SnapshotNewest
=============================================================================
