------------------------------ MODULE Storage ------------------------------
(***************************************************************************)
(* KV namespaces, databases and object buckets as the control plane and    *)
(* the workers use them: the catalog of named resources, values and        *)
(* objects with the usage the limits are checked against, and listing by   *)
(* page.  A request is suspended at each repository call, at each call to  *)
(* the object store and at each use of the usage cache.  Calls are made on *)
(* both repositories; the service goes on with the answer of PostgreSQL,   *)
(* for which the usage cache is enabled.                                   *)
(***************************************************************************)
EXTENDS ResourceRepository

CONSTANTS StorageThreads, Keys,  \* Keys: the KV keys, in byte order
          Sizes,                 \* sizes of values and objects
          ByteLimit,             \* bytes an organization may keep, of each kind
          MaxRequests            \* requests in a behaviour

ASSUME StorageAssumption ==
    /\ IsInjective(Keys) /\ Keys \in Seq(Range(Keys))
    /\ \A k \in Range(Keys) : k # <<>> /\ k \in Seq(Range(k))
    /\ Sizes \subseteq Nat /\ {ByteLimit, MaxRequests} \subseteq Nat

VARIABLES rsStore, rsPg, rsAgreed,   \* the two repositories; same answers so far
          rsMiscounted,              \* history: a write of PostgreSQL replaced a value of
                                     \* another size than the one it had read
          stReq, stLeft,             \* what each thread does; requests still to come
          stNow,                     \* the clock: 0, then 1
          usageCache,                \* kvOrgUsageCache of the organization
          bucket,                    \* the object store: path -> size of the bucket's objects
          limited,                   \* the organization's level limits bytes
          overlapped,                \* history: two requests were in progress at once, or a
                                     \* value expired during one
          drifted,                   \* history: whether objects changed behind the service's
                                     \* back: "never", "yes", "corrected" since
          walk                       \* a client going through the pages of a listing

repositories == <<rsStore, rsPg, rsAgreed, rsMiscounted>>
storageVars == <<repositories, stReq, stLeft, stNow, usageCache, bucket, limited, overlapped,
                 drifted, walk>>

Org == "o"
Cap == "cap"
NS == 1
Bucket == 1
Idle == [op |-> "idle"]
NoWalk == [on |-> FALSE]

Both(s, p) ==
    /\ rsStore' = s.db /\ rsPg' = p.db /\ UNCHANGED rsMiscounted
    /\ rsAgreed' = (rsAgreed /\ (s.out = "ok") = (p.out = "ok"))

Step(t, op) == stReq[t].op = op
Then(t, r) == stReq' = [stReq EXCEPT ![t] = r]
Begin(t, r) ==
    /\ Step(t, "idle") /\ stLeft > 0 /\ stLeft' = stLeft - 1
    /\ Then(t, r)
    /\ overlapped' = (overlapped \/ \E u \in StorageThreads : stReq[u] # Idle)
Carry == UNCHANGED <<stLeft, overlapped>>
Meanwhile == overlapped' = (overlapped \/ \E t \in StorageThreads : stReq[t] # Idle)

---------------------------------------------------------------------------
(* Values.                                                                 *)

KVRest == <<stNow, bucket, limited, drifted, walk>>

RuntimeKVGet(t, key) ==
    LET p == PgKVGet(rsPg, Cap, NS, key, stNow)
        s == StoreKVGet(rsStore, Cap, NS, key, stNow)
    IN  /\ Begin(t, IF p.val = Missing THEN Idle ELSE [op |-> "kvRead"])
        /\ rsStore' = s.db /\ rsPg' = p.db /\ UNCHANGED rsMiscounted
        /\ rsAgreed' = (rsAgreed /\ s.val = p.val)
        /\ UNCHANGED <<usageCache, KVRest>>

RecordRuntimeKVRead(t) ==
    /\ Step(t, "kvRead") /\ Then(t, Idle) /\ Carry
    /\ Both(StoreIncrementKVNamespaceReads(rsStore, NS), PgIncrementKVNamespaceReads(rsPg, NS))
    /\ UNCHANGED <<usageCache, KVRest>>

(* The size of the value a request replaces, 0 if there is none or it has  *)
(* expired.                                                                *)
SizeNow(key) ==
    LET v == PgKVValueSize(rsPg, Cap, NS, key, stNow).val IN IF v = Missing THEN 0 ELSE v
ReadValueSize(key) ==
    Both(StoreKVValueSize(rsStore, Cap, NS, key, stNow), PgKVValueSize(rsPg, Cap, NS, key, stNow))

(* A put that does not grow the value asks for no room, and names no       *)
(* organization to the usage cache.  Requests of workers are counted,      *)
(* those of the console are not.                                           *)
KVPutWithOptions(t, key, v, counted) ==
    LET delta == v.size - SizeNow(key)
    IN  /\ v.expires # 0 => stNow = 0
        /\ ReadValueSize(key)
        /\ Begin(t, [op |-> IF delta <= 0 THEN "kvWrite" ELSE "kvLimit", key |-> key, v |-> v,
                     delta |-> delta, org |-> delta > 0, counted |-> counted])
        /\ UNCHANGED <<usageCache, KVRest>>

RuntimeKVPut(t, key, v) == KVPutWithOptions(t, key, v, TRUE)
KVNamespacePut(t, key, n) == KVPutWithOptions(t, key, [size |-> n, expires |-> 0], FALSE)

KVDelete(t, key, counted) ==
    /\ ReadValueSize(key)
    /\ Begin(t, [op |-> "kvWrite", key |-> key, v |-> NotFound, delta |-> 0 - SizeNow(key),
                 org |-> TRUE, counted |-> counted])
    /\ UNCHANGED <<usageCache, KVRest>>

RuntimeKVDelete(t, key) == KVDelete(t, key, TRUE)
KVNamespaceDelete(t, key) == KVDelete(t, key, FALSE)

Room(r, current) == current + r.delta <= ByteLimit

(* The bytes in use come from the cache, or else from the repository; an   *)
(* answer of the repository is put into the cache afterwards.              *)
EnforceKVStorageBytesLimit(t) ==
    LET r == stReq[t]
        p == PgKVStorageBytesByOrg(rsPg, Org, stNow)
    IN  /\ Step(t, "kvLimit") /\ Carry
        /\ CASE ~limited -> Then(t, [r EXCEPT !.op = "kvWrite"]) /\ UNCHANGED repositories
             [] limited /\ usageCache.fresh ->
                /\ Then(t, IF Room(r, usageCache.size) THEN [r EXCEPT !.op = "kvWrite"] ELSE Idle)
                /\ UNCHANGED repositories
             [] OTHER ->
                /\ Then(t, [op |-> "kvFill", r |-> r, current |-> p.val])
                /\ Both(StoreKVStorageBytesByOrg(rsStore, Org, stNow), p)
        /\ UNCHANGED <<usageCache, KVRest>>

KVStorageBytesByOrg(t) ==
    LET f == stReq[t]
    IN  /\ Step(t, "kvFill") /\ Carry
        /\ usageCache' = [size |-> f.current, known |-> TRUE, fresh |-> TRUE]
        /\ Then(t, IF Room(f.r, f.current) THEN [f.r EXCEPT !.op = "kvWrite"] ELSE Idle)
        /\ UNCHANGED <<repositories, KVRest>>

(* PostgreSQL first reads the size of the value it is about to replace.    *)
KVReadSize(t) ==
    /\ Step(t, "kvWrite") /\ Carry
    /\ Then(t, [op |-> "kvCommit", r |-> stReq[t], old |-> PgKVOldSize(rsPg, NS, stReq[t].key)])
    /\ UNCHANGED <<repositories, usageCache, KVRest>>

(* The write; then the cache follows it if the repository applied exactly  *)
(* the expected change, and is dropped otherwise.                          *)
KVWrite(t) ==
    LET r == stReq[t].r
        old == stReq[t].old
        put == r.v # NotFound
        p == IF put THEN PgKVPutWithSizeDelta(rsPg, Cap, NS, r.key, r.v, old)
             ELSE PgKVDeleteWithSizeDelta(rsPg, Cap, NS, r.key, old)
        s == IF put THEN StoreKVPutWithSizeDelta(rsStore, Cap, NS, r.key, r.v)
             ELSE StoreKVDeleteWithSizeDelta(rsStore, Cap, NS, r.key)
    IN  /\ Step(t, "kvCommit") /\ Carry
        /\ rsStore' = s.db /\ rsPg' = p.db
        /\ rsAgreed' = (rsAgreed /\ (s.out = "ok") = (p.out = "ok"))
        /\ rsMiscounted' = (rsMiscounted \/ old # PgKVOldSize(rsPg, NS, r.key))
        /\ Then(t, [op |-> "kvCache", org |-> r.org, counted |-> r.counted,
                    delta |-> p.val, exact |-> p.val = r.delta])
        /\ UNCHANGED <<usageCache, KVRest>>

NoUsage == [size |-> 0, known |-> FALSE, fresh |-> FALSE]

(* Adjusting renews the entry's time to live, even if that had run out.    *)
AdjustedUsage(r) ==
    IF ~r.exact THEN NoUsage
    ELSE IF ~usageCache.known THEN usageCache
    ELSE [size |-> Clamp(usageCache.size + r.delta), known |-> TRUE, fresh |-> TRUE]

AdjustKVOrgUsageCache(t) ==
    LET r == stReq[t]
    IN  /\ Step(t, "kvCache") /\ Carry
        /\ usageCache' = IF r.org THEN AdjustedUsage(r) ELSE usageCache
        /\ Then(t, IF r.counted THEN [op |-> "kvWrote"] ELSE Idle)
        /\ UNCHANGED <<repositories, KVRest>>

RecordRuntimeKVWrite(t) ==
    /\ Step(t, "kvWrote") /\ Then(t, Idle) /\ Carry
    /\ Both(StoreIncrementKVNamespaceWrites(rsStore, NS), PgIncrementKVNamespaceWrites(rsPg, NS))
    /\ UNCHANGED <<usageCache, KVRest>>

(* GET of the namespace's metrics and the console's list of keys purge.    *)
KVNamespaceMetrics(t) ==
    /\ Begin(t, Idle)
    /\ Both(StoreKVNamespaceMetrics(rsStore, NS, stNow), PgKVNamespaceMetrics(rsPg, NS, stNow))
    /\ UNCHANGED <<usageCache, KVRest>>
KVNamespaceList(t) ==
    /\ Begin(t, Idle)
    /\ Both(StoreKVList(rsStore, "", NS, stNow), PgKVList(rsPg, "", NS, stNow))
    /\ UNCHANGED <<usageCache, KVRest>>

(* The entry's time to live runs out; the clock passes every expiry.       *)
UsageCacheExpires ==
    /\ usageCache.fresh /\ usageCache' = [usageCache EXCEPT !.fresh = FALSE]
    /\ UNCHANGED <<repositories, stReq, stLeft, overlapped, KVRest>>
ExpiryPasses ==
    /\ stNow = 0 /\ stNow' = 1
    /\ walk' = IF walk.on THEN [walk EXCEPT !.owed =
                   {k \in @ : \E r \in rsPg.runtime_kv : r.ns = NS /\ r.key = k /\ r.expires = 0}]
               ELSE walk
    /\ Meanwhile
    /\ UNCHANGED <<repositories, stReq, stLeft, usageCache, bucket, limited, drifted>>

---------------------------------------------------------------------------
(* Listing.  A client asks for page after page while others write; owed    *)
(* are the keys that have been there since it began.                       *)

Live(db, now) == {r \in db.runtime_kv : r.ns = NS /\ ~Expired(r, now)}
Matching(db, now, prefix) == {r.key : r \in {x \in Live(db, now) : IsPrefix(prefix, x.key)}}

StartListing(prefix) ==
    /\ ~walk.on /\ stLeft > 0 /\ stLeft' = stLeft - 1
    /\ walk' = [on |-> TRUE, prefix |-> prefix, cursor |-> <<>>, got |-> <<>>, done |-> FALSE,
                owed |-> Matching(rsPg, stNow, prefix)]
    /\ UNCHANGED <<repositories, stReq, stNow, usageCache, bucket, limited, overlapped, drifted>>

RuntimeKVList ==
    /\ walk.on /\ ~walk.done
    /\ LET p == PgKVListPage(rsPg, Keys, NS, walk.prefix, walk.cursor, 1, stNow)
           s == StoreKVListPage(rsStore, Keys, NS, walk.prefix, walk.cursor, 1, stNow)
       IN  /\ rsStore' = s.db /\ rsPg' = p.db /\ UNCHANGED rsMiscounted
           /\ rsAgreed' = (rsAgreed /\ s.val = p.val)
           /\ walk' = [walk EXCEPT !.cursor = p.val.cursor, !.got = @ \o p.val.keys,
                                   !.done = p.val.complete]
    /\ Meanwhile
    /\ UNCHANGED <<stReq, stLeft, stNow, usageCache, bucket, limited, drifted>>

(* In this part writes are single steps, with the size that is there, and  *)
(* a deleted key is owed no more.                                          *)
ListedPut(key, v) ==
    /\ stLeft > 0 /\ stLeft' = stLeft - 1
    /\ v.expires # 0 => stNow = 0
    /\ Both(StoreKVPutWithSizeDelta(rsStore, Cap, NS, key, v),
            PgKVPutWithSizeDelta(rsPg, Cap, NS, key, v, PgKVOldSize(rsPg, NS, key)))
    /\ Meanwhile
    /\ UNCHANGED <<stReq, stNow, usageCache, bucket, limited, drifted, walk>>
ListedDelete(key) ==
    /\ stLeft > 0 /\ stLeft' = stLeft - 1
    /\ Both(StoreKVDeleteWithSizeDelta(rsStore, Cap, NS, key),
            PgKVDeleteWithSizeDelta(rsPg, Cap, NS, key, PgKVOldSize(rsPg, NS, key)))
    /\ walk' = IF walk.on THEN [walk EXCEPT !.owed = @ \ {key}] ELSE walk
    /\ Meanwhile
    /\ UNCHANGED <<stReq, stNow, usageCache, bucket, limited, drifted>>

---------------------------------------------------------------------------
(* Objects.  Their bytes live in the object store; usage is kept beside it *)
(* in the repository, adjusted after each write.                           *)

ObjectRest == <<stNow, usageCache, limited, walk>>
Stored == SumOf(bucket, DOMAIN bucket)
SizeAt(path) == IF path \in DOMAIN bucket THEN bucket[path] ELSE 0

(* PUT and DELETE look the object up first.                                *)
RuntimeObjectPut(t, path, size) ==
    /\ Begin(t, [op |-> "objectLimit", path |-> path, size |-> size, old |-> SizeAt(path),
                 existed |-> path \in DOMAIN bucket])
    /\ UNCHANGED <<repositories, bucket, drifted, ObjectRest>>
RuntimeObjectDelete(t, path) ==
    /\ Begin(t, [op |-> "objectDelete", path |-> path, old |-> SizeAt(path),
                 existed |-> path \in DOMAIN bucket])
    /\ UNCHANGED <<repositories, bucket, drifted, ObjectRest>>

EnforceObjectStorageBytesLimit(t) ==
    LET r == stReq[t]
        fits == \/ r.size <= r.old \/ ~limited
                \/ PgObjectStorageBytesByOrg(rsPg, Org) + r.size - r.old <= ByteLimit
    IN  /\ Step(t, "objectLimit") /\ Carry
        /\ Then(t, IF fits THEN [r EXCEPT !.op = "objectPut"] ELSE Idle)
        /\ UNCHANGED <<repositories, bucket, drifted, ObjectRest>>

Adjusting(delta, count) ==
    [op |-> "objectSize", delta |-> delta, count |-> count]

ObjectPut(t) ==
    LET r == stReq[t]
    IN  /\ Step(t, "objectPut") /\ Carry
        /\ bucket' = Put(bucket, r.path, r.size)
        /\ Then(t, Adjusting(r.size - r.old, IF r.existed THEN 0 ELSE 1))
        /\ UNCHANGED <<repositories, drifted, ObjectRest>>
DeleteObject(t) ==
    LET r == stReq[t]
    IN  /\ Step(t, "objectDelete") /\ Carry
        /\ bucket' = Drop(bucket, r.path)
        /\ Then(t, Adjusting(0 - r.old, IF r.existed THEN -1 ELSE 0))
        /\ UNCHANGED <<repositories, drifted, ObjectRest>>

AdjustObjectSize(t) ==
    LET r == stReq[t]
    IN  /\ Step(t, "objectSize") /\ Carry
        /\ Both(StoreAdjustObjectStorageBucketSize(rsStore, Bucket, r.delta),
                PgAdjustObjectStorageBucketSize(rsPg, Bucket, r.delta))
        /\ Then(t, [r EXCEPT !.op = "objectCount"])
        /\ UNCHANGED <<bucket, drifted, ObjectRest>>
AdjustObjectCount(t) ==
    LET r == stReq[t]
    IN  /\ Step(t, "objectCount") /\ Carry
        /\ IF r.count = 0 THEN UNCHANGED repositories
           ELSE Both(StoreAdjustObjectStorageBucketObjectCount(rsStore, Bucket, r.count),
                     PgAdjustObjectStorageBucketObjectCount(rsPg, Bucket, r.count))
        /\ Then(t, [op |-> "objectWrote"])
        /\ UNCHANGED <<bucket, drifted, ObjectRest>>
RecordRuntimeObjectWrite(t) ==
    /\ Step(t, "objectWrote") /\ Then(t, Idle) /\ Carry
    /\ Both(StoreIncrementObjectStorageBucketWrites(rsStore, Bucket),
            PgIncrementObjectStorageBucketWrites(rsPg, Bucket))
    /\ UNCHANGED <<bucket, drifted, ObjectRest>>

RuntimeObjectGet(t, path) ==
    /\ path \in DOMAIN bucket
    /\ Begin(t, Idle)
    /\ Both(StoreIncrementObjectStorageBucketReads(rsStore, Bucket),
            PgIncrementObjectStorageBucketReads(rsPg, Bucket))
    /\ UNCHANGED <<bucket, drifted, ObjectRest>>

(* A presigned upload, allowed to organizations without a byte limit,      *)
(* writes to the object store directly.                                    *)
PresignedUpload(path, size) ==
    /\ ~limited /\ stLeft > 0 /\ stLeft' = stLeft - 1
    /\ bucket' = Put(bucket, path, size) /\ drifted' = "yes"
    /\ UNCHANGED <<repositories, stReq, overlapped, ObjectRest>>

(* GET of the bucket's metrics counts the objects and corrects the usage.  *)
ObjectStorageBucketMetrics(t) ==
    /\ Begin(t, [op |-> "objectList", was |-> PgObjectStorageBucketMetrics(rsPg, Bucket).size])
    /\ UNCHANGED <<repositories, bucket, drifted, ObjectRest>>
ReconcileObjectStorageBucketUsage(t) ==
    LET r == stReq[t]
    IN  /\ Step(t, "objectList") /\ Carry
        /\ Then(t, [op |-> "objectCorrect", delta |-> Stored - r.was,
                    count |-> Cardinality(DOMAIN bucket)])
        /\ drifted' = IF drifted = "never" THEN "never" ELSE "corrected"
        /\ UNCHANGED <<repositories, bucket, ObjectRest>>
CorrectObjectSize(t) ==
    LET r == stReq[t]
    IN  /\ Step(t, "objectCorrect") /\ Carry
        /\ Both(StoreAdjustObjectStorageBucketSize(rsStore, Bucket, r.delta),
                PgAdjustObjectStorageBucketSize(rsPg, Bucket, r.delta))
        /\ Then(t, [r EXCEPT !.op = "objectRecount"])
        /\ UNCHANGED <<bucket, drifted, ObjectRest>>
CorrectObjectCount(t) ==
    LET r == stReq[t]
    IN  /\ Step(t, "objectRecount") /\ Carry
        /\ Both(StoreSetObjectStorageBucketObjectCount(rsStore, Bucket, r.count),
                PgSetObjectStorageBucketObjectCount(rsPg, Bucket, r.count))
        /\ Then(t, Idle)
        /\ UNCHANGED <<bucket, drifted, ObjectRest>>

(* The process stops: every request ends where it is, its cache is lost.   *)
StorageCrash ==
    /\ \E t \in StorageThreads : stReq[t] # Idle
    /\ stReq' = [t \in StorageThreads |-> Idle]
    /\ usageCache' = NoUsage
    /\ drifted' = "yes"
    /\ UNCHANGED <<repositories, stLeft, stNow, bucket, limited, overlapped, walk>>

---------------------------------------------------------------------------
(* The catalog: named resources of the three kinds, and queries.           *)

CatalogRest == <<stNow, usageCache, bucket, limited, drifted, walk>>
Kinds == {"kv", "db", "bucket"}

Found(kind, id) ==
    CASE kind = "kv" -> PgGetKVNamespace(rsPg, id)
      [] kind = "db" -> PgGetDatabase(rsPg, id)
      [] OTHER -> PgGetObjectStorageBucket(rsPg, id)

(* Namespaces and buckets are limited in number, databases are not.        *)
EnforceOrgLimit(kind, limit) ==
    CASE kind = "kv" -> PgCountKVNamespacesByOrg(rsPg, Org) < limit
      [] kind = "bucket" -> PgCountObjectStorageBucketsByOrg(rsPg, Org) < limit
      [] OTHER -> TRUE

CreateResource(t, kind, name, limit) ==
    /\ Begin(t, IF EnforceOrgLimit(kind, limit)
                THEN [op |-> "create", kind |-> kind,
                      r |-> [id |-> 2 + MaxRequests - stLeft, org |-> Org, name |-> name]]
                ELSE Idle)
    /\ UNCHANGED <<repositories, CatalogRest>>
CreateInRepository(t) ==
    LET c == stReq[t]
    IN  /\ Step(t, "create") /\ Carry /\ Then(t, Idle)
        /\ CASE c.kind = "kv" -> Both(StoreCreateKVNamespace(rsStore, c.r),
                                      PgCreateKVNamespace(rsPg, c.r))
             [] c.kind = "db" -> Both(StoreCreateDatabase(rsStore, c.r), PgCreateDatabase(rsPg, c.r))
             [] OTHER -> Both(StoreCreateObjectStorageBucket(rsStore, c.r),
                              PgCreateObjectStorageBucket(rsPg, c.r))
        /\ UNCHANGED CatalogRest

UpdateResource(t, kind, id, name) ==
    /\ kind # "db"
    /\ Begin(t, IF Found(kind, id) = NotFound THEN Idle
                ELSE [op |-> "rename", kind |-> kind, r |-> [Found(kind, id) EXCEPT !.name = name]])
    /\ UNCHANGED <<repositories, CatalogRest>>
UpdateInRepository(t) ==
    LET c == stReq[t]
    IN  /\ Step(t, "rename") /\ Carry /\ Then(t, Idle)
        /\ IF c.kind = "kv"
           THEN Both(StoreUpdateKVNamespace(rsStore, c.r), PgUpdateKVNamespace(rsPg, c.r))
           ELSE Both(StoreUpdateObjectStorageBucket(rsStore, c.r),
                     PgUpdateObjectStorageBucket(rsPg, c.r))
        /\ UNCHANGED CatalogRest

DeleteResource(t, kind, id) ==
    /\ Begin(t, IF Found(kind, id) = NotFound THEN Idle
                ELSE [op |-> "delete", kind |-> kind, id |-> id])
    /\ UNCHANGED <<repositories, CatalogRest>>
DeleteInRepository(t) ==
    LET c == stReq[t]
    IN  /\ Step(t, "delete") /\ Carry /\ Then(t, Idle)
        /\ CASE c.kind = "kv" -> Both(StoreDeleteKVNamespace(rsStore, c.id),
                                      PgDeleteKVNamespace(rsPg, c.id))
             [] c.kind = "db" -> Both(StoreDeleteDatabase(rsStore, c.id), PgDeleteDatabase(rsPg, c.id))
             [] OTHER -> Both(StoreDeleteObjectStorageBucket(rsStore, c.id),
                              PgDeleteObjectStorageBucket(rsPg, c.id))
        /\ UNCHANGED CatalogRest

(* A query ran; the executor's statistics are recorded if it gives them,   *)
(* then the query.  Without statistics the size recorded is that of the    *)
(* result, 0 if that has none.                                             *)
ExecuteDatabase(t, id, q, stats) ==
    /\ Found("db", id) # NotFound
    /\ Begin(t, [op |-> IF stats = 0 THEN "dbRecord" ELSE "dbStats", id |-> id, stats |-> stats,
                 q |-> [q EXCEPT !.size = IF @ = 0 THEN stats ELSE @]])
    /\ UNCHANGED <<repositories, CatalogRest>>
UpdateDatabaseStats(t) ==
    LET c == stReq[t]
    IN  /\ Step(t, "dbStats") /\ Carry /\ Then(t, [c EXCEPT !.op = "dbRecord"])
        /\ Both(StoreUpdateDatabaseRuntimeStats(rsStore, c.id, c.stats),
                PgUpdateDatabaseRuntimeStats(rsPg, c.id, c.stats))
        /\ UNCHANGED CatalogRest
RecordDBQueryMetrics(t) ==
    LET c == stReq[t]
    IN  /\ Step(t, "dbRecord") /\ Carry /\ Then(t, Idle)
        /\ Both(StoreRecordDatabaseQueryMetrics(rsStore, c.id, c.q),
                PgRecordDatabaseQueryMetrics(rsPg, c.id, c.q))
        /\ UNCHANGED CatalogRest

---------------------------------------------------------------------------
(* A worker whose one deployment binds namespace 1, database 1 and bucket  *)
(* 1; the organization also has namespace 2 with one byte in it.           *)
SeededResources(db, app(_, _), activate(_, _), kv(_, _), database(_, _), objects(_, _), value(_)) ==
    LET a == app(db, [id |-> 1, org |-> Org, hostname |-> "h", auth |-> "off", token |-> Cap]).db
        n1 == kv(a, [id |-> 1, org |-> Org, name |-> "n"]).db
        n2 == kv(n1, [id |-> 2, org |-> Org, name |-> "m"]).db
        d == database(n2, [id |-> 1, org |-> Org, name |-> "n"]).db
        b == objects(d, [id |-> 1, org |-> Org, name |-> "n"]).db
    IN  value(activate(b, [id |-> 1, app |-> 1,
                           binds |-> {<<"kv", 1>>, <<"db", 1>>, <<"bucket", 1>>}]).db)

OneByte == [size |-> 1, expires |-> 0]

StorageInit(requests) ==
    /\ rsStore = SeededResources(StoreResources, StoreCreateApp, StoreActivate,
                    StoreCreateKVNamespace, StoreCreateDatabase, StoreCreateObjectStorageBucket,
                    LAMBDA db : StoreKVPutWithSizeDelta(db, "", 2, Keys[1], OneByte).db)
    /\ rsPg = SeededResources(PgResources, PgCreateApp, PgActivate,
                 PgCreateKVNamespace, PgCreateDatabase, PgCreateObjectStorageBucket,
                 LAMBDA db : PgKVPutWithSizeDelta(db, "", 2, Keys[1], OneByte, 0).db)
    /\ rsAgreed = TRUE /\ rsMiscounted = FALSE
    /\ stReq = [t \in StorageThreads |-> Idle] /\ stLeft = requests /\ stNow = 0
    /\ usageCache = NoUsage /\ bucket = None /\ limited \in BOOLEAN
    /\ overlapped = FALSE /\ drifted = "never" /\ walk = NoWalk

KeySet == Range(Keys)
NewValue == [size : Sizes, expires : {0, 1}]
Query == [wrote : BOOLEAN, duration : {5, 20000}, size : {0}]

KVNext ==
    \/ \E t \in StorageThreads, key \in {Keys[1], Keys[2]} :
        \/ RuntimeKVGet(t, key) \/ RuntimeKVDelete(t, key) \/ KVNamespaceDelete(t, key)
        \/ \E n \in Sizes : KVNamespacePut(t, key, n)
        \/ \E v \in NewValue : RuntimeKVPut(t, key, v)
    \/ \E t \in StorageThreads :
        \/ RecordRuntimeKVRead(t) \/ EnforceKVStorageBytesLimit(t) \/ KVStorageBytesByOrg(t)
        \/ KVReadSize(t) \/ KVWrite(t) \/ AdjustKVOrgUsageCache(t) \/ RecordRuntimeKVWrite(t)
        \/ KVNamespaceMetrics(t) \/ KVNamespaceList(t)
    \/ UsageCacheExpires \/ ExpiryPasses \/ StorageCrash

ListingNext ==
    \/ \E key \in KeySet : ListedDelete(key) \/ \E e \in {0, 1} : ListedPut(key, [size |-> 1, expires |-> e])
    \/ \E prefix \in {<<>>} \cup {<<k[1]>> : k \in KeySet} : StartListing(prefix)
    \/ RuntimeKVList \/ ExpiryPasses

ObjectsNext ==
    \/ \E t \in StorageThreads, path \in {"p", "q"} :
        \/ RuntimeObjectGet(t, path) \/ RuntimeObjectDelete(t, path)
        \/ \E n \in Sizes : RuntimeObjectPut(t, path, n)
    \/ \E t \in StorageThreads :
        \/ EnforceObjectStorageBytesLimit(t) \/ ObjectPut(t) \/ DeleteObject(t)
        \/ AdjustObjectSize(t) \/ AdjustObjectCount(t) \/ RecordRuntimeObjectWrite(t)
        \/ ObjectStorageBucketMetrics(t) \/ ReconcileObjectStorageBucketUsage(t)
        \/ CorrectObjectSize(t) \/ CorrectObjectCount(t)
    \/ \E n \in Sizes : PresignedUpload("p", n)
    \/ StorageCrash

CatalogNext ==
    \E t \in StorageThreads :
        \/ CreateInRepository(t) \/ UpdateInRepository(t) \/ DeleteInRepository(t)
        \/ UpdateDatabaseStats(t) \/ RecordDBQueryMetrics(t)
        \/ \E kind \in Kinds, name \in {"n", "x"}, id \in {2, 3} :
            \/ CreateResource(t, kind, name, 3)
            \/ UpdateResource(t, kind, id, name)
        \/ \E kind \in Kinds, id \in 1..3 : DeleteResource(t, kind, id)
        \/ \E q \in Query, stats \in {0, 1} : ExecuteDatabase(t, 1, q, stats)

---------------------------------------------------------------------------
(* Usage of a namespace is the same but for a size that was miscounted.    *)
SameUsage(s, p) ==
    /\ s.reads = p.reads /\ s.writes = p.writes
    /\ ~rsMiscounted => s.size = p.size

(* Both repositories answer every question about resources alike, whatever *)
(* calls came before; the bytes in a namespace's metrics, until a write of *)
(* PostgreSQL was overtaken between its read and its commit (see           *)
(* UsageAccounted).                                                        *)
ResourceBackendsAgree ==
    /\ rsAgreed
    /\ StoreListAppsByOrg(rsStore, "") = PgListAppsByOrg(rsPg, "")
    /\ StoreListKVNamespacesByOrg(rsStore, Org) = PgListKVNamespacesByOrg(rsPg, Org)
    /\ StoreListDatabasesByOrg(rsStore, Org) = PgListDatabasesByOrg(rsPg, Org)
    /\ StoreListObjectStorageBucketsByOrg(rsStore, Org) = PgListObjectStorageBucketsByOrg(rsPg, Org)
    /\ \A n \in {r.id : r \in rsPg.kv_namespaces} :
        /\ SameUsage(StoreKVNamespaceMetrics(rsStore, n, stNow).val,
                     PgKVNamespaceMetrics(rsPg, n, stNow).val)
        /\ StoreKVList(rsStore, "", n, stNow).val = PgKVList(rsPg, "", n, stNow).val
    /\ StoreKVStorageBytesByOrg(rsStore, Org, stNow).val = PgKVStorageBytesByOrg(rsPg, Org, stNow).val
    /\ \A d \in {r.id : r \in rsPg.databases} :
        StoreDatabaseMetrics(rsStore, d) = PgDatabaseMetrics(rsPg, d)
    /\ \A b \in {r.id : r \in rsPg.object_storage_buckets} :
        StoreObjectStorageBucketMetrics(rsStore, b) = PgObjectStorageBucketMetrics(rsPg, b)
    /\ StoreObjectStorageBytesByOrg(rsStore, Org) = PgObjectStorageBytesByOrg(rsPg, Org)

(* The usage the metrics and the limits rely on is what is stored.  For KV *)
(* in the store always, through expiry, purges, overwrites and interrupted *)
(* requests; in PostgreSQL until a write replaces a value of another size  *)
(* than it read before, which takes two requests at once: two puts of a    *)
(* new key count it twice, two deletes, or one and a purge, uncount it     *)
(* twice.  For objects between requests, as long as none overlapped and    *)
(* nothing wrote behind the service since the usage was last corrected.    *)
UsageAccounted ==
    /\ rsMiscounted => overlapped
    /\ ~rsMiscounted => \A n \in rsPg.kv_namespaces :
        RowOf(rsPg.kv_namespace_metrics, n.id, ZeroKV).size
            = Total({r \in rsPg.runtime_kv : r.ns = n.id})
    /\ \A n \in DOMAIN rsStore.kvNamespaces :
        MetricsOf(rsStore.kvMetrics, n, ZeroKV).size
            = Bytes(rsStore.kv, {k \in DOMAIN rsStore.kv : k[1] = n})
    /\ ~overlapped /\ drifted # "yes" /\ (\A t \in StorageThreads : stReq[t] = Idle)
        => LET m == PgObjectStorageBucketMetrics(rsPg, Bucket)
           IN  /\ m.size = Stored
               /\ m.count = Cardinality(DOMAIN bucket)

(* A limited organization whose requests never overlapped and were never   *)
(* interrupted stays within its bytes of KV values and of objects; the     *)
(* usage cache, with values expiring behind it, never promises room that   *)
(* is not there.                                                           *)
ByteLimitHeld ==
    limited /\ ~overlapped =>
        /\ PgKVStorageBytesByOrg(rsPg, Org, stNow).val <= ByteLimit
        /\ drifted = "never" => Stored <= ByteLimit

(* The stored usage is right and the limits that rest on it are kept.      *)
UsageHeld == UsageAccounted /\ ByteLimitHeld

(* A client that follows the cursor to the end has seen every key that was *)
(* there all the time, and no key twice, whatever was written meanwhile.   *)
ListingComplete ==
    walk.on => /\ IsInjective(walk.got)
               /\ walk.done => walk.owed \subseteq Range(walk.got)
=============================================================================
