----------------------------- MODULE MCPlatform ------------------------------
(***************************************************************************)
(* What the control plane manages: storage resources, workers and their    *)
(* routing, and namespaces with their scripts and assets.  They meet in    *)
(* repository rows only, which each module has its own view of, so one run *)
(* explores them one at a time: the part, and with it what exists at       *)
(* first, is chosen initially.                                             *)
(***************************************************************************)
EXTENDS Storage, Workers, Namespaces, TLC

VARIABLE part

PlatformSymmetry == Permutations(StorageThreads)

MCKeys == << <<"_">>, <<"a">>, <<"a", "b">> >>

MCEdits ==
    {Edit("tags.item put", CfTagsPut(Blank, {"x"})), Edit("tags.put", CfTagsPut(Blank, {"y"})),
     Edit("tags.item delete", CfTagsPut(Blank, {"x"})),
     Edit("secrets.bulk", CfSecretsPut(Blank, {"p"})),
     Edit("secrets.put", CfSecretsPut(Blank, {"q"})),
     Edit("secrets.delete", CfSecretsPut(Blank, {"q"})),
     Edit("content.put", CfContentPut(Blank, 9))}

StorageParts == {"kv", "serial", "expiry", "listing", "objects", "catalog"}
NamespaceParts == {"policies", "native", "managed", "assets"}

PlatformInit ==
    /\ part \in StorageParts \cup NamespaceParts \cup {"workers"}
    /\ StorageInit(CASE part = "listing" -> 5 [] part = "kv" -> 2 [] OTHER -> 3)
    /\ part \notin {"kv", "objects"} => limited = (part = "serial")
    /\ WorkersInit
    /\ CASE part = "policies" -> NamespacesInit(3, "empty")
         [] part \in {"native", "managed"} -> NamespacesInit(2, part)
         [] OTHER -> NamespacesInit(4, "empty")

platformVars == <<part, storageVars, workersVars, namespacesVars>>

PlatformNext ==
    /\ UNCHANGED part
    /\ \/ /\ \/ part = "kv" /\ KVNext
             \/ part = "serial" /\ KVNext /\ ~overlapped'
             \/ part = "expiry" /\ KVNext /\ (stNow = 0 => stLeft' >= 2)
             \/ part = "listing" /\ ListingNext
             \/ part = "objects" /\ ObjectsNext
             \/ part = "catalog" /\ CatalogNext
          /\ UNCHANGED <<workersVars, namespacesVars>>
       \/ part = "workers" /\ WorkersNext /\ UNCHANGED <<storageVars, namespacesVars>>
       \/ /\ \/ part = "policies" /\ PoliciesNext
             \/ part \in {"native", "managed"} /\ ManagedNext
             \/ part = "assets" /\ AssetsNext
          /\ UNCHANGED <<storageVars, workersVars>>

PlatformSpec == PlatformInit /\ [][PlatformNext]_platformVars

(* The two repositories of resources, workers and namespaces, in memory    *)
(* and PostgreSQL, cannot be told apart by the services: after any         *)
(* sequence of requests, of concurrent ones too, every call has had the    *)
(* same outcome on both and every query answers the same on both, though   *)
(* one keeps indexes by hand and the other relies on unique indexes,       *)
(* foreign keys and conditional updates.  The exception is the size in the *)
(* metrics of a KV namespace, once two requests on one key were            *)
(* interleaved within a write of PostgreSQL (see UsageAccounted).          *)
PlatformBackendsAgree ==
    /\ part \in StorageParts => ResourceBackendsAgree
    /\ part = "workers" => WorkerBackendsAgree
    /\ part \in NamespaceParts => NamespaceBackendsAgree
=============================================================================
