---------------------------- MODULE DatabaseFiles ----------------------------
(***************************************************************************)
(* The SQLite files of workers' databases and their replicas: how a file   *)
(* is opened (and fetched from its replica when it is missing), queried,   *)
(* restored to an earlier state and deleted, and the supervisor of the     *)
(* Litestream daemon, with its generated configuration.  Queries share     *)
(* restoreMu, a restore has it alone; open takes m.mu only for moments,    *)
(* and Delete does not take restoreMu.                                     *)
(*                                                                         *)
(* A file is an inode that has names; a handle keeps its inode whatever    *)
(* happens to the names.  An inode stands for a file with its journal.     *)
(* The process and the daemon stop together, as in the container image.    *)
(***************************************************************************)
EXTENDS Naturals, FiniteSets, Sequences, FiniteSetsExt

CONSTANTS DbThreads, MaxDbRequests, MaxDbFaults

ASSUME DatabaseFilesAssumption == {MaxDbRequests, MaxDbFaults} \subseteq Nat

Databases == {1, 2}   \* the first exists, the second may be created

VARIABLES inodes,            \* contents of files: statements <<"write" | "migration", request>>
          names,             \* database -> inode at its path, .restore and .pre-restore; 0 for none
          replica,           \* database -> [points: states it can be restored to, latest]
          opened, dbs,       \* handles, [inode, closed]; the handle kept for a database, 0 for none
          litestream,        \* the supervisor and its daemons
          dbReq, dbLeft,     \* what threads do; requests and faults to come
          catalog,           \* databases in the repository
          dbUp,
          acknowledged       \* history: what clients were told is in a database

fileVars == <<inodes, names, replica, opened, dbs>>
databaseVars == <<fileVars, litestream, dbReq, dbLeft, catalog, dbUp, acknowledged>>

DbIdle == [op |-> "idle"]
NoReplica == [points |-> {}, latest |-> {}]
AtStep(t, op) == dbUp /\ dbReq[t].op = op
ToStep(t, r) == dbReq' = [dbReq EXCEPT ![t] = r]
Advance(t, op) == ToStep(t, [dbReq[t] EXCEPT !.op = op])
DbFault == dbLeft.faults > 0 /\ dbLeft' = [dbLeft EXCEPT !.faults = @ - 1]
DbFaultIf(f) == IF f THEN DbFault ELSE UNCHANGED dbLeft

Content(i) == IF i = 0 THEN {} ELSE inodes[i]
Closed(h) == [opened EXCEPT ![h].closed = TRUE]

---------------------------------------------------------------------------
(* The supervisor.  A call under its mutex has a set of outcomes.          *)

Supervisor == [databases |-> {}, config |-> {}, cmd |-> 0, last |-> 0,
               daemons |-> {},   \* running ones: [id, knows]
               exits |-> {}]     \* ended ones that Wait has not reported yet
Succeeds(l) == [ls |-> l, ok |-> TRUE, fault |-> FALSE]
Fails(l) == [ls |-> l, ok |-> FALSE, fault |-> TRUE]

(* A daemon reads the configuration when it starts.                        *)
StartLocked(l) ==
    IF l.cmd # 0 THEN {Succeeds(l)}
    ELSE {Fails(l),
          Succeeds([l EXCEPT !.cmd = l.last + 1, !.last = @ + 1,
                             !.daemons = @ \cup {[id |-> l.last + 1, knows |-> l.config]}])}
StopLocked(l) ==
    [l EXCEPT !.cmd = 0, !.daemons = {x \in @ : x.id # l.cmd}, !.exits = @ \cup {l.cmd}]

RegisterLocked(l, d) ==
    [l EXCEPT !.daemons = {IF x.id = l.cmd THEN [x EXCEPT !.knows = @ \cup {d}] ELSE x : x \in @}]
Answers(l) == \E x \in l.daemons : x.id = l.cmd

WriteGeneratedConfig(l) == [l EXCEPT !.config = l.databases]

(* A database already in the configuration is taken to be known.  Where    *)
(* registering fails the daemon is replaced by one that reads the file.    *)
EnsureDatabase(l, d, start) ==
    LET added == [l EXCEPT !.databases = @ \cup {d}]
        written == WriteGeneratedConfig(added)
    IN  IF d \in l.databases THEN IF start THEN StartLocked(l) ELSE {Succeeds(l)}
        ELSE {Fails(added)} \cup
             IF ~start THEN {Succeeds(written)}
             ELSE IF l.cmd = 0 THEN StartLocked(written)
             ELSE (IF Answers(l) THEN {Succeeds(RegisterLocked(written, d))} ELSE {})
                  \cup {[r EXCEPT !.fault = @ \/ Answers(l)] : r \in StartLocked(StopLocked(written))}

Reported(l, id) == [l EXCEPT !.exits = @ \ {id}, !.cmd = IF @ = id THEN 0 ELSE @]
WaitReturns ==
    /\ dbUp /\ \E id \in litestream.exits : litestream' = Reported(litestream, id)
    /\ UNCHANGED <<fileVars, dbReq, dbLeft, catalog, dbUp, acknowledged>>

DaemonExits ==
    /\ DbFault
    /\ \E x \in litestream.daemons :
          litestream' = [litestream EXCEPT !.daemons = @ \ {x}, !.exits = @ \cup {x.id}]
    /\ UNCHANGED <<fileVars, dbReq, catalog, dbUp, acknowledged>>

(* The daemon copies what it finds at the path of a database it knows.     *)
Replicate(d) ==
    /\ \E x \in litestream.daemons : d \in x.knows
    /\ names[d].path # 0
    /\ LET now == Content(names[d].path)
       IN  replica' = [replica EXCEPT ![d] = [points |-> @.points \cup {now}, latest |-> now]]
    /\ UNCHANGED <<inodes, names, opened, dbs, litestream, dbReq, dbLeft, catalog, dbUp, acknowledged>>

---------------------------------------------------------------------------
(* Opening: the handle kept, or a file, fetched when it is missing.        *)

Restoring == {t \in DbThreads : dbReq[t].op \in {"prepare", "fetch", "close", "away", "in", "clean"}}
Reading == {t \in DbThreads : dbReq[t].op \in {"open", "stat", "configure", "pull", "file", "keep",
                                                "register", "execute"}
                               /\ dbReq[t].kind # "create"}

BeginDb(t, r) ==
    /\ AtStep(t, "idle") /\ dbLeft.requests > 0 /\ r.db \in catalog
    /\ dbLeft' = [dbLeft EXCEPT !.requests = @ - 1] /\ ToStep(t, r)

(* ExecuteContext and ApplyMigration take restoreMu for reading.           *)
StartQuery(t, d, kind) ==
    /\ Restoring = {}
    /\ BeginDb(t, [op |-> "open", db |-> d, kind |-> kind, id |-> dbLeft.requests, handle |-> 0])
    /\ UNCHANGED <<fileVars, litestream, catalog, dbUp, acknowledged>>

Open(t) ==
    LET r == dbReq[t]
        h == dbs[r.db]
    IN  /\ AtStep(t, "open")
        /\ ToStep(t, [r EXCEPT !.op = IF h # 0 THEN "execute" ELSE "stat", !.handle = h])
        /\ UNCHANGED <<fileVars, litestream, dbLeft, catalog, dbUp, acknowledged>>

(* CreateDatabase is done with it here.                                    *)
AfterFetch(t) == IF dbReq[t].kind = "create" THEN ToStep(t, DbIdle) ELSE Advance(t, "file")

RestoreMissing(t) ==
    /\ AtStep(t, "stat")
    /\ IF names[dbReq[t].db].path = 0 THEN Advance(t, "configure") ELSE AfterFetch(t)
    /\ UNCHANGED <<fileVars, litestream, dbLeft, catalog, dbUp, acknowledged>>

ConfigureDatabase(t) ==
    /\ AtStep(t, "configure")
    /\ \E r \in EnsureDatabase(litestream, dbReq[t].db, FALSE) :
          /\ litestream' = r.ls /\ DbFaultIf(r.fault)
          /\ IF r.ok THEN Advance(t, "pull") ELSE ToStep(t, DbIdle)
    /\ UNCHANGED <<fileVars, catalog, dbUp, acknowledged>>

(* litestream restore -if-db-not-exists -if-replica-exists.                *)
Fetchable(d) == names[d].path = 0 /\ replica[d].points # {}

PullReplica(t) ==
    LET d == dbReq[t].db
    IN  /\ AtStep(t, "pull")
        /\ \/ /\ Fetchable(d) /\ AfterFetch(t) /\ UNCHANGED dbLeft
              /\ inodes' = Append(inodes, replica[d].latest)
              /\ names' = [names EXCEPT ![d].path = Len(inodes) + 1]
           \/ ~Fetchable(d) /\ AfterFetch(t) /\ UNCHANGED <<dbLeft, inodes, names>>
           \/ DbFault /\ ToStep(t, DbIdle) /\ UNCHANGED <<inodes, names>>
        /\ UNCHANGED <<replica, opened, dbs, litestream, catalog, dbUp, acknowledged>>

(* SQLite creates the file where there is none.                            *)
OpenFile(t) ==
    LET d == dbReq[t].db
        i == IF names[d].path = 0 THEN Len(inodes) + 1 ELSE names[d].path
    IN  /\ AtStep(t, "file")
        /\ inodes' = IF names[d].path = 0 THEN Append(inodes, {}) ELSE inodes
        /\ names' = [names EXCEPT ![d].path = i]
        /\ opened' = Append(opened, [inode |-> i, closed |-> FALSE])
        /\ ToStep(t, [dbReq[t] EXCEPT !.op = "keep", !.handle = Len(opened) + 1])
        /\ UNCHANGED <<replica, dbs, litestream, dbLeft, catalog, dbUp, acknowledged>>

KeepHandle(t) ==
    LET r == dbReq[t]
        kept == dbs[r.db]
    IN  /\ AtStep(t, "keep")
        /\ IF kept # 0
           THEN /\ opened' = Closed(r.handle) /\ UNCHANGED dbs
                /\ ToStep(t, [r EXCEPT !.op = "execute", !.handle = kept])
           ELSE dbs' = [dbs EXCEPT ![r.db] = r.handle] /\ Advance(t, "register") /\ UNCHANGED opened
        /\ UNCHANGED <<inodes, names, replica, litestream, dbLeft, catalog, dbUp, acknowledged>>

RegisterOpened(t) ==
    LET r == dbReq[t]
    IN  /\ AtStep(t, "register")
        /\ \E o \in EnsureDatabase(litestream, r.db, TRUE) :
              /\ litestream' = o.ls /\ DbFaultIf(o.fault)
              /\ IF o.ok THEN Advance(t, "execute") /\ UNCHANGED <<opened, dbs>>
                 ELSE /\ ToStep(t, DbIdle) /\ opened' = Closed(r.handle)
                      /\ dbs' = [dbs EXCEPT ![r.db] = IF @ = r.handle THEN 0 ELSE @]
        /\ UNCHANGED <<inodes, names, replica, catalog, dbUp, acknowledged>>

---------------------------------------------------------------------------
(* Statements.  The connection of a closed handle refuses them.  A read,   *)
(* or a transaction (a batch, a migration) cut short, leaves the file as   *)
(* it was; a statement may also be done and its answer lost to the time    *)
(* limit or to the limits on results.                                      *)

Migrations(content) == {s \in content : s[1] = "migration"}
Execute(t) ==
    LET r == dbReq[t]
        i == opened[r.handle].inode
        new == IF r.kind = "migration" /\ Migrations(inodes[i]) # {} THEN {} ELSE {<<r.kind, r.id>>}
    IN  /\ AtStep(t, "execute") /\ ToStep(t, DbIdle)
        /\ \/ UNCHANGED <<inodes, acknowledged>>
           \/ /\ ~opened[r.handle].closed
              /\ inodes' = [inodes EXCEPT ![i] = @ \cup new]
              /\ \E told \in {{}, new} : acknowledged' = [acknowledged EXCEPT ![r.db] = @ \cup told]
        /\ UNCHANGED <<names, replica, opened, dbs, litestream, dbLeft, catalog, dbUp>>

---------------------------------------------------------------------------
(* Restore, alone: a copy is fetched beside the file and then exchanged.   *)

StartRestore(t, d) ==
    /\ Restoring = {} /\ Reading = {}
    /\ BeginDb(t, [op |-> "prepare", db |-> d])
    /\ UNCHANGED <<fileVars, litestream, catalog, dbUp, acknowledged>>

RestorePrepares(t) ==
    /\ AtStep(t, "prepare")
    /\ \E o \in EnsureDatabase(litestream, dbReq[t].db, TRUE) :
          /\ litestream' = o.ls /\ DbFaultIf(o.fault)
          /\ IF o.ok THEN Advance(t, "fetch") ELSE ToStep(t, DbIdle)
    /\ UNCHANGED <<fileVars, catalog, dbUp, acknowledged>>

RestoreTo(t) ==
    LET d == dbReq[t].db
    IN  /\ AtStep(t, "fetch")
        /\ \/ /\ Advance(t, "close") /\ UNCHANGED dbLeft
              /\ \E point \in replica[d].points : inodes' = Append(inodes, point)
              /\ names' = [names EXCEPT ![d].temp = Len(inodes) + 1]
           \/ /\ DbFaultIf(replica[d].points # {}) /\ ToStep(t, DbIdle)
              /\ names' = [names EXCEPT ![d].temp = 0] /\ UNCHANGED inodes
        /\ UNCHANGED <<replica, opened, dbs, litestream, catalog, dbUp, acknowledged>>

\* Mutant: the handle stays with the manager.
WithoutHandleNot(d) == dbs
WithoutHandle(d) == [dbs EXCEPT ![d] = 0]
CloseHandle(t) ==
    LET d == dbReq[t].db
    IN  /\ AtStep(t, "close") /\ Advance(t, "away")
        /\ dbs' = WithoutHandle(d)
        /\ opened' = IF dbs[d] # 0 /\ dbs'[d] = 0 THEN Closed(dbs[d]) ELSE opened
        /\ UNCHANGED <<inodes, names, replica, litestream, dbLeft, catalog, dbUp, acknowledged>>

(* From here on the restore decides what the database holds.               *)
MoveAway(t) ==
    LET d == dbReq[t].db
    IN  /\ AtStep(t, "away")
        /\ \/ /\ names' = [names EXCEPT ![d].backup = names[d].path, ![d].path = 0]
              /\ Advance(t, "in") /\ acknowledged' = [acknowledged EXCEPT ![d] = {}] /\ UNCHANGED dbLeft
           \/ /\ DbFault /\ ToStep(t, DbIdle) /\ UNCHANGED acknowledged
              /\ names' = [names EXCEPT ![d].backup = 0]
        /\ UNCHANGED <<inodes, replica, opened, dbs, litestream, catalog, dbUp>>

(* The journal goes before the exchange: a file that is put back may lack  *)
(* what only the journal had.                                              *)
MoveIn(t) ==
    LET d == dbReq[t].db
        n == names[d]
    IN  /\ AtStep(t, "in")
        /\ \/ /\ names' = [names EXCEPT ![d].path = n.temp, ![d].temp = 0] /\ Advance(t, "clean")
              /\ acknowledged' = [acknowledged EXCEPT ![d] = inodes[n.temp]]
              /\ UNCHANGED <<dbLeft, inodes>>
           \/ /\ DbFault /\ ToStep(t, DbIdle) /\ UNCHANGED acknowledged
              /\ names' = [names EXCEPT ![d].path = n.backup, ![d].backup = 0]
              /\ IF n.backup = 0 THEN UNCHANGED inodes
                 ELSE \E left \in SUBSET inodes[n.backup] : inodes' = [inodes EXCEPT ![n.backup] = left]
        /\ UNCHANGED <<replica, opened, dbs, litestream, catalog, dbUp>>

RestoreEnds(t) ==
    /\ AtStep(t, "clean") /\ ToStep(t, DbIdle)
    /\ names' = [names EXCEPT ![dbReq[t].db].backup = 0]
    /\ UNCHANGED <<inodes, replica, opened, dbs, litestream, dbLeft, catalog, dbUp, acknowledged>>

---------------------------------------------------------------------------
(* Creation, deletion and the process.                                     *)

(* A new row, then RestoreMissing, whose errors are ignored, without        *)
(* restoreMu.                                                              *)
CreateDatabase(t) ==
    /\ AtStep(t, "idle") /\ dbLeft.new > 0 /\ dbLeft' = [dbLeft EXCEPT !.new = @ - 1]
    /\ catalog' = catalog \cup {2} /\ ToStep(t, [op |-> "stat", db |-> 2, kind |-> "create"])
    /\ UNCHANGED <<fileVars, litestream, dbUp, acknowledged>>

(* The row goes first, so no request begins for the database any more.     *)
StartDelete(t, d) ==
    /\ BeginDb(t, [op |-> "forget", db |-> d]) /\ catalog' = catalog \ {d}
    /\ UNCHANGED <<fileVars, litestream, dbUp, acknowledged>>
DeleteForgets(t) ==
    LET d == dbReq[t].db
    IN  /\ AtStep(t, "forget") /\ Advance(t, "remove") /\ dbs' = [dbs EXCEPT ![d] = 0]
        /\ opened' = IF dbs[d] # 0 THEN Closed(dbs[d]) ELSE opened
        /\ UNCHANGED <<inodes, names, replica, litestream, dbLeft, catalog, dbUp, acknowledged>>
DeleteRemoves(t) ==
    /\ AtStep(t, "remove") /\ ToStep(t, DbIdle)
    /\ names' = [names EXCEPT ![dbReq[t].db].path = 0]
    /\ UNCHANGED <<inodes, replica, opened, dbs, litestream, dbLeft, catalog, dbUp, acknowledged>>

ProcessStops ==
    /\ dbUp /\ dbUp' = FALSE /\ DbFault
    /\ dbs' = [d \in Databases |-> 0] /\ opened' = <<>>
    /\ litestream' = Supervisor /\ dbReq' = [t \in DbThreads |-> DbIdle]
    /\ UNCHANGED <<inodes, names, replica, catalog, acknowledged>>

(* A process whose daemon does not start ends.                             *)
StartSupervisor(l) ==
    IF l.databases = {} THEN {WriteGeneratedConfig(l)}
    ELSE {o.ls : o \in {x \in StartLocked(l) : x.ok}}

(* NewSQLiteManager configures the files it finds, then the daemon is      *)
(* started if there are any.                                               *)
ProcessStarts ==
    LET found == {d \in Databases : names[d].path # 0}
    IN  /\ ~dbUp /\ dbUp' = TRUE
        /\ litestream' \in StartSupervisor(WriteGeneratedConfig([Supervisor EXCEPT !.databases = found]))
        /\ UNCHANGED <<fileVars, dbReq, dbLeft, catalog, acknowledged>>

---------------------------------------------------------------------------
(* A database with its file, or with its replica only.                     *)
DatabaseFilesInit(requests, creations) ==
    /\ inodes \in {<<>>, << {<<"write", 0>>} >>}
    /\ names = [d \in Databases |-> [path |-> IF d = 1 THEN Len(inodes) ELSE 0, temp |-> 0, backup |-> 0]]
    /\ replica = [d \in Databases |->
                     IF d = 1 THEN [points |-> {{<<"write", 0>>}}, latest |-> {<<"write", 0>>}]
                     ELSE NoReplica]
    /\ opened = <<>> /\ dbs = [d \in Databases |-> 0]
    /\ litestream = Supervisor /\ dbReq = [t \in DbThreads |-> DbIdle]
    /\ dbLeft = [requests |-> requests, faults |-> MaxDbFaults, new |-> creations]
    /\ catalog = {1} /\ dbUp = FALSE
    /\ acknowledged = [d \in Databases |-> IF d = 1 THEN {<<"write", 0>>} ELSE {}]

DatabaseFilesNext ==
    \/ WaitReturns \/ DaemonExits \/ ProcessStops \/ ProcessStarts
    \/ \E d \in Databases : Replicate(d)
    \/ \E t \in DbThreads :
        \/ \E d \in Databases : StartRestore(t, d) \/ StartDelete(t, d)
        \/ \E d \in Databases, kind \in {"write", "migration"} : StartQuery(t, d, kind)
        \/ CreateDatabase(t) \/ Open(t) \/ RestoreMissing(t) \/ ConfigureDatabase(t) \/ PullReplica(t) \/ OpenFile(t)
        \/ KeepHandle(t) \/ RegisterOpened(t) \/ Execute(t)
        \/ RestorePrepares(t) \/ RestoreTo(t) \/ CloseHandle(t) \/ MoveAway(t) \/ MoveIn(t)
        \/ RestoreEnds(t) \/ DeleteForgets(t) \/ DeleteRemoves(t)

---------------------------------------------------------------------------
(* What a client was told is in a database stays there until it is         *)
(* restored or deleted, however opening, fetching, restoring, failed steps *)
(* and restarts interleave; a migration is in it once; and never do two    *)
(* daemons replicate it.                                                   *)
DatabasesKept ==
    /\ \A d \in catalog :
          /\ acknowledged[d] \subseteq
                IF names[d].path # 0 THEN Content(names[d].path) ELSE replica[d].latest
          /\ Cardinality(Migrations(Content(names[d].path))) <= 1
    /\ Cardinality(litestream.daemons) <= 1
=============================================================================
