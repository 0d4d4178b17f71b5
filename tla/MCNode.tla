------------------------------- MODULE MCNode -------------------------------
(***************************************************************************)
(* What a process keeps beside the repository: the browser sessions it     *)
(* refreshes, the identity provider's keys it caches, the files of         *)
(* databases, the file of duration telemetry and the jobs of the cron      *)
(* runner.  They do not call each other, so one run explores them one at a *)
(* time: the part is chosen initially.                                     *)
(***************************************************************************)
EXTENDS BrowserSessions, SigningKeys, DatabaseFiles, DurationTelemetry, Scheduler, TLC

VARIABLE part

NodeSymmetry == Permutations(DbThreads)

Clock(m, h, d, w) == [minute |-> m, hour |-> h, day |-> d, month |-> 10, weekday |-> w]
MCCalendar == <<Clock(58, 23, 12, 5), Clock(59, 23, 12, 5), Clock(0, 0, 13, 6), Clock(1, 0, 14, 0)>>
MCExpressions ==
    << <<Listed({[Star EXCEPT !.step = 2]}), Plain, Listed({Star}), Plain, Listed({Item(1, 1, 1)})>>,
       <<Plain, Plain, Listed({Item(13, 13, 1)}), Plain, Listed({Item(5, 7, 2)})>>,
       <<Listed({Item(0, 59, 59)}), Plain, Listed({Item(12, 14, 1)}), Listed({Item(10, 10, 1)}), Plain>>,
       <<Plain, Plain, Listed({Item(0, 3, 1)}), Plain, Plain>> >>

NodeInit ==
    /\ part \in {"browser", "keys", "queries", "databases", "telemetry", "cron"}
    /\ BrowserInit /\ SigningInit /\ SchedulerInit
    /\ TelemetryInit /\ (part # "telemetry" => diskFile = NoFile)
    /\ IF part = "databases" THEN DatabaseFilesInit(MaxDbRequests - 1, 1)
       ELSE DatabaseFilesInit(MaxDbRequests, 0)
    /\ part \notin {"queries", "databases"} => inodes = <<>>

nodeVars == <<part, browserVars, signingVars, databaseVars, telemetryVars, schedulerVars>>

InPart(parts, A, others) == part \in parts /\ A /\ UNCHANGED <<part, others>>

NodeNext ==
    \/ InPart({"browser"}, BrowserNext, <<signingVars, databaseVars, telemetryVars, schedulerVars>>)
    \/ InPart({"keys"}, SigningNext, <<browserVars, databaseVars, telemetryVars, schedulerVars>>)
    \/ InPart({"queries", "databases"}, DatabaseFilesNext,
              <<browserVars, signingVars, telemetryVars, schedulerVars>>)
    \/ InPart({"telemetry"}, TelemetryNext, <<browserVars, signingVars, databaseVars, schedulerVars>>)
    \/ InPart({"cron"}, SchedulerNext, <<browserVars, signingVars, databaseVars, telemetryVars>>)

NodeSpec == NodeInit /\ [][NodeNext]_nodeVars
=============================================================================
