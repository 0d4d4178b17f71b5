------------------------ MODULE NodeServices_proofs ------------------------
(***************************************************************************)
(* Proofs about the services of a process that call no other: Scheduler,   *)
(* for any expressions, calendar, runners and updates (an expression is    *)
(* read as it is meant, and a job runs once in each minute it asks for);   *)
(* DatabaseFiles, for any number of requests, threads and faults (what a   *)
(* client was told is in a database stays there, a migration is in it      *)
(* once, and no two daemons replicate it); DurationTelemetry, for any      *)
(* batches, window and durations (each event of the window is counted once,*)
(* with its time, and the file is the newest snapshot); and the two sides  *)
(* of signing in from a browser, SigningKeys, the provider's keys that its *)
(* tokens are verified with, and BrowserSessions, the sessions kept.       *)
(***************************************************************************)
EXTENDS Scheduler, DatabaseFiles, DurationTelemetry, BrowserSessions, SigningKeys,
        FiniteSetTheorems, SequenceTheorems, TLAPS

-----------------------------------------------------------------------------
(* The cron scheduler.                                                     *)

SchedulerSpec == SchedulerInit /\ [][SchedulerNext]_schedulerVars

-----------------------------------------------------------------------------
(* Expressions.                                                            *)

\* Where the steps of an item begin, and what an item asks for, of a field whose
\* values are a and later.
Begins(i, a) == IF i.all THEN a ELSE i.from
Allows(i, a, v) == (i.all \/ v \in i.from..i.to) /\ (v - Begins(i, a)) % i.step = 0

\* The least of a range is its beginning.
LEMMA RangeBegins ==
    \A a, b \in Int : a <= b => (CHOOSE v \in a..b : \A w \in a..b : v <= w) = a
OBVIOUS

\* The two parts of a field.
LEMMA FieldParts ==
    ASSUME NEW text, NEW vs, NEW field, field = [values |-> vs, wildcard |-> text.plain]
    PROVE  field.values = vs /\ field.wildcard = text.plain
BY Zenon

\* An item that is accepted covers the values it allows.
LEMMA ItemRead ==
    ASSUME NEW i \in CronItem, NEW a \in Int, NEW b \in Int, a <= b,
           NEW span, span = ParseCronRange(i, a..b), span # {}
    PROVE  {v \in span : (v - (CHOOSE u \in span : \A w \in span : u <= w)) % i.step = 0}
               = {v \in a..b : Allows(i, a, v)}
<1>1. CASE i.all
    <2>1. span = a..b BY <1>1 DEF ParseCronRange
    <2>2. (CHOOSE u \in span : \A w \in span : u <= w) = a BY <2>1, RangeBegins
    <2> QED BY <1>1, <2>1, <2>2 DEF Allows, Begins
<1>2. CASE ~i.all
    <2>1. /\ span = i.from..i.to /\ i.from \in Int /\ i.to \in Int /\ i.from <= i.to
          /\ i.from \in a..b /\ i.to \in a..b
        BY <1>2 DEF ParseCronRange, CronItem
    <2>2. (CHOOSE u \in span : \A w \in span : u <= w) = i.from BY <2>1, RangeBegins
    <2>3. span \subseteq a..b BY <2>1
    <2> QED BY <1>2, <2>1, <2>2, <2>3 DEF Allows, Begins
<1> QED BY <1>1, <1>2

\* A field that is accepted has the values its items allow.
Read(text, a, b) ==
    [values |-> UNION {{v \in a..b : Allows(i, a, v)} : i \in text.items}, wildcard |-> text.plain]

\* Reading a field whose syntax is right gives what its items ask for.
LEMMA FieldRead ==
    ASSUME NEW text \in CronText, NEW a \in Int, NEW b \in Int, a <= b,
           ParseCronField(text, a..b) # NoField
    PROVE  ParseCronField(text, a..b) = Read(text, a, b)
<1>0. PICK items \in SUBSET CronItem : items = text.items BY DEF CronText
<1> DEFINE span(i)   == ParseCronRange(i, a..b)
           first(i)  == CHOOSE v \in span(i) : \A w \in span(i) : v <= w
           values(i) == {v \in span(i) : (v - first(i)) % i.step = 0}
<1>1. ~\E i \in items : i.step <= 0 \/ span(i) = {}
    BY <1>0 DEF ParseCronField
<1>2. ParseCronField(text, a..b) =
          [values |-> UNION {values(i) : i \in items}, wildcard |-> text.plain]
    BY <1>0, <1>1 DEF ParseCronField
<1>3. \A i \in items : values(i) = {v \in a..b : Allows(i, a, v)}
    <2> SUFFICES ASSUME NEW i \in items
                 PROVE  values(i) = {v \in a..b : Allows(i, a, v)}
        OBVIOUS
    <2>1. i \in CronItem /\ span(i) # {} BY <1>1
    <2>2. PICK sp : sp = ParseCronRange(i, a..b) OBVIOUS
    <2> QED BY <2>1, <2>2, ItemRead
<1>4. UNION {values(i) : i \in items} = UNION {{v \in a..b : Allows(i, a, v)} : i \in items}
    BY <1>3
<1> QED BY <1>0, <1>2, <1>4 DEF Read

\* What such a field holds.
LEMMA ReadFacts ==
    ASSUME NEW text, NEW a, NEW b, NEW field, field = Read(text, a, b)
    PROVE  /\ \A v : v \in field.values <=> v \in a..b /\ \E i \in text.items : Allows(i, a, v)
           /\ field.wildcard = text.plain
BY FieldParts DEF Read

\* A plain star allows every value of its field.
LEMMA StarAllows == \A a, v \in Int : Allows(Star, a, v)
BY DEF Allows, Begins, Star

\* What is accepted as a cron expression matches the times it asks for.
LEMMA ReadsAsMeant ==
    ASSUME NEW e \in [1..5 -> CronText], NEW t \in CalendarTime, ValidCron(e)
    PROVE  Matches(ParseCron(e), t) <=> Asked(e, t)
<1> DEFINE p == ParseCron(e)
<1>1. /\ FieldRange[1] = 0..59 /\ FieldRange[2] = 0..23 /\ FieldRange[3] = 1..31
      /\ FieldRange[4] = 1..12 /\ FieldRange[5] = 0..7 /\ DOMAIN FieldRange = 1..5
    BY DEF FieldRange
<1>2. PICK field \in [1..5 -> {ParseCronField(e[f], FieldRange[f]) : f \in 1..5}] :
          \A f \in 1..5 : field[f] = ParseCronField(e[f], FieldRange[f])
    <2>1. [f \in 1..5 |-> ParseCronField(e[f], FieldRange[f])] \in
              [1..5 -> {ParseCronField(e[f], FieldRange[f]) : f \in 1..5}]
        OBVIOUS
    <2> QED BY <2>1
<1>3. \A f \in 1..5 : p[f] = IF f = 5 /\ 7 \in field[f].values
                            THEN [field[f] EXCEPT !.values = (@ \ {7}) \cup {0}] ELSE field[f]
    BY <1>1, <1>2 DEF ParseCron
<1>4. \A f \in 1..5 : p[f] # NoField
    BY <1>1 DEF ValidCron, ParseCron, Range
<1>5. /\ \A f \in 1..5 : field[f] # NoField
      /\ p[1] = field[1] /\ p[2] = field[2] /\ p[3] = field[3] /\ p[4] = field[4]
    <2>1. \A f \in 1..5 : field[f] = NoField => p[f] = NoField BY <1>3 DEF NoField
    <2> QED BY <1>3, <1>4, <2>1
<1>6. /\ t.minute \in 0..59 /\ t.hour \in 0..23 /\ t.day \in 1..31 /\ t.month \in 1..12
      /\ t.weekday \in 0..6
    BY DEF CalendarTime
<1>7. /\ e[3].plain \in BOOLEAN /\ e[3].plain => e[3].items = {Star}
      /\ e[5].plain \in BOOLEAN /\ e[5].plain => e[5].items = {Star}
    BY DEF CronText
<1>8. ASSUME NEW f \in 1..5, NEW a \in Int, NEW b \in Int, a <= b, FieldRange[f] = a..b
      PROVE  field[f] = Read(e[f], a, b) BY <1>2, <1>5, <1>8, FieldRead
<1>9. t.minute \in p[1].values <=> \E i \in e[1].items : Allows(i, 0, t.minute)
    <2>1. field[1] = Read(e[1], 0, 59)
        <3>1. PICK f \in 1..5, a \in Int, b \in Int : f = 1 /\ a = 0 /\ b = 59 OBVIOUS
        <3>2. a <= b /\ FieldRange[f] = a..b BY <1>1, <3>1
        <3>3. field[f] = Read(e[f], a, b) BY <1>8, <3>2
        <3> QED BY <3>1, <3>3
    <2> QED BY <1>5, <1>6, <2>1, ReadFacts
<1>10. t.hour \in p[2].values <=> \E i \in e[2].items : Allows(i, 0, t.hour)
    <2>1. field[2] = Read(e[2], 0, 23)
        <3>1. PICK f \in 1..5, a \in Int, b \in Int : f = 2 /\ a = 0 /\ b = 23 OBVIOUS
        <3>2. a <= b /\ FieldRange[f] = a..b BY <1>1, <3>1
        <3>3. field[f] = Read(e[f], a, b) BY <1>8, <3>2
        <3> QED BY <3>1, <3>3
    <2> QED BY <1>5, <1>6, <2>1, ReadFacts
<1>11. t.month \in p[4].values <=> \E i \in e[4].items : Allows(i, 1, t.month)
    <2>1. field[4] = Read(e[4], 1, 12)
        <3>1. PICK f \in 1..5, a \in Int, b \in Int : f = 4 /\ a = 1 /\ b = 12 OBVIOUS
        <3>2. a <= b /\ FieldRange[f] = a..b BY <1>1, <3>1
        <3>3. field[f] = Read(e[f], a, b) BY <1>8, <3>2
        <3> QED BY <3>1, <3>3
    <2> QED BY <1>5, <1>6, <2>1, ReadFacts
<1>12. /\ t.day \in p[3].values <=> \E i \in e[3].items : Allows(i, 1, t.day)
       /\ p[3].wildcard = e[3].plain
    <2>1. field[3] = Read(e[3], 1, 31)
        <3>1. PICK f \in 1..5, a \in Int, b \in Int : f = 3 /\ a = 1 /\ b = 31 OBVIOUS
        <3>2. a <= b /\ FieldRange[f] = a..b BY <1>1, <3>1
        <3>3. field[f] = Read(e[f], a, b) BY <1>8, <3>2
        <3> QED BY <3>1, <3>3
    <2> QED BY <1>5, <1>6, <2>1, ReadFacts
<1>13. /\ t.weekday \in p[5].values <=>
              \/ \E i \in e[5].items : Allows(i, 0, t.weekday)
              \/ t.weekday = 0 /\ \E i \in e[5].items : Allows(i, 0, 7)
       /\ p[5].wildcard = e[5].plain
    <2>1. field[5] = Read(e[5], 0, 7)
        <3>1. PICK f \in 1..5, a \in Int, b \in Int : f = 5 /\ a = 0 /\ b = 7 OBVIOUS
        <3>2. a <= b /\ FieldRange[f] = a..b BY <1>1, <3>1
        <3>3. field[f] = Read(e[f], a, b) BY <1>8, <3>2
        <3> QED BY <3>1, <3>3
    <2>2. p[5] = IF 7 \in field[5].values
                 THEN [field[5] EXCEPT !.values = (@ \ {7}) \cup {0}] ELSE field[5]
        BY <1>3
    <2>3. /\ p[5].wildcard = field[5].wildcard
          /\ p[5].values = IF 7 \in field[5].values
                           THEN (field[5].values \ {7}) \cup {0} ELSE field[5].values
        BY <2>1, <2>2 DEF Read
    <2>4. \A v : v \in field[5].values <=> v \in 0..7 /\ \E i \in e[5].items : Allows(i, 0, v)
        BY <2>1, ReadFacts
    <2>5. t.weekday \in p[5].values <=>
              \/ t.weekday \in field[5].values
              \/ t.weekday = 0 /\ 7 \in field[5].values
        BY <1>6, <2>3
    <2>6. field[5].wildcard = e[5].plain
        BY <2>1, ReadFacts
    <2> QED BY <1>6, <2>3, <2>4, <2>5, <2>6
<1> DEFINE within(v, f) == \E i \in e[f].items : Allows(i, IF f \in {3, 4} THEN 1 ELSE 0, v)
           weekday == within(t.weekday, 5) \/ (t.weekday = 0 /\ within(7, 5))
<1>14. Asked(e, t) <=>
           /\ within(t.minute, 1) /\ within(t.hour, 2) /\ within(t.month, 4)
           /\ IF e[3].plain THEN weekday
              ELSE IF e[5].plain THEN within(t.day, 3) ELSE within(t.day, 3) \/ weekday
    BY DEF Asked, Allows, Begins
<1>15. Matches(p, t) <=>
           /\ within(t.minute, 1) /\ within(t.hour, 2) /\ within(t.month, 4)
           /\ IF ~e[3].plain /\ ~e[5].plain THEN within(t.day, 3) \/ weekday
              ELSE within(t.day, 3) /\ weekday
    BY <1>9, <1>10, <1>11, <1>12, <1>13 DEF Matches
<1>16. /\ e[3].plain => within(t.day, 3)
       /\ e[5].plain => weekday
    <2>1. \A f \in 1..5, v \in Int : e[f].items = {Star} => within(v, f) BY StarAllows
    <2>2. t.day \in Int /\ t.weekday \in Int BY <1>6
    <2> HIDE DEF within
    <2>3. e[3].plain => within(t.day, 3) BY <1>7, <2>1, <2>2
    <2>4. e[5].plain => within(t.weekday, 5) BY <1>7, <2>1, <2>2
    <2> QED BY <2>3, <2>4
<1> HIDE DEF within, weekday
<1> QED BY <1>14, <1>15, <1>16

-----------------------------------------------------------------------------
(* Runners.                                                                *)

CronRunner == [st : {"none", "waiting", "stopping", "returned", "stopped"}, jobs : Active,
               aim : Nat, fired : SUBSET Nat]
Considered == Runners \X NormalizeTriggers \X Nat

\* Every variable the argument uses has its type; the history counts invocations of a
\* runner's job for a minute.
SchedulerTyped ==
    /\ wallMinute \in Nat /\ cron \in [Runners -> CronRunner]
    /\ considered \subseteq Considered
    /\ triggered \in [Runners \X (DOMAIN Expressions) \X (DOMAIN Calendar) -> Nat]

\* A runner that was not started has done nothing; one whose timer fired has none set,
\* and a minute it has done is before the minute it aims at or its timer saw.
MinutesPast ==
    \A r \in Runners :
        /\ cron[r].fired # {} => cron[r].aim = 0
        /\ cron[r].st = "none" => cron[r] = NoRunner
        /\ \A c \in considered : c[1] = r =>
              /\ cron[r].st # "none"
              /\ c[3] <= wallMinute
              /\ cron[r].aim # 0 => c[3] < cron[r].aim
              /\ \A m \in cron[r].fired : c[3] < m
        /\ \A m \in cron[r].fired : m <= wallMinute

SchedulerInv == SchedulerTyped /\ MinutesPast /\ TriggersOnce
-----------------------------------------------------------------------------

\* The minutes a job is due are those its expression asks for.
LEMMA DueAsAsked == \A e \in NormalizeTriggers : DueMinutes[e] = AskedMinutes[e]
BY SchedulerAssumption, ReadsAsMeant DEF DueMinutes, AskedMinutes, NormalizeTriggers

\* A runner starts, is updated, sets or loses its timer, or stops: it has no more to do
\* for the minutes it has done.
LEMMA RunnerStep ==
    ASSUME SchedulerInv, NEW r \in Runners, NEW n \in CronRunner,
           cron' = [cron EXCEPT ![r] = n],
           UNCHANGED <<wallMinute, invocations, triggered, considered>>,
           n.st # "none",
           n.st = "stopped" => \A i \in invocations : i[1] # r,
           n.fired # {} => n.aim = 0,
           \A c \in considered : c[1] = r /\ n.aim # 0 => c[3] < n.aim,
           \A m \in n.fired : m <= wallMinute /\ \A c \in considered : c[1] = r => c[3] < m
    PROVE  SchedulerInv'
BY DEF SchedulerInv, SchedulerTyped, MinutesPast, TriggersOnce

\* The runners whose record changes without work being done.
LEMMA RunnersKeep ==
    ASSUME SchedulerInv, NEW r \in Runners, NEW active \in Active,
           \/ StartCronRunner(r, active) \/ UpdateRunner(r, active)
           \/ TimerFires(r) \/ StopRunner(r) \/ RunReturns(r) \/ StopReturns(r)
    PROVE  SchedulerInv'
<1>1. cron[r] \in CronRunner /\ wallMinute \in Nat BY DEF SchedulerInv, SchedulerTyped
<1>2. NoRunner \in CronRunner
    BY DEF NoRunner, CronRunner, Active
<1>3. CASE StartCronRunner(r, active)
    <2>1. PICK n : n = [NoRunner EXCEPT !.st = "waiting", !.jobs = active, !.aim = NextMinute(wallMinute)]
        OBVIOUS
    <2>2. n \in CronRunner /\ n.st = "waiting" /\ n.fired = {}
        <3>1. NextMinute(wallMinute) \in Nat BY <1>1 DEF NextMinute
        <3>2. \A a \in Nat : LET o == [NoRunner EXCEPT !.st = "waiting", !.jobs = active, !.aim = a]
                            IN  o \in CronRunner /\ o.st = "waiting" /\ o.fired = {}
            BY DEF NoRunner, CronRunner
        <3> QED BY <2>1, <3>1, <3>2
    <2>3. \A c \in considered : c[1] # r
        BY <1>3 DEF StartCronRunner, SchedulerInv, MinutesPast
    <2> QED BY <1>3, <2>1, <2>2, <2>3, RunnerStep DEF StartCronRunner
<1>4. CASE UpdateRunner(r, active)
    <2>1. PICK n : n = [cron[r] EXCEPT !.jobs = active] OBVIOUS
    <2>2. /\ n \in CronRunner /\ n.st = cron[r].st /\ n.aim = cron[r].aim /\ n.fired = cron[r].fired
        BY <1>1, <2>1 DEF CronRunner
    <2>3. cron' = [cron EXCEPT ![r] = n] /\ cron[r].st \in {"waiting", "stopping"}
        BY <1>4, <2>1 DEF UpdateRunner
    <2>4. UNCHANGED <<wallMinute, invocations, triggered, considered>> BY <1>4 DEF UpdateRunner
    <2>5. /\ n.fired # {} => n.aim = 0
          /\ \A c \in considered : c[1] = r /\ n.aim # 0 => c[3] < n.aim
          /\ \A m \in n.fired : m <= wallMinute /\ \A c \in considered : c[1] = r => c[3] < m
        BY <2>2 DEF SchedulerInv, MinutesPast
    <2>6. n.st # "none" /\ n.st # "stopped" BY <2>2, <2>3
    <2> QED BY <2>2, <2>3, <2>4, <2>5, <2>6, RunnerStep
<1>5. CASE TimerFires(r)
    BY <1>1, <1>5, RunnerStep DEF CronRunner, TimerFires, SchedulerInv, MinutesPast,
       SchedulerTyped, Considered
<1>6. CASE StopRunner(r) \/ RunReturns(r)
    BY <1>6, <1>1, RunnerStep DEF StopRunner, RunReturns, CronRunner, SchedulerInv, MinutesPast
<1>7. CASE StopReturns(r)
    <2>1. PICK n : n = [NoRunner EXCEPT !.st = "stopped"] OBVIOUS
    <2>2. n \in CronRunner /\ n.st = "stopped" /\ n.aim = 0 /\ n.fired = {}
        BY <1>2, <2>1 DEF NoRunner, CronRunner
    <2> QED BY <1>7, <2>1, <2>2, RunnerStep DEF StopReturns, WorkDone
<1> QED BY <1>3, <1>4, <1>5, <1>6, <1>7

\* A runner does the minute its timer saw, which it has not done before.
LEMMA RunDueKeeps ==
    ASSUME SchedulerInv, NEW r \in Runners, RunDue(r)
    PROVE  SchedulerInv'
<1>1. PICK m \in cron[r].fired :
          LET due == {<<r, e, m>> : e \in {j \in cron[r].jobs : m \in DueMinutes[j]}}
          IN  /\ invocations' = invocations \cup due
              /\ triggered' = [i \in DOMAIN triggered |->
                                  IF i \in due THEN triggered[i] + 1 ELSE triggered[i]]
              /\ considered' = considered \cup {<<r, e, m>> : e \in cron[r].jobs}
    BY DEF RunDue
<1> DEFINE due == {<<r, e, m>> : e \in {j \in cron[r].jobs : m \in DueMinutes[j]}}
<1>2. /\ cron[r] \in CronRunner /\ wallMinute \in Nat /\ m \in Nat
      /\ cron[r].jobs \in SUBSET NormalizeTriggers
    BY DEF SchedulerInv, SchedulerTyped, CronRunner, Active
<1>3. PICK n : n = [cron[r] EXCEPT !.fired = {}, !.aim = NextMinute(wallMinute)] OBVIOUS
<1>4. /\ n \in CronRunner /\ n.st = cron[r].st /\ n.fired = {} /\ n.aim = wallMinute + 1
    <2>1. NextMinute(wallMinute) = wallMinute + 1 /\ wallMinute + 1 \in Nat BY <1>2 DEF NextMinute
    <2>2. \A a \in Nat : LET o == [cron[r] EXCEPT !.fired = {}, !.aim = a]
                        IN  o \in CronRunner /\ o.st = cron[r].st /\ o.fired = {} /\ o.aim = a
        BY <1>2 DEF CronRunner
    <2> QED BY <1>3, <2>1, <2>2
<1>5. /\ cron' = [cron EXCEPT ![r] = n] /\ cron[r].st \in {"waiting", "stopping"}
      /\ wallMinute' = wallMinute
    BY <1>3 DEF RunDue
<1>6. cron'[r] = n /\ \A q \in Runners : q # r => cron'[q] = cron[q]
    BY <1>5 DEF SchedulerInv, SchedulerTyped
<1>7. m <= wallMinute /\ \A c \in considered : c[1] = r => c[3] < m
    BY DEF SchedulerInv, MinutesPast
<1>8. SchedulerTyped' BY <1>2, <1>1, <1>4, <1>5 DEF Considered, SchedulerInv, SchedulerTyped
<1>9. MinutesPast'
    BY <1>1, <1>6, <1>5, <1>2, <1>7, <1>4 DEF MinutesPast, SchedulerInv, SchedulerTyped,
       Considered
<1>10. ASSUME NEW i \in DOMAIN triggered'
       PROVE  triggered'[i] = IF i \in considered' /\ i[3] \in AskedMinutes[i[2]] THEN 1 ELSE 0
    BY <1>1, <1>10, <1>2, <1>7, DueAsAsked DEF SchedulerInv, TriggersOnce, SchedulerTyped
<1>11. \A i \in invocations' : cron'[i[1]].st # "stopped"
    BY <1>1, <1>4, <1>5, <1>6 DEF SchedulerInv, TriggersOnce, SchedulerTyped
<1> QED BY <1>8, <1>9, <1>10, <1>11 DEF SchedulerInv, TriggersOnce

-----------------------------------------------------------------------------
(* The theorems.                                                           *)

\* The invariant holds in every reachable state: a runner's timer only ever sees minutes
\* later than those it has done.
THEOREM SchedulerInductive == SchedulerSpec => []SchedulerInv
<1>1. SchedulerInit => SchedulerInv
    BY DEF NoRunner, CronRunner, Active, SchedulerInit, SchedulerInv, SchedulerTyped,
       MinutesPast, TriggersOnce
<1>2. SchedulerInv /\ [SchedulerNext]_schedulerVars => SchedulerInv'
    <2> SUFFICES ASSUME SchedulerInv, [SchedulerNext]_schedulerVars PROVE SchedulerInv' OBVIOUS
    <2>1. CASE MinutePasses
        BY <2>1 DEF MinutePasses, SchedulerInv, SchedulerTyped, TriggersOnce, Considered,
           CronRunner, MinutesPast
    <2>2. CASE \E i \in invocations : Invoke(i)
        BY <2>2 DEF Invoke, SchedulerInv, SchedulerTyped, MinutesPast, TriggersOnce
    <2>3. CASE \E r \in Runners : RunDue(r) BY <2>3, RunDueKeeps
    <2>4. ASSUME NEW r \in Runners,
                 \/ TimerFires(r) \/ StopRunner(r) \/ RunReturns(r) \/ StopReturns(r)
                 \/ \E active \in Active : StartCronRunner(r, active) \/ UpdateRunner(r, active)
          PROVE  SchedulerInv' BY <2>4, RunnersKeep DEF Active
    <2>5. CASE UNCHANGED schedulerVars
        BY <2>5 DEF schedulerVars, SchedulerInv, SchedulerTyped, MinutesPast, TriggersOnce
    <2> QED BY <2>1, <2>2, <2>3, <2>4, <2>5 DEF SchedulerNext
<1> QED BY <1>1, <1>2, PTL DEF SchedulerSpec

\* Of the jobs a runner has when it does a minute it invokes once each whose expression
\* asks for that minute, and nothing runs once it was stopped.
THEOREM TriggersProved == SchedulerSpec => []TriggersOnce
<1>1. SchedulerInv => TriggersOnce BY DEF SchedulerInv
<1> QED BY <1>1, SchedulerInductive, PTL

-----------------------------------------------------------------------------
(* The files of databases.                                                 *)

\* A database is created once: ids are never used again.
DatabaseFilesSpec ==
    /\ \E requests \in Nat, creations \in {0, 1} : DatabaseFilesInit(requests, creations)
    /\ [][DatabaseFilesNext]_databaseVars

Statement == {"write", "migration"} \X Nat
Name == [path : Nat, temp : Nat, backup : Nat]
Replica == [points : SUBSET SUBSET Statement, latest : SUBSET Statement]
Handle == [inode : Nat, closed : BOOLEAN]
OpeningOps == {"open", "stat", "configure", "pull", "file"}
UsingOps == {"keep", "register", "execute"}
RestoringOps == {"prepare", "fetch", "close", "away", "in", "clean"}
Query == [op : OpeningOps \cup UsingOps, db : Databases, kind : {"write", "migration"},
          id : Nat, handle : Nat]
Creation == [op : {"stat", "configure", "pull"}, db : {2}, kind : {"create"}]
Restore == [op : RestoringOps, db : Databases]
Deletion == [op : {"forget", "remove"}, db : Databases]
DbRequest == {DbIdle} \cup Query \cup Creation \cup Restore \cup Deletion

\* Every variable the argument uses has its type; handles are of files that exist.
FilesTyped ==
    /\ inodes \in Seq(SUBSET Statement) /\ names \in [Databases -> Name]
    /\ replica \in [Databases -> Replica] /\ opened \in Seq(Handle)
    /\ dbs \in [Databases -> Nat] /\ dbReq \in [DbThreads -> DbRequest]
    /\ dbLeft \in [requests : Nat, faults : Nat, new : Nat]
    /\ catalog \subseteq Databases /\ acknowledged \in [Databases -> SUBSET Statement]
FilesExist == \A h \in 1..Len(opened) : opened[h].inode \in 1..Len(inodes)

\* Content with at most one migration.
OneMigration(content) == \A a, b \in Migrations(content) : a = b

\* A migration is never in a file or a replica twice.
MigratedOnce ==
    /\ \A i \in 1..Len(inodes) : OneMigration(inodes[i])
    /\ \A d \in Databases :
          /\ OneMigration(replica[d].latest)
          /\ \A point \in replica[d].points : OneMigration(point)
          /\ replica[d].points = {} => replica[d].latest = {}

\* There is at most the daemon the supervisor started last and has not heard the end of.
SupervisorState == [databases : SUBSET Databases, config : SUBSET Databases, cmd : Nat, last : Nat,
                    daemons : SUBSET [id : Nat, knows : SUBSET Databases], exits : SUBSET Nat]
DaemonsSound(l) ==
    /\ l \in SupervisorState /\ l.cmd <= l.last
    /\ \A id \in l.exits : id <= l.last
    /\ \A x, y \in l.daemons : x = y
    /\ \A x \in l.daemons : x.id = l.cmd /\ l.cmd # 0 /\ l.cmd \notin l.exits

\* restoreMu: a restore is alone.
Restores(r) == r.op \in RestoringOps
Reads(r) == r.op \in OpeningOps \cup UsingOps /\ r.kind # "create"
RestoresAlone ==
    \A t, u \in DbThreads :
        Restores(dbReq[t]) /\ (Restores(dbReq[u]) \/ Reads(dbReq[u])) => t = u

\* A database that may still be created has no row and nothing in this process.
CreationSound ==
    /\ dbLeft.new \in {0, 1}
    /\ dbLeft.new = 1 => 2 \notin catalog /\ dbs[2] = 0 /\ acknowledged[2] = {}

\* A handle that is open is of the file that has the database's name.
OfFile(h, d) == opened[h].closed \/ opened[h].inode = names[d].path

\* A file of database d, named or held, has no name of another database.
Apart(i, d) ==
    \A e \in Databases \ {d} : names[e].path # i /\ names[e].temp # i /\ names[e].backup # i

\* Where what clients were told has to be.
Holds(d) == IF names[d].path # 0 THEN inodes[names[d].path] ELSE replica[d].latest

\* A database's files are its own, its handle is of its file, and what clients were told
\* is in it.
NameSound(i, d) == i <= Len(inodes) /\ (i # 0 => Apart(i, d))
HandleSound(h, d) ==
    /\ h <= Len(opened) /\ Apart(opened[h].inode, d)
    /\ d \in catalog => OfFile(h, d)
DatabaseSound(d) ==
    /\ NameSound(names[d].path, d) /\ NameSound(names[d].temp, d) /\ NameSound(names[d].backup, d)
    /\ dbs[d] # 0 => HandleSound(dbs[d], d)
    /\ d \in catalog => acknowledged[d] \subseteq Holds(d)

\* What a request may rely on at each of its steps: its handle, the fetched copy, that
\* the handle is closed and nothing promised while the file is exchanged, that a
\* database that is deleted has no row, and that SQLite creates a file only for a
\* database in which there is nothing.
RequestSound(r) ==
    r.op # "idle" =>
        /\ dbLeft.new = 1 => r.db # 2
        /\ r.op \in UsingOps => r.handle # 0 /\ HandleSound(r.handle, r.db)
        /\ r.op \in {"close", "away", "in"} => names[r.db].temp # 0
        /\ r.op \in {"away", "in"} => dbs[r.db] = 0
        /\ r.op = "in" /\ r.db \in catalog => acknowledged[r.db] = {}
        /\ r.op \in {"forget", "remove"} => r.db \notin catalog
        /\ r.op = "file" /\ r.db \in catalog /\ names[r.db].path = 0 => acknowledged[r.db] = {}

FilesInv ==
    /\ FilesTyped /\ FilesExist /\ MigratedOnce /\ DaemonsSound(litestream)
    /\ RestoresAlone /\ CreationSound
    /\ \A d \in Databases : DatabaseSound(d)
    /\ \A t \in DbThreads : RequestSound(dbReq[t])
-----------------------------------------------------------------------------
(* The supervisor.                                                         *)

\* What the supervisor is after a step that succeeds or fails.
LEMMA OutcomeFields ==
    ASSUME NEW l
    PROVE  Succeeds(l).ls = l /\ Fails(l).ls = l
BY DEF Succeeds, Fails

\* Starting the daemon where none is running leaves one.
LEMMA StartSound ==
    ASSUME NEW l, DaemonsSound(l), NEW o \in StartLocked(l)
    PROVE  DaemonsSound(o.ls)
<1> DEFINE started == [l EXCEPT !.cmd = l.last + 1, !.last = @ + 1,
                                !.daemons = @ \cup {[id |-> l.last + 1, knows |-> l.config]}]
<1>1. CASE l.cmd # 0 BY <1>1, OutcomeFields DEF StartLocked
<1>2. CASE l.cmd = 0
    <2>1. o.ls = l \/ o.ls = started BY <1>2, OutcomeFields DEF StartLocked
    <2>2. l.daemons = {} BY <1>2 DEF DaemonsSound
    <2>3. [id |-> l.last + 1, knows |-> l.config] \in [id : Nat, knows : SUBSET Databases]
        BY DEF DaemonsSound, SupervisorState
    <2>4. /\ started \in SupervisorState /\ started.cmd = l.last + 1 /\ started.last = l.last + 1
          /\ started.daemons = {[id |-> l.last + 1, knows |-> l.config]} /\ started.exits = l.exits
        BY <2>2, <2>3 DEF DaemonsSound, SupervisorState
    <2>5. l.last + 1 \notin l.exits /\ l.last \in Nat /\ \A id \in l.exits : id \in Nat /\ id <= l.last
        BY DEF DaemonsSound, SupervisorState
    <2> HIDE DEF started
    <2>6. \A x \in started.daemons : x.id = l.last + 1 BY <2>4
    <2>7. DaemonsSound(started) BY <2>4, <2>5, <2>6 DEF DaemonsSound
    <2> QED BY <2>1, <2>7
<1> QED BY <1>1, <1>2

\* Killing the daemon and registering a database with it.
LEMMA StopSound ==
    ASSUME NEW l, DaemonsSound(l), l.cmd # 0
    PROVE  DaemonsSound(StopLocked(l))
<1>1. /\ StopLocked(l) \in SupervisorState /\ StopLocked(l).cmd = 0 /\ StopLocked(l).last = l.last
      /\ StopLocked(l).daemons = {} /\ StopLocked(l).exits = l.exits \cup {l.cmd}
    BY DEF StopLocked, DaemonsSound, SupervisorState
<1> QED BY <1>1 DEF DaemonsSound, SupervisorState

\* Telling the daemon of a database starts and stops none.
LEMMA RegisterSound ==
    ASSUME NEW l, DaemonsSound(l), NEW d \in Databases
    PROVE  DaemonsSound(RegisterLocked(l, d))
<1> DEFINE known(x) == IF x.id = l.cmd THEN [x EXCEPT !.knows = @ \cup {d}] ELSE x
           told == {known(x) : x \in l.daemons}
<1>1. \A x \in l.daemons : known(x) \in [id : Nat, knows : SUBSET Databases] /\ known(x).id = x.id
    BY DEF DaemonsSound, SupervisorState
<1>2. told \in SUBSET [id : Nat, knows : SUBSET Databases] BY <1>1
<1>3. RegisterLocked(l, d) = [l EXCEPT !.daemons = told] BY DEF RegisterLocked
<1> HIDE DEF told
<1>4. /\ RegisterLocked(l, d) \in SupervisorState /\ RegisterLocked(l, d).cmd = l.cmd
      /\ RegisterLocked(l, d).last = l.last /\ RegisterLocked(l, d).exits = l.exits
      /\ RegisterLocked(l, d).daemons = told
    BY <1>2, <1>3 DEF DaemonsSound, SupervisorState
<1>5. /\ \A x, y \in told : x = y
      /\ \A x \in told : x.id = l.cmd /\ l.cmd # 0 /\ l.cmd \notin l.exits
    BY <1>1 DEF told, DaemonsSound
<1> QED BY <1>4, <1>5 DEF DaemonsSound

\* Whatever EnsureDatabase does, one daemon at most is running.
LEMMA EnsureSound ==
    ASSUME NEW l, DaemonsSound(l), NEW d \in Databases, NEW start \in BOOLEAN,
           NEW o \in EnsureDatabase(l, d, start)
    PROVE  DaemonsSound(o.ls)
<1> DEFINE added == [l EXCEPT !.databases = @ \cup {d}]
           written == WriteGeneratedConfig(added)
<1>1. CASE d \in l.databases
    BY <1>1, StartSound, OutcomeFields DEF EnsureDatabase
<1>2. CASE d \notin l.databases
    <2>1. DaemonsSound(added) /\ DaemonsSound(written) /\ written.cmd = l.cmd
        BY DEF DaemonsSound, SupervisorState, WriteGeneratedConfig
    <2>2. \/ o = Fails(added) \/ o = Succeeds(written) \/ o \in StartLocked(written)
          \/ o = Succeeds(RegisterLocked(written, d))
          \/ l.cmd # 0 /\ \E r \in StartLocked(StopLocked(written)) :
                o = [r EXCEPT !.fault = @ \/ Answers(l)]
        BY <1>2 DEF EnsureDatabase
    <2> HIDE DEF added, written
    <2>3. CASE l.cmd # 0 /\ \E r \in StartLocked(StopLocked(written)) :
                  o = [r EXCEPT !.fault = @ \/ Answers(l)] BY <2>3, <2>1, StopSound, StartSound
    <2> QED BY <2>1, <2>2, <2>3, OutcomeFields, RegisterSound, StartSound
<1> QED BY <1>1, <1>2

\* What the supervisor hears, and what happens to the daemon.
LEMMA ReportSound ==
    ASSUME NEW l, DaemonsSound(l), NEW id \in l.exits
    PROVE  DaemonsSound(Reported(l, id))
<1>1. /\ Reported(l, id) \in SupervisorState /\ Reported(l, id).last = l.last
      /\ Reported(l, id).cmd = IF l.cmd = id THEN 0 ELSE l.cmd
      /\ Reported(l, id).daemons = l.daemons /\ Reported(l, id).exits = l.exits \ {id}
    BY DEF Reported, DaemonsSound, SupervisorState
<1> QED BY <1>1 DEF DaemonsSound, SupervisorState

\* A daemon that ends leaves none running, and its end is to be reported.
LEMMA ExitSound ==
    ASSUME NEW l, DaemonsSound(l), NEW x \in l.daemons
    PROVE  DaemonsSound([l EXCEPT !.daemons = @ \ {x}, !.exits = @ \cup {x.id}])
BY DEF DaemonsSound, SupervisorState

-----------------------------------------------------------------------------
(* Steps on the files of one database.                                     *)

\* What a request is doing tells the shape of its record.
LEMMA RequestShapes ==
    ASSUME NEW r \in DbRequest
    PROVE  /\ r.op # "idle" => r.db \in Databases
           /\ r.op \in UsingOps \cup {"open", "file"} => r \in Query
           /\ r.op \in {"stat", "configure", "pull"} => r \in Query \cup Creation
           /\ r.op \in RestoringOps => r \in Restore
           /\ r.op \in {"forget", "remove"} => r \in Deletion
BY DEF DbRequest, DbIdle, Query, Creation, Restore, Deletion, OpeningOps, UsingOps, RestoringOps,
       Databases

\* A step that is about database d only and leaves it the names n: a name stays, goes,
\* changes places with another or is of a new file; handles are closed or are new.
Only(d, n) ==
    /\ names' = [names EXCEPT ![d] = n]
    /\ {n.path, n.temp, n.backup} \subseteq
           {0, Len(inodes) + 1, names[d].path, names[d].temp, names[d].backup}
    /\ Len(inodes) <= Len(inodes)' /\ Len(opened) <= Len(opened)'
    /\ \A h \in 1..Len(opened) : /\ opened'[h].inode = opened[h].inode
                                 /\ opened[h].closed => opened'[h].closed
    /\ \A e \in Databases \ {d} :
          /\ dbs'[e] = dbs[e] /\ acknowledged'[e] = acknowledged[e] /\ replica'[e] = replica[e]
          /\ names[e].path # 0 => inodes[names[e].path] \subseteq inodes'[names[e].path]
    /\ catalog' = catalog /\ dbLeft'.new = dbLeft.new

\* Handles of database d stay of its file.
KeepsPath(d, n) == d \notin catalog \/ names[d].path = 0 \/ n.path = names[d].path

\* No other database gets a name of a file that is there.
LEMMA ApartStays ==
    ASSUME FilesInv, NEW d \in Databases, NEW n \in Name, Only(d, n),
           NEW e \in Databases, NEW i \in 1..Len(inodes), Apart(i, e)
    PROVE  Apart(i, e)'
BY DEF FilesInv, FilesTyped, Only, Apart

\* The names of d stay apart from those of the others.
LEMMA OwnNames ==
    ASSUME FilesInv, NEW d \in Databases, NEW n \in Name, Only(d, n),
           NEW i \in {n.path, n.temp, n.backup}, i # 0
    PROVE  Apart(i, d)'
<1>1. Len(inodes) \in Nat /\ \A f \in Databases : names[f] \in Name
    BY DEF FilesInv, FilesTyped
<1>2. \A f \in Databases \ {d} : names'[f] = names[f]
    BY DEF FilesInv, FilesTyped, Only
<1>3. i \in {Len(inodes) + 1, names[d].path, names[d].temp, names[d].backup} BY DEF Only
<1>4. Apart(i, d)
    <2>1. CASE i = Len(inodes) + 1
        BY <1>1, <2>1 DEF FilesInv, DatabaseSound, NameSound, Name, Apart
    <2>2. CASE i # Len(inodes) + 1
        BY <1>3, <2>2 DEF FilesInv, DatabaseSound, NameSound
    <2> QED BY <2>1, <2>2
<1> QED BY <1>2, <1>4 DEF Apart

\* A handle stays sound.
LEMMA HandleStays ==
    ASSUME FilesInv, NEW d \in Databases, NEW n \in Name, Only(d, n),
           NEW e \in Databases, NEW h \in Nat \ {0}, HandleSound(h, e), e = d => KeepsPath(d, n)
    PROVE  HandleSound(h, e)'
<1>1. h \in 1..Len(opened) /\ Len(opened) \in Nat /\ Len(opened)' >= Len(opened)
    BY DEF HandleSound, FilesInv, FilesTyped, Only
<1>2. opened[h].inode \in 1..Len(inodes) BY <1>1 DEF FilesInv, FilesExist
<1>3. /\ opened'[h].inode = opened[h].inode /\ (opened[h].closed => opened'[h].closed)
      /\ catalog' = catalog
    BY <1>1 DEF Only
<1>4. Apart(opened[h].inode, e)' BY <1>2, ApartStays, <1>3 DEF HandleSound, Apart
<1>5. e \in catalog => OfFile(h, e)'
    BY <1>2, <1>3 DEF HandleSound, FilesInv, FilesTyped, Only, OfFile, KeepsPath
<1>6. h <= Len(opened)' BY <1>1
<1> QED BY <1>3, <1>4, <1>5, <1>6 DEF HandleSound

\* Other databases, and the requests about them, are not concerned.
LEMMA ElsewhereSound ==
    ASSUME FilesInv, NEW d \in Databases, NEW n \in Name, Only(d, n)
    PROVE  /\ \A e \in Databases \ {d} : DatabaseSound(e)'
           /\ \A r \in DbRequest : RequestSound(r) /\ (r.op = "idle" \/ r.db # d) => RequestSound(r)'
<1>1. /\ Len(inodes) \in Nat /\ Len(inodes)' >= Len(inodes) /\ dbs \in [Databases -> Nat]
      /\ \A e \in Databases : names[e] \in Name
    BY DEF FilesInv, FilesTyped, Only
<1>2. \A e \in Databases \ {d} :
         /\ names'[e] = names[e] /\ dbs'[e] = dbs[e] /\ acknowledged'[e] = acknowledged[e]
         /\ replica'[e] = replica[e]
         /\ names[e].path # 0 => inodes[names[e].path] \subseteq inodes'[names[e].path]
    BY DEF FilesInv, FilesTyped, Only
<1>3. catalog' = catalog /\ dbLeft'.new = dbLeft.new BY DEF Only
<1>4. ASSUME NEW e \in Databases \ {d} PROVE DatabaseSound(e)'
    <2>1. DatabaseSound(e) BY DEF FilesInv
    <2>2. \A i \in {names[e].path, names[e].temp, names[e].backup} : NameSound(i, e)'
        BY <1>1, <2>1, ApartStays DEF DatabaseSound, Name, NameSound
    <2>3. dbs[e] # 0 => HandleSound(dbs[e], e)'
        BY <1>2, <1>1, <2>1, HandleStays DEF DatabaseSound, HandleSound, OfFile
    <2>4. e \in catalog => acknowledged[e] \subseteq Holds(e)'
        BY <1>2, <2>1 DEF DatabaseSound, Holds
    <2> QED BY <1>2, <1>3, <2>2, <2>3, <2>4 DEF DatabaseSound, HandleSound, OfFile, Apart, NameSound
<1>5. ASSUME NEW r \in DbRequest, RequestSound(r), r.op = "idle" \/ r.db # d PROVE RequestSound(r)'
    <2>1. CASE r.op = "idle" BY <2>1 DEF RequestSound
    <2>2. CASE r.op # "idle"
        BY <1>5, <2>2, RequestShapes, HandleStays, <1>2, <1>3 DEF Query, RequestSound
    <2> QED BY <2>1, <2>2
<1> QED BY <1>4, <1>5

\* What a step on d leaves to another request about it.
Leaves(q, d, n) ==
    /\ Restores(q) => /\ n.temp = names[d].temp /\ acknowledged'[d] = acknowledged[d]
                      /\ dbs'[d] \in {0, dbs[d]}
    /\ Reads(q) => /\ KeepsPath(d, n)
                   /\ d \in catalog /\ n.path = 0 =>
                          names[d].path = 0 /\ acknowledged'[d] = acknowledged[d]

\* A step on the files of a database that leaves what its other requests hold keeps them
\* sound.
LEMMA HereSound ==
    ASSUME FilesInv, NEW d \in Databases, NEW n \in Name, Only(d, n),
           NEW q \in DbRequest, RequestSound(q), q.op # "idle", q.db = d, Leaves(q, d, n)
    PROVE  RequestSound(q)'
<1>1. /\ catalog' = catalog /\ dbLeft'.new = dbLeft.new /\ names'[d] = n
    BY DEF FilesInv, FilesTyped, Only
<1>2. q.op \in UsingOps => q.handle # 0 /\ HandleSound(q.handle, d)'
    BY RequestShapes, HandleStays DEF Query, Reads, RequestSound, Leaves
<1>3. q.op \in {"close", "away", "in"} => Restores(q) BY DEF Restores, RestoringOps
<1>4. q.op = "file" => Reads(q)
    BY RequestShapes DEF Reads, Query, OpeningOps
<1> QED BY <1>1, <1>2, <1>3, <1>4 DEF RequestSound, Leaves

\* A request takes a step on the files of its database.
LEMMA FileStep ==
    ASSUME FilesInv, NEW t \in DbThreads, NEW d \in Databases, dbReq[t].op # "idle", dbReq[t].db = d,
           NEW r \in DbRequest, dbReq' = [dbReq EXCEPT ![t] = r],
           Restores(r) => Restores(dbReq[t]), Reads(r) => Reads(dbReq[t]),
           NEW n \in Name, Only(d, n),
           \A u \in DbThreads \ {t} : dbReq[u].op # "idle" /\ dbReq[u].db = d => Leaves(dbReq[u], d, n),
           FilesTyped', FilesExist', MigratedOnce', DaemonsSound(litestream)',
           DatabaseSound(d)', RequestSound(r)'
    PROVE  FilesInv'
<1>1. dbReq'[t] = r /\ \A u \in DbThreads \ {t} : dbReq'[u] = dbReq[u]
    BY DEF FilesInv, FilesTyped
<1>2. RestoresAlone' BY <1>1 DEF FilesInv, RestoresAlone, Restores, Reads
<1>3. CreationSound' BY DEF FilesInv, RequestSound, Only, Databases, CreationSound
<1>4. \A e \in Databases : DatabaseSound(e)' BY ElsewhereSound
<1>5. ASSUME NEW u \in DbThreads PROVE RequestSound(dbReq[u])'
    <2>1. CASE u = t
        BY <1>1, <2>1 DEF RequestSound, HandleSound, OfFile, Apart
    <2>2. CASE u # t
        <3>1. PICK q \in DbRequest : q = dbReq[u] BY DEF FilesInv, FilesTyped
        <3>2. RequestSound(q) BY <3>1 DEF FilesInv
        <3>3. RequestSound(q)'
            BY <3>2, ElsewhereSound, <2>2, <3>1, HereSound DEF Leaves, Restores, Reads
        <3>4. q = dbReq'[u] BY <1>1, <2>2, <3>1
        <3> QED BY <3>3, <3>4 DEF RequestSound, HandleSound, OfFile, Apart
    <2> QED BY <2>1, <2>2
<1> QED BY <1>2, <1>3, <1>4, <1>5 DEF FilesInv

\* A request goes on and changes no file, no name and no handle.
LEMMA RequestStep ==
    ASSUME FilesInv, NEW t \in DbThreads, dbReq[t].op # "idle",
           NEW r \in DbRequest, dbReq' = [dbReq EXCEPT ![t] = r], r.op = "idle" \/ r.db = dbReq[t].db,
           Restores(r) => Restores(dbReq[t]), Reads(r) => Reads(dbReq[t]),
           UNCHANGED <<fileVars, catalog, acknowledged>>, DaemonsSound(litestream)',
           dbLeft' \in [requests : Nat, faults : Nat, new : Nat], dbLeft'.new = dbLeft.new,
           RequestSound(r)
    PROVE  FilesInv'
<1>1. PICK d \in Databases : d = dbReq[t].db
    BY RequestShapes DEF FilesInv, FilesTyped
<1>2. PICK n \in Name : n = names[d] BY DEF FilesInv, FilesTyped
<1>3. Only(d, n) BY <1>2 DEF fileVars, FilesInv, FilesTyped, Only
<1>4. FilesTyped' /\ FilesExist' /\ MigratedOnce'
    BY DEF FilesInv, FilesTyped, FilesExist, MigratedOnce, fileVars
<1>5. DatabaseSound(d)'
    BY DEF FilesInv, DatabaseSound, NameSound, HandleSound, OfFile, Apart, Holds, fileVars
<1>6. RequestSound(r)'
    BY DEF RequestSound, HandleSound, OfFile, Apart, fileVars
<1>7. \A u \in DbThreads \ {t} : Leaves(dbReq[u], d, n)
    BY <1>2 DEF Leaves, KeepsPath, fileVars
<1> QED BY <1>1, <1>3, <1>4, <1>5, <1>6, <1>7, FileStep

-----------------------------------------------------------------------------
(* Opening.                                                                *)

\* A request that goes on keeps its kind.
LEMMA AdvanceShapes ==
    ASSUME NEW r \in DbRequest, NEW op, NEW q, q = [r EXCEPT !.op = op]
    PROVE  /\ r \in Query /\ op \in OpeningOps \cup UsingOps =>
                 q \in Query /\ q.kind = r.kind /\ q.handle = r.handle
           /\ r \in Creation /\ op \in {"stat", "configure", "pull"} => q \in Creation /\ q.kind = r.kind
           /\ r \in Restore /\ op \in RestoringOps => q \in Restore
           /\ r \in Deletion /\ op \in {"forget", "remove"} => q \in Deletion
           /\ r \in Query \cup Creation \cup Restore \cup Deletion => q.op = op /\ q.db = r.db
BY DEF Query, Creation, Restore, Deletion

\* Which requests hold restoreMu, and which hold it for reading.
LEMMA KindShapes ==
    ASSUME NEW r \in DbRequest
    PROVE  /\ DbIdle \in DbRequest /\ DbIdle.op = "idle" /\ ~Restores(DbIdle) /\ ~Reads(DbIdle)
           /\ r \in Query => Reads(r) /\ ~Restores(r)
           /\ r \in Creation => ~Reads(r) /\ ~Restores(r) /\ r.kind = "create"
           /\ r \in Restore => ~Reads(r) /\ Restores(r)
           /\ r \in Deletion => ~Reads(r) /\ ~Restores(r)
BY DEF DbRequest, DbIdle, Reads, Restores, Query, Creation, Restore, Deletion, OpeningOps, UsingOps,
       RestoringOps

\* Open: a request finds the handle that is kept, or goes on to open the file.
LEMMA OpenKeeps ==
    ASSUME FilesInv, NEW t \in DbThreads, Open(t)
    PROVE  FilesInv'
<1>1. PICK r \in DbRequest : r = dbReq[t] BY DEF FilesInv, FilesTyped
<1>2. r.op = "open" /\ r \in Query /\ r.db \in Databases /\ Reads(r)
    BY <1>1, RequestShapes, KindShapes DEF Open, AtStep
<1>3. PICK h \in Nat : h = dbs[r.db] BY <1>2 DEF FilesInv, FilesTyped
<1>4. PICK q : q = [r EXCEPT !.op = IF h # 0 THEN "execute" ELSE "stat", !.handle = h] OBVIOUS
<1>5. /\ q \in Query /\ q.op = (IF h # 0 THEN "execute" ELSE "stat") /\ q.db = r.db /\ q.handle = h
    BY <1>2, <1>4 DEF Query, UsingOps, OpeningOps
<1>6. q \in DbRequest /\ ~Restores(q) BY <1>5, KindShapes DEF DbRequest
<1>7. RequestSound(r) /\ DatabaseSound(r.db) BY <1>1, <1>2 DEF FilesInv
<1>8. RequestSound(q)
    BY <1>2, <1>3, <1>5, <1>7 DEF RequestSound, UsingOps, DatabaseSound
<1>9. /\ dbReq' = [dbReq EXCEPT ![t] = q] /\ litestream' = litestream /\ dbLeft' = dbLeft
      /\ UNCHANGED <<fileVars, catalog, acknowledged>>
    BY <1>1, <1>3, <1>4 DEF Open, ToStep
<1>10. DaemonsSound(litestream)' /\ dbLeft' \in [requests : Nat, faults : Nat, new : Nat]
    BY <1>9 DEF FilesInv, FilesTyped, DaemonsSound
<1> QED BY <1>1, <1>2, <1>5, <1>6, <1>8, <1>9, <1>10, RequestStep

\* A request goes on to another step, or is over.
LEMMA GoesOn ==
    ASSUME FilesInv, NEW t \in DbThreads, dbReq[t].op # "idle", NEW op,
           \/ (dbReq[t] \in Query /\ op \in OpeningOps)
           \/ (dbReq[t] \in Restore /\ op \in RestoringOps)
           \/ (dbReq[t] \in Creation /\ op \in {"stat", "configure", "pull"})
    PROVE  LET q == [dbReq[t] EXCEPT !.op = op]
           IN  /\ q \in DbRequest /\ q.op = op /\ q.db = dbReq[t].db /\ q.db \in Databases
               /\ Restores(q) <=> Restores(dbReq[t])
               /\ Reads(q) <=> Reads(dbReq[t])
               /\ op \in {"stat", "configure", "pull", "fetch"} => RequestSound(q)
<1>1. PICK r \in DbRequest : r = dbReq[t] BY DEF FilesInv, FilesTyped
<1>2. PICK q : q = [r EXCEPT !.op = op] OBVIOUS
<1>3. /\ r \in Query => q \in Query
      /\ r \in Restore => q \in Restore
      /\ r \in Creation => q \in Creation
      /\ q.op = op /\ q.db = r.db /\ r.db \in Databases
    BY <1>1, KindShapes, RequestShapes, <1>2, AdvanceShapes
<1>4. q \in DbRequest BY <1>1, <1>3 DEF DbRequest
<1>5. (Restores(q) <=> Restores(r)) /\ (Reads(q) <=> Reads(r))
    BY <1>1, <1>3, <1>4, KindShapes
<1>6. op \in {"stat", "configure", "pull", "fetch"} => RequestSound(q)
    BY <1>1, <1>3 DEF FilesInv, RequestSound, UsingOps
<1> QED BY <1>1, <1>2, <1>3, <1>4, <1>5, <1>6

\* A fault takes one from the bound on faults, and no more.
LEMMA FaultLeaves ==
    ASSUME FilesInv, NEW f \in BOOLEAN, DbFaultIf(f)
    PROVE  dbLeft' \in [requests : Nat, faults : Nat, new : Nat] /\ dbLeft'.new = dbLeft.new
BY DEF FilesInv, FilesTyped, DbFaultIf, DbFault

\* The file is there, or is looked for in the replica.
LEMMA StatKeeps ==
    ASSUME FilesInv, NEW t \in DbThreads, RestoreMissing(t)
    PROVE  FilesInv'
<1>1. PICK r \in DbRequest : r = dbReq[t] BY DEF FilesInv, FilesTyped
<1>2. r.op = "stat" /\ r \in Query \cup Creation /\ r.db \in Databases
    BY <1>1, RequestShapes DEF RestoreMissing, AtStep
<1>3. PICK q :
         /\ dbReq' = [dbReq EXCEPT ![t] = q]
         /\ \/ q = DbIdle \/ q = [r EXCEPT !.op = "configure"]
            \/ q = [r EXCEPT !.op = "file"] /\ r \in Query /\ names[r.db].path # 0
    BY <1>1, <1>2, KindShapes DEF RestoreMissing, Advance, ToStep, AfterFetch
<1>4. /\ q \in DbRequest /\ (q.op = "idle" \/ q.db = r.db)
      /\ Restores(q) => Restores(r)
      /\ Reads(q) => Reads(r)
      /\ RequestSound(q)
    <2>1. CASE q = DbIdle BY <2>1, KindShapes DEF RequestSound
    <2>2. CASE q = [r EXCEPT !.op = "configure"] BY <1>1, <1>2, <2>2, GoesOn DEF OpeningOps
    <2>3. CASE q = [r EXCEPT !.op = "file"] /\ r \in Query /\ names[r.db].path # 0
        BY <1>1, <1>2, <2>3, GoesOn DEF OpeningOps, FilesInv, RequestSound, UsingOps
    <2> QED BY <1>3, <2>1, <2>2, <2>3
<1>5. /\ litestream' = litestream /\ dbLeft' = dbLeft
      /\ UNCHANGED <<fileVars, catalog, acknowledged>>
    BY DEF RestoreMissing
<1>6. DaemonsSound(litestream)' /\ dbLeft' \in [requests : Nat, faults : Nat, new : Nat]
    BY <1>5 DEF FilesInv, FilesTyped, DaemonsSound
<1> QED BY <1>1, <1>2, <1>3, <1>4, <1>5, <1>6, RequestStep

\* The configuration of the daemon is written, before a fetch and before a restore.
LEMMA ConfigureKeeps ==
    ASSUME FilesInv, NEW t \in DbThreads, ConfigureDatabase(t) \/ RestorePrepares(t)
    PROVE  FilesInv'
<1>1. PICK r \in DbRequest : r = dbReq[t] BY DEF FilesInv, FilesTyped
<1>2. /\ r.op \in {"configure", "prepare"} /\ r.db \in Databases
      /\ r.op = "configure" => r \in Query \cup Creation
      /\ r.op = "prepare" => r \in Restore
    BY <1>1, RequestShapes DEF ConfigureDatabase, RestorePrepares, AtStep, RestoringOps
<1>3. PICK start \in BOOLEAN : \E o \in EnsureDatabase(litestream, r.db, start) :
         /\ litestream' = o.ls /\ DbFaultIf(o.fault)
         /\ IF o.ok THEN Advance(t, IF r.op = "configure" THEN "pull" ELSE "fetch") ELSE ToStep(t, DbIdle)
    BY <1>1, <1>2 DEF ConfigureDatabase, RestorePrepares, AtStep
<1>4. PICK o \in EnsureDatabase(litestream, r.db, start) :
         /\ litestream' = o.ls /\ DbFaultIf(o.fault)
         /\ IF o.ok THEN Advance(t, IF r.op = "configure" THEN "pull" ELSE "fetch") ELSE ToStep(t, DbIdle)
    BY <1>3
<1>5. PICK q : /\ q = DbIdle \/ q = [r EXCEPT !.op = IF r.op = "configure" THEN "pull" ELSE "fetch"]
               /\ dbReq' = [dbReq EXCEPT ![t] = q]
    BY <1>1, <1>4 DEF Advance, ToStep
<1>6. /\ q \in DbRequest /\ (q.op = "idle" \/ q.db = r.db)
      /\ Restores(q) => Restores(r)
      /\ Reads(q) => Reads(r)
      /\ RequestSound(q)
    <2>1. CASE q = DbIdle BY <2>1, KindShapes DEF RequestSound
    <2>2. CASE q # DbIdle
        <3>1. PICK op : op = IF r.op = "configure" THEN "pull" ELSE "fetch" OBVIOUS
        <3>2. q = [dbReq[t] EXCEPT !.op = op] BY <1>1, <1>5, <2>2, <3>1
        <3> QED BY <1>1, <1>2, <3>1, <3>2, GoesOn DEF OpeningOps, RestoringOps
    <2> QED BY <2>1, <2>2
<1>7. DaemonsSound(litestream)' BY <1>2, EnsureSound, <1>4 DEF FilesInv, DaemonsSound
<1>8. dbLeft' \in [requests : Nat, faults : Nat, new : Nat] /\ dbLeft'.new = dbLeft.new
    BY <1>4, FaultLeaves DEF DbFaultIf
<1>9. UNCHANGED <<fileVars, catalog, acknowledged>> BY DEF ConfigureDatabase, RestorePrepares
<1> QED BY <1>1, <1>2, <1>5, <1>6, <1>7, <1>8, <1>9, RequestStep

-----------------------------------------------------------------------------
(* Steps that change files.                                                *)

\* A database stays sound if its handle goes with its file, and its file has what
\* clients were told.
LEMMA NamesSound ==
    ASSUME FilesInv, NEW d \in Databases, NEW n \in Name, Only(d, n),
           \A i \in {n.path, n.temp, n.backup} : i <= Len(inodes)',
           dbs'[d] \in {0, dbs[d]}, dbs'[d] # 0 => KeepsPath(d, n),
           d \in catalog => acknowledged'[d] \subseteq Holds(d)'
    PROVE  DatabaseSound(d)'
<1>1. names'[d] = n /\ dbs[d] \in Nat /\ catalog' = catalog
    BY DEF FilesInv, FilesTyped, Only
<1>2. \A i \in {n.path, n.temp, n.backup} : NameSound(i, d)'
    BY OwnNames DEF NameSound
<1>3. dbs'[d] # 0 => HandleSound(dbs[d], d)'
    BY <1>1, HandleStays DEF FilesInv, DatabaseSound, HandleSound, OfFile
<1> QED BY <1>1, <1>2, <1>3 DEF DatabaseSound, NameSound, HandleSound, OfFile

\* The files when there is one more.
LEMMA OneFileMore ==
    ASSUME FilesInv, NEW x \in SUBSET Statement, OneMigration(x), inodes' = Append(inodes, x)
    PROVE  /\ inodes' \in Seq(SUBSET Statement) /\ Len(inodes) \in Nat /\ Len(inodes') = Len(inodes) + 1
           /\ \A i \in 1..Len(inodes) : inodes'[i] = inodes[i]
           /\ inodes'[Len(inodes) + 1] = x
           /\ \A i \in 1..Len(inodes') : OneMigration(inodes'[i])
<1>1. inodes \in Seq(SUBSET Statement) /\ \A i \in 1..Len(inodes) : OneMigration(inodes[i])
    BY DEF FilesInv, FilesTyped, MigratedOnce
<1>2. Len(inodes) \in Nat BY <1>1
<1>3. /\ Append(inodes, x) \in Seq(SUBSET Statement) /\ Len(Append(inodes, x)) = Len(inodes) + 1
      /\ \A i \in 1..Len(inodes) : Append(inodes, x)[i] = inodes[i]
      /\ Append(inodes, x)[Len(inodes) + 1] = x
    BY <1>1, AppendProperties
<1>4. \A i \in 1..Len(inodes) + 1 : OneMigration(Append(inodes, x)[i]) BY <1>3, <1>2, <1>1
<1> QED BY <1>2, <1>3, <1>4

\* Names point to files.
LEMMA NameFacts ==
    ASSUME FilesInv, NEW d \in Databases
    PROVE  /\ names[d] \in Name /\ dbs[d] \in Nat /\ Len(inodes) \in Nat /\ Len(opened) \in Nat
           /\ \A i \in {names[d].path, names[d].temp, names[d].backup} :
                 i \in Nat /\ i <= Len(inodes) /\ (i # 0 => i \in 1..Len(inodes))
BY DEF FilesInv, FilesTyped, DatabaseSound, NameSound, Name

\* What the other databases' files are after a step that adds to the files, or changes
\* one that is of database d.
LEMMA OthersFiles ==
    ASSUME FilesInv, NEW d \in Databases, NEW i \in Nat, i \in 1..Len(inodes) => Apart(i, d),
           \A j \in 1..Len(inodes) : j # i => inodes'[j] = inodes[j]
    PROVE  \A e \in Databases \ {d} :
               names[e].path # 0 => inodes[names[e].path] \subseteq inodes'[names[e].path]
BY NameFacts DEF Apart

\* PullReplica: a request brings the file from its replica, under its name.
LEMMA PullKeeps ==
    ASSUME FilesInv, NEW t \in DbThreads, PullReplica(t)
    PROVE  FilesInv'
<1>1. PICK r \in DbRequest : r = dbReq[t] BY DEF FilesInv, FilesTyped
<1>2. r.op = "pull" /\ r \in Query \cup Creation /\ r.db \in Databases
    BY <1>1, RequestShapes DEF PullReplica, AtStep
<1>3. PICK d \in Databases : d = r.db BY <1>2
<1>4. RequestSound(r) /\ r.op # "idle" BY <1>1, <1>2 DEF FilesInv
<1>5. /\ UNCHANGED <<replica, opened, dbs, litestream, catalog, acknowledged>>
      /\ DaemonsSound(litestream)'
    BY DEF PullReplica, FilesInv, DaemonsSound
<1>6. PICK q : /\ dbReq' = [dbReq EXCEPT ![t] = q]
               /\ q = DbIdle \/ (q = [r EXCEPT !.op = "file"] /\ r \in Query)
    BY <1>2, KindShapes, <1>1 DEF PullReplica, ToStep, AfterFetch, Advance
<1>7. /\ q \in DbRequest /\ (q.op = "idle" \/ (q.db = d /\ q.op = "file"))
      /\ Restores(q) => Restores(r)
      /\ Reads(q) => Reads(r)
    <2>1. CASE q = DbIdle BY <2>1, KindShapes
    <2>2. CASE q = [r EXCEPT !.op = "file"] /\ r \in Query
        BY <1>1, <1>2, <1>3, <2>2, GoesOn DEF OpeningOps
    <2> QED BY <1>6, <2>1, <2>2
<1>8. CASE /\ Fetchable(d) /\ dbLeft' = dbLeft
           /\ inodes' = Append(inodes, replica[d].latest)
           /\ names' = [names EXCEPT ![d].path = Len(inodes) + 1]
    <2>1. PICK n : n = [names[d] EXCEPT !.path = Len(inodes) + 1] OBVIOUS
    <2>2. /\ n \in Name /\ n.path = Len(inodes) + 1 /\ n.temp = names[d].temp
          /\ n.backup = names[d].backup /\ names' = [names EXCEPT ![d] = n] /\ names[d].path = 0
        BY <1>8, <2>1, NameFacts DEF Name, Fetchable
    <2>3. replica[d].latest \in SUBSET Statement /\ OneMigration(replica[d].latest)
        BY DEF FilesInv, FilesTyped, Replica, MigratedOnce
    <2>4. /\ inodes' \in Seq(SUBSET Statement) /\ Len(inodes) \in Nat /\ Len(inodes') = Len(inodes) + 1
          /\ \A i \in 1..Len(inodes) : inodes'[i] = inodes[i]
          /\ inodes'[Len(inodes) + 1] = replica[d].latest
          /\ \A i \in 1..Len(inodes') : OneMigration(inodes'[i])
        BY <1>8, <2>3, OneFileMore
    <2>5. \A e \in Databases \ {d} :
              names[e].path # 0 => inodes[names[e].path] \subseteq inodes'[names[e].path]
        BY <2>4, NameFacts
    <2>6. Only(d, n)
        <3>1. Len(opened) \in Nat /\ Len(opened)' = Len(opened) BY <1>5, NameFacts
        <3>2. dbLeft'.new = dbLeft.new BY <1>8
        <3> QED BY <1>5, <2>2, <2>4, <2>5, <3>1, <3>2 DEF Only
    <2>7. FilesTyped' BY <2>2, <1>6, <1>7, <1>5, <1>8, <2>4 DEF FilesInv, FilesTyped
    <2>8. FilesExist' BY <1>5, <2>4 DEF FilesInv, FilesExist
    <2>9. MigratedOnce' BY <1>5, <2>4 DEF FilesInv, MigratedOnce
    <2>10. names'[d] = n BY <2>2 DEF FilesInv, FilesTyped
    <2>11. d \in catalog => acknowledged'[d] \subseteq Holds(d)'
        BY <2>2, <1>5, <2>4, <2>10 DEF FilesInv, DatabaseSound, Holds
    <2>12. DatabaseSound(d)' BY <2>2, <2>4, NameFacts, <1>5, <2>6, <2>11, NamesSound DEF KeepsPath
    <2>13. RequestSound(q)'
        BY <1>3, <1>4, <1>6, <1>7, <1>8, <2>2, <2>4, <2>10 DEF RequestSound, UsingOps
    <2>14. \A u \in DbThreads \ {t} : Leaves(dbReq[u], d, n)
        BY <1>5, <2>2, <2>4 DEF Leaves, KeepsPath
    <2> QED BY <1>1, <1>3, <1>4, <1>5, <1>6, <1>7, <2>2, <2>6, <2>7, <2>8, <2>9, <2>12, <2>13, <2>14, FileStep
<1>9. CASE UNCHANGED <<inodes, names>> /\ (q = DbIdle \/ (AfterFetch(t) /\ ~Fetchable(d)))
    <2>1. RequestSound(q)
        <3>1. CASE q = DbIdle BY <3>1, KindShapes DEF RequestSound
        <3>2. CASE q # DbIdle
            BY <1>9, <3>2, <1>3, <1>4, <1>6, <1>7 DEF FilesInv, DatabaseSound, Holds,
               MigratedOnce, Fetchable, RequestSound, UsingOps
        <3> QED BY <3>1, <3>2
    <2>2. dbLeft' \in [requests : Nat, faults : Nat, new : Nat] /\ dbLeft'.new = dbLeft.new
        BY FaultLeaves DEF PullReplica, DbFaultIf
    <2>3. UNCHANGED <<fileVars, catalog, acknowledged>> BY <1>5, <1>9 DEF fileVars
    <2> QED BY <1>1, <1>3, <1>4, <1>5, <1>6, <1>7, <2>1, <2>2, <2>3, RequestStep
<1>10. \/ /\ Fetchable(d) /\ dbLeft' = dbLeft
          /\ inodes' = Append(inodes, replica[d].latest)
          /\ names' = [names EXCEPT ![d].path = Len(inodes) + 1]
       \/ UNCHANGED <<inodes, names>> /\ ~Fetchable(d) /\ AfterFetch(t)
       \/ UNCHANGED <<inodes, names>> /\ ToStep(t, DbIdle)
    BY <1>1, <1>3 DEF PullReplica
<1>11. ToStep(t, DbIdle) => q = DbIdle
    BY <1>6 DEF ToStep, FilesInv, FilesTyped
<1> QED BY <1>8, <1>9, <1>10, <1>11

\* The handles when one is closed, and when there is one more.
LEMMA ClosingHandle ==
    ASSUME FilesInv, NEW h \in 1..Len(opened)
    PROVE  /\ Closed(h) \in Seq(Handle) /\ Len(Closed(h)) = Len(opened) /\ Len(opened) \in Nat
           /\ \A k \in 1..Len(opened) : /\ Closed(h)[k].inode = opened[k].inode
                                        /\ opened[k].closed => Closed(h)[k].closed
<1>1. opened \in Seq(Handle) /\ Len(opened) \in Nat BY DEF FilesInv, FilesTyped
<1>2. opened[h] \in Handle BY <1>1
<1>3. PICK x : x = [opened[h] EXCEPT !.closed = TRUE] OBVIOUS
<1>4. /\ x \in Handle /\ x.closed /\ x.inode = opened[h].inode
      /\ Closed(h) = [opened EXCEPT ![h] = x]
    BY <1>2, <1>3 DEF Handle, Closed
<1>5. /\ [opened EXCEPT ![h] = x] \in Seq(Handle) /\ Len([opened EXCEPT ![h] = x]) = Len(opened)
      /\ \A k \in 1..Len(opened) : [opened EXCEPT ![h] = x][k] = IF k = h THEN x ELSE opened[k]
    BY <1>1, <1>4, ExceptSeq
<1> QED BY <1>1, <1>4, <1>5

\* A handle that is opened comes after those there are.
LEMMA OneHandleMore ==
    ASSUME FilesInv, NEW x \in Handle, opened' = Append(opened, x)
    PROVE  /\ opened' \in Seq(Handle) /\ Len(opened) \in Nat /\ Len(opened') = Len(opened) + 1
           /\ opened'[Len(opened) + 1] = x
           /\ \A k \in 1..Len(opened) : opened'[k] = opened[k]
BY AppendProperties DEF FilesInv, FilesTyped

\* OpenFile: a request opens the file its name is of, or makes one.
LEMMA OpenFileKeeps ==
    ASSUME FilesInv, NEW t \in DbThreads, OpenFile(t)
    PROVE  FilesInv'
<1>1. PICK r \in DbRequest : r = dbReq[t] BY DEF FilesInv, FilesTyped
<1>2. r.op = "file" /\ r \in Query /\ r.db \in Databases
    BY <1>1, RequestShapes DEF OpenFile, AtStep
<1>3. PICK d \in Databases : d = r.db BY <1>2
<1>4. RequestSound(r) /\ r.op # "idle" /\ Reads(r) BY <1>1, <1>2, KindShapes DEF FilesInv
<1>5. /\ UNCHANGED <<replica, dbs, litestream, dbLeft, catalog, acknowledged>>
      /\ DaemonsSound(litestream)'
    BY DEF OpenFile, FilesInv, DaemonsSound
<1>6. PICK i : i = IF names[d].path = 0 THEN Len(inodes) + 1 ELSE names[d].path OBVIOUS
<1>7. /\ inodes' = (IF names[d].path = 0 THEN Append(inodes, {}) ELSE inodes)
      /\ names' = [names EXCEPT ![d].path = i]
      /\ opened' = Append(opened, [inode |-> i, closed |-> FALSE])
      /\ dbReq' = [dbReq EXCEPT ![t] = [r EXCEPT !.op = "keep", !.handle = Len(opened) + 1]]
    BY <1>1, <1>3, <1>6 DEF OpenFile, ToStep
<1>8. PICK n : n = [names[d] EXCEPT !.path = i] OBVIOUS
<1>9. /\ n \in Name /\ n.path = i /\ n.temp = names[d].temp /\ n.backup = names[d].backup
      /\ names' = [names EXCEPT ![d] = n] /\ i \in Nat \ {0} /\ names'[d] = n
    <2>1. /\ names \in [Databases -> Name] /\ names[d] \in Name /\ Len(inodes) \in Nat
        BY DEF FilesInv, FilesTyped
    <2>2. i \in Nat \ {0} BY <1>6, <2>1 DEF Name
    <2>3. n \in Name /\ n.path = i /\ n.temp = names[d].temp /\ n.backup = names[d].backup
        BY <1>8, <2>1, <2>2 DEF Name
    <2>4. names' = [names EXCEPT ![d] = n] BY <1>7, <1>8
    <2>5. names'[d] = n BY <2>1, <2>4
    <2> QED BY <2>2, <2>3, <2>4, <2>5
<1>10. /\ inodes' \in Seq(SUBSET Statement) /\ Len(inodes) \in Nat /\ Len(inodes') \in Nat
       /\ Len(inodes') >= Len(inodes) /\ i \in 1..Len(inodes')
       /\ \A j \in 1..Len(inodes) : inodes'[j] = inodes[j]
       /\ \A j \in 1..Len(inodes') : OneMigration(inodes'[j])
    <2>1. CASE names[d].path = 0
        <3>1. {} \in SUBSET Statement /\ OneMigration({}) BY DEF OneMigration, Migrations
        <3>2. inodes' = Append(inodes, {}) BY <1>7, <2>1
        <3>3. /\ inodes' \in Seq(SUBSET Statement) /\ Len(inodes) \in Nat /\ Len(inodes') = Len(inodes) + 1
              /\ \A j \in 1..Len(inodes) : inodes'[j] = inodes[j]
              /\ \A j \in 1..Len(inodes') : OneMigration(inodes'[j])
            BY <3>1, <3>2, OneFileMore
        <3> QED BY <1>6, <2>1, <3>3
    <2>2. CASE names[d].path # 0
        <3>1. i = names[d].path /\ inodes' = inodes BY <1>6, <1>7, <2>2
        <3>2. i \in 1..Len(inodes) /\ Len(inodes) \in Nat BY <2>2, <3>1, NameFacts
        <3> QED BY <3>1, <3>2 DEF FilesInv, FilesTyped, MigratedOnce
    <2> QED BY <2>1, <2>2
<1>11. /\ opened' \in Seq(Handle) /\ Len(opened) \in Nat /\ Len(opened') = Len(opened) + 1
       /\ opened'[Len(opened) + 1] = [inode |-> i, closed |-> FALSE]
       /\ \A k \in 1..Len(opened) : opened'[k] = opened[k] BY <1>9, <1>7, OneHandleMore DEF Handle
<1>12. PICK q : q = [r EXCEPT !.op = "keep", !.handle = Len(opened) + 1] OBVIOUS
<1>13. /\ q \in Query /\ q \in DbRequest /\ ~Restores(q)
       /\ q.op = "keep" /\ q.db = d /\ q.handle = Len(opened) + 1
    <2>1. q \in Query /\ q.op = "keep" /\ q.db = d /\ q.handle = Len(opened) + 1
        <3>1. PICK h \in Nat : h = Len(opened) + 1 BY <1>11
        <3>2. q = [r EXCEPT !.op = "keep", !.handle = h] BY <1>12, <3>1
        <3>3. r \in Query /\ r.db = d BY <1>2, <1>3
        <3> QED BY <3>1, <3>2, <3>3 DEF Query, UsingOps
    <2>2. q \in DbRequest BY <2>1 DEF DbRequest
    <2> QED BY <2>1, <2>2, KindShapes
<1>14. Only(d, n) BY <1>10, NameFacts, <1>6, <1>9, <1>11, <1>5 DEF Only
<1>15. FilesTyped' BY <1>9, <1>7, <1>12, <1>13, <1>5, <1>10, <1>11 DEF FilesInv, FilesTyped
<1>16. FilesExist'
    <2> SUFFICES ASSUME NEW h \in 1..Len(opened') PROVE opened'[h].inode \in 1..Len(inodes')
        BY DEF FilesExist
    <2>1. CASE h = Len(opened) + 1 BY <1>10, <1>11, <2>1
    <2>2. CASE h # Len(opened) + 1 BY <1>11, <2>2, <1>10 DEF FilesInv, FilesExist
    <2> QED BY <2>1, <2>2
<1>17. MigratedOnce' BY <1>5, <1>10 DEF FilesInv, MigratedOnce
<1>18. d \in catalog => acknowledged'[d] \subseteq Holds(d)'
    BY <1>2, <1>3, <1>4, <1>5, <1>6, <1>7, <1>9 DEF RequestSound, FilesInv, DatabaseSound, Holds
<1>19. KeepsPath(d, n) BY <1>6, <1>9 DEF KeepsPath
<1>20. DatabaseSound(d)' BY <1>9, <1>10, NameFacts, <1>5, <1>14, <1>18, <1>19, NamesSound
<1>21. RequestSound(q)'
    BY <1>9, <1>14, OwnNames, <1>11, <1>13, <1>3, <1>4, <1>5 DEF OfFile, Apart, HandleSound,
       RequestSound
<1>22. \A u \in DbThreads \ {t} : Leaves(dbReq[u], d, n)
    BY <1>5, <1>9, <1>19 DEF Leaves
<1> QED BY <1>1, <1>3, <1>4, <1>5, <1>7, <1>9, <1>12, <1>13, <1>14, <1>15, <1>16, <1>17, <1>20, <1>21,
           <1>22, FileStep

\* A request closes handles, or changes the one that is kept for its database.
HandlesOnly(d, k) ==
    /\ UNCHANGED <<inodes, names, replica, catalog, acknowledged>> /\ dbLeft'.new = dbLeft.new
    /\ opened' \in Seq(Handle) /\ Len(opened)' = Len(opened)
    /\ \A h \in 1..Len(opened) : /\ opened'[h].inode = opened[h].inode
                                 /\ opened[h].closed => opened'[h].closed
    /\ dbs' = [dbs EXCEPT ![d] = k]

\* A step on handles alone is a step that leaves the names.
LEMMA HandlesAreOnly ==
    ASSUME FilesInv, NEW d \in Databases, NEW k \in Nat, HandlesOnly(d, k)
    PROVE  names[d] \in Name /\ Only(d, names[d]) /\ KeepsPath(d, names[d])
<1>1. names[d] \in Name /\ names' = [names EXCEPT ![d] = names[d]]
    BY DEF FilesInv, FilesTyped, HandlesOnly
<1>2. Len(inodes) \in Nat /\ Len(opened) \in Nat /\ dbs \in [Databases -> Nat]
    BY DEF FilesInv, FilesTyped
<1>3. \A e \in Databases \ {d} : dbs'[e] = dbs[e] BY <1>2 DEF HandlesOnly
<1>4. PICK n \in Name : n = names[d] BY <1>1
<1>5. UNCHANGED <<inodes, names, replica, catalog, acknowledged>> BY DEF HandlesOnly
<1>6. /\ Len(opened) <= Len(opened)' /\ dbLeft'.new = dbLeft.new
      /\ \A h \in 1..Len(opened) : /\ opened'[h].inode = opened[h].inode
                                   /\ opened[h].closed => opened'[h].closed
    BY <1>2 DEF HandlesOnly
<1>7. Only(d, n) BY <1>1, <1>2, <1>3, <1>4, <1>5, <1>6 DEF Only
<1> QED BY <1>4, <1>7 DEF KeepsPath

\* A request takes a step that changes the handle kept for its database, and no name.
LEMMA HandleStep ==
    ASSUME FilesInv, NEW t \in DbThreads, NEW d \in Databases, dbReq[t].op # "idle", dbReq[t].db = d,
           NEW r \in DbRequest, dbReq' = [dbReq EXCEPT ![t] = r],
           Restores(r) => Restores(dbReq[t]), Reads(r) => Reads(dbReq[t]),
           NEW k \in Nat, HandlesOnly(d, k), k # 0 => HandleSound(k, d),
           k \in {0, dbs[d]} \/ Reads(dbReq[t]),
           dbLeft' \in [requests : Nat, faults : Nat, new : Nat], DaemonsSound(litestream)',
           RequestSound(r)'
    PROVE  FilesInv'
<1>1. PICK n \in Name : n = names[d] BY DEF FilesInv, FilesTyped
<1>2. Only(d, n) /\ KeepsPath(d, n) BY <1>1, HandlesAreOnly
<1>3. UNCHANGED <<inodes, names, replica, catalog, acknowledged>> BY DEF HandlesOnly
<1>4. dbs' \in [Databases -> Nat] /\ dbs'[d] = k BY DEF FilesInv, FilesTyped, HandlesOnly
<1>5. FilesTyped' BY <1>3, <1>4 DEF HandlesOnly, FilesInv, FilesTyped
<1>6. FilesExist' BY <1>3 DEF FilesInv, FilesExist, HandlesOnly
<1>7. MigratedOnce' BY <1>3 DEF FilesInv, MigratedOnce
<1>8. DatabaseSound(d)'
    BY <1>2, HandleStays, <1>4, <1>1, <1>3 DEF HandleSound, OfFile, FilesInv, DatabaseSound,
       NameSound, Apart, Holds
<1>9. \A u \in DbThreads \ {t} : Leaves(dbReq[u], d, n)
    BY <1>1, <1>2, <1>3, <1>4 DEF FilesInv, RestoresAlone, Leaves
<1> QED BY <1>2, <1>5, <1>6, <1>7, <1>8, <1>9, FileStep

\* The handle is kept, or the one that another request kept is taken.
LEMMA KeepHandleKeeps ==
    ASSUME FilesInv, NEW t \in DbThreads, KeepHandle(t)
    PROVE  FilesInv'
<1>1. PICK r \in DbRequest : r = dbReq[t] BY DEF FilesInv, FilesTyped
<1>2. r.op = "keep" /\ r \in Query /\ r.db \in Databases
    BY <1>1, RequestShapes DEF KeepHandle, AtStep, UsingOps
<1>3. PICK d \in Databases : d = r.db BY <1>2
<1>4. RequestSound(r) /\ r.op # "idle" /\ Reads(r) /\ ~Restores(r)
    BY <1>1, <1>2, KindShapes DEF FilesInv
<1>5. /\ UNCHANGED <<inodes, names, replica, litestream, dbLeft, catalog, acknowledged>>
      /\ dbLeft' \in [requests : Nat, faults : Nat, new : Nat] /\ DaemonsSound(litestream)'
    BY DEF KeepHandle, FilesInv, FilesTyped, DaemonsSound
<1>6. PICK h \in Nat \ {0} : h = r.handle /\ HandleSound(h, d) /\ h \in 1..Len(opened)
    BY <1>2, <1>3, <1>4, NameFacts DEF RequestSound, UsingOps, Query, HandleSound
<1>7. dbs \in [Databases -> Nat] /\ opened \in Seq(Handle) BY DEF FilesInv, FilesTyped
<1>8. CASE dbs[d] # 0
    <2>1. PICK k \in Nat \ {0} : k = dbs[d] BY <1>7, <1>8
    <2>2. HandleSound(k, d) BY <2>1 DEF FilesInv, DatabaseSound
    <2>3. opened' = Closed(h) /\ dbs' = dbs BY <1>1, <1>3, <1>6, <1>8 DEF KeepHandle
    <2>4. HandlesOnly(d, k) BY <1>7, <2>1, <2>3, <1>5, <1>6, ClosingHandle DEF HandlesOnly
    <2>5. PICK q : q = [r EXCEPT !.op = "execute", !.handle = k] OBVIOUS
    <2>6. dbReq' = [dbReq EXCEPT ![t] = q]
        BY <1>1, <1>3, <1>8, <2>1, <2>5 DEF KeepHandle, ToStep
    <2>7. q \in Query /\ q.op = "execute" /\ q.db = d /\ q.handle = k
        BY <1>2, <1>3, <2>5 DEF Query, UsingOps
    <2>8. q \in DbRequest /\ ~Restores(q) BY <2>7, KindShapes DEF DbRequest
    <2>9. RequestSound(q)'
        BY <2>2, <2>4, HandlesAreOnly, HandleStays, <1>3, <1>4, <1>5, <2>7 DEF RequestSound
    <2> QED BY <1>1, <1>3, <1>4, <1>5, <2>1, <2>2, <2>4, <2>6, <2>8, <2>9, HandleStep
<1>9. CASE dbs[d] = 0
    <2>1. opened' = opened /\ dbs' = [dbs EXCEPT ![d] = h]
        BY <1>1, <1>3, <1>6, <1>9 DEF KeepHandle
    <2>2. HandlesOnly(d, h) BY <1>5, <1>7, <2>1 DEF HandlesOnly
    <2>3. PICK op : op = "register" OBVIOUS
    <2>4. PICK q : q = [r EXCEPT !.op = op] OBVIOUS
    <2>5. dbReq' = [dbReq EXCEPT ![t] = q]
        BY <1>1, <1>3, <1>9, <2>3, <2>4 DEF KeepHandle, Advance, ToStep
    <2>6. q \in Query /\ q.op = "register" /\ q.db = d /\ q.handle = h
        <3>1. op \in OpeningOps \cup UsingOps BY <2>3 DEF UsingOps
        <3>2. q \in Query /\ q.handle = r.handle /\ q.op = op /\ q.db = r.db
            BY <1>2, <2>4, <3>1, AdvanceShapes
        <3> QED BY <1>3, <1>6, <2>3, <3>2
    <2>7. q \in DbRequest /\ ~Restores(q) BY <2>6, KindShapes DEF DbRequest
    <2>8. RequestSound(q)'
        BY <1>6, <2>2, HandlesAreOnly, HandleStays, <1>3, <1>4, <1>5, <2>6 DEF RequestSound
    <2> QED BY <1>1, <1>3, <1>4, <1>5, <1>6, <2>2, <2>5, <2>7, <2>8, HandleStep
<1> QED BY <1>8, <1>9

\* The daemon hears of the file, or the file is given up.
LEMMA RegisterKeeps ==
    ASSUME FilesInv, NEW t \in DbThreads, RegisterOpened(t)
    PROVE  FilesInv'
<1>1. PICK r \in DbRequest : r = dbReq[t] BY DEF FilesInv, FilesTyped
<1>2. r.op = "register" /\ r \in Query /\ r.db \in Databases
    BY <1>1, RequestShapes DEF RegisterOpened, AtStep, UsingOps
<1>3. PICK d \in Databases : d = r.db BY <1>2
<1>4. RequestSound(r) /\ r.op # "idle" /\ Reads(r) /\ ~Restores(r)
    BY <1>1, <1>2, KindShapes DEF FilesInv
<1>5. PICK o \in EnsureDatabase(litestream, d, TRUE) :
         /\ litestream' = o.ls /\ DbFaultIf(o.fault)
         /\ IF o.ok THEN Advance(t, "execute") /\ UNCHANGED <<opened, dbs>>
            ELSE /\ ToStep(t, DbIdle) /\ opened' = Closed(r.handle)
                 /\ dbs' = [dbs EXCEPT ![d] = IF @ = r.handle THEN 0 ELSE @]
    BY <1>1, <1>3 DEF RegisterOpened
<1>6. DaemonsSound(litestream)' BY <1>3, EnsureSound, <1>5 DEF FilesInv, DaemonsSound
<1>7. dbLeft' \in [requests : Nat, faults : Nat, new : Nat] /\ dbLeft'.new = dbLeft.new
    BY <1>5, FaultLeaves DEF DbFaultIf
<1>8. UNCHANGED <<inodes, names, replica, catalog, acknowledged>> BY DEF RegisterOpened
<1>9. PICK h \in Nat \ {0} : h = r.handle /\ HandleSound(h, d) /\ h \in 1..Len(opened)
    BY <1>2, <1>3, <1>4, NameFacts DEF RequestSound, UsingOps, Query, HandleSound
<1>10. CASE o.ok
    <2>1. PICK op : op = "execute" OBVIOUS
    <2>2. PICK q : q = [r EXCEPT !.op = op] OBVIOUS
    <2>3. dbReq' = [dbReq EXCEPT ![t] = q] /\ UNCHANGED <<opened, dbs>>
        BY <1>1, <1>5, <1>10, <2>1, <2>2 DEF Advance, ToStep
    <2>4. q \in Query /\ q.op = "execute" /\ q.db = d /\ q.handle = h
        <3>1. op \in OpeningOps \cup UsingOps BY <2>1 DEF UsingOps
        <3>2. q \in Query /\ q.handle = r.handle /\ q.op = op /\ q.db = r.db
            BY <1>2, <2>2, <3>1, AdvanceShapes
        <3> QED BY <1>3, <1>9, <2>1, <3>2
    <2>5. q \in DbRequest /\ ~Restores(q) BY <2>4, KindShapes DEF DbRequest
    <2>6. RequestSound(q)
        BY <1>2, <1>3, <1>4, <1>9, <2>4 DEF RequestSound
    <2>7. UNCHANGED <<fileVars, catalog, acknowledged>> BY <1>8, <2>3 DEF fileVars
    <2> QED BY <1>1, <1>3, <1>4, <1>6, <1>7, <2>3, <2>4, <2>5, <2>6, <2>7, RequestStep
<1>11. CASE ~o.ok
    <2>1. /\ dbReq' = [dbReq EXCEPT ![t] = DbIdle] /\ opened' = Closed(h)
          /\ dbs' = [dbs EXCEPT ![d] = IF @ = h THEN 0 ELSE @]
        BY <1>5, <1>9, <1>11 DEF ToStep
    <2>2. dbs \in [Databases -> Nat] BY DEF FilesInv, FilesTyped
    <2>3. PICK k \in Nat : k = IF dbs[d] = h THEN 0 ELSE dbs[d] BY <2>2
    <2>4. dbs' = [dbs EXCEPT ![d] = k] BY <2>1, <2>2, <2>3
    <2>5. HandlesOnly(d, k) BY <1>7, <1>8, <1>9, <2>1, <2>4, ClosingHandle DEF HandlesOnly
    <2>6. k # 0 => HandleSound(k, d) BY <2>3 DEF FilesInv, DatabaseSound
    <2>7. k \in {0, dbs[d]} BY <2>3
    <2>8. RequestSound(DbIdle)' BY KindShapes DEF RequestSound
    <2> QED BY <1>1, <1>3, <1>4, <1>6, <1>7, <2>1, <2>5, <2>6, <2>7, <2>8, KindShapes, HandleStep
<1> QED BY <1>10, <1>11

\* A restore lets go of the handle.
LEMMA CloseHandleKeeps ==
    ASSUME FilesInv, NEW t \in DbThreads, CloseHandle(t)
    PROVE  FilesInv'
<1>1. PICK r \in DbRequest : r = dbReq[t] BY DEF FilesInv, FilesTyped
<1>2. r.op = "close" /\ r \in Restore /\ r.db \in Databases
    BY <1>1, RequestShapes DEF CloseHandle, AtStep, RestoringOps
<1>3. PICK d \in Databases : d = r.db BY <1>2
<1>4. RequestSound(r) /\ r.op # "idle" /\ Restores(r) BY <1>1, <1>2, KindShapes DEF FilesInv
<1>5. /\ UNCHANGED <<inodes, names, replica, litestream, dbLeft, catalog, acknowledged>>
      /\ dbLeft' \in [requests : Nat, faults : Nat, new : Nat] /\ DaemonsSound(litestream)'
    BY DEF CloseHandle, FilesInv, FilesTyped, DaemonsSound
<1>6. dbs \in [Databases -> Nat] /\ opened \in Seq(Handle) BY DEF FilesInv, FilesTyped
<1>7. dbs' = [dbs EXCEPT ![d] = 0] /\ opened' = IF dbs[d] # 0 THEN Closed(dbs[d]) ELSE opened
    BY <1>1, <1>3, <1>6 DEF CloseHandle, WithoutHandle
<1>8. HandlesOnly(d, 0)
    BY <1>3, <1>6, NameFacts, <1>5, <1>7, ClosingHandle DEF FilesInv, DatabaseSound, HandleSound,
       HandlesOnly
<1>9. PICK op : op = "away" OBVIOUS
<1>10. PICK q : q = [r EXCEPT !.op = op] OBVIOUS
<1>11. dbReq' = [dbReq EXCEPT ![t] = q] BY <1>1, <1>9, <1>10 DEF CloseHandle, Advance, ToStep
<1>12. q \in DbRequest /\ q.op = "away" /\ q.db = d /\ ~Reads(q)
    BY <1>9, <1>2, <1>10, AdvanceShapes, <1>3, KindShapes DEF RestoringOps, DbRequest
<1>13. RequestSound(q)' BY <1>2, <1>3, <1>4, <1>5, <1>6, <1>7, <1>12 DEF RequestSound, UsingOps
<1> QED BY <1>1, <1>3, <1>4, <1>5, <1>8, <1>11, <1>12, <1>13, HandleStep

\* A deletion lets go of the handle.
LEMMA ForgetKeeps ==
    ASSUME FilesInv, NEW t \in DbThreads, DeleteForgets(t)
    PROVE  FilesInv'
<1>1. PICK r \in DbRequest : r = dbReq[t] BY DEF FilesInv, FilesTyped
<1>2. r.op = "forget" /\ r \in Deletion /\ r.db \in Databases
    BY <1>1, RequestShapes DEF DeleteForgets, AtStep
<1>3. PICK d \in Databases : d = r.db BY <1>2
<1>4. RequestSound(r) /\ r.op # "idle" BY <1>1, <1>2 DEF FilesInv
<1>5. /\ UNCHANGED <<inodes, names, replica, litestream, dbLeft, catalog, acknowledged>>
      /\ dbLeft' \in [requests : Nat, faults : Nat, new : Nat] /\ DaemonsSound(litestream)'
    BY DEF DeleteForgets, FilesInv, FilesTyped, DaemonsSound
<1>6. dbs \in [Databases -> Nat] /\ opened \in Seq(Handle) BY DEF FilesInv, FilesTyped
<1>7. dbs' = [dbs EXCEPT ![d] = 0] /\ opened' = IF dbs[d] # 0 THEN Closed(dbs[d]) ELSE opened
    BY <1>1, <1>3 DEF DeleteForgets
<1>8. HandlesOnly(d, 0)
    BY <1>3, <1>6, NameFacts, <1>5, <1>7, ClosingHandle DEF FilesInv, DatabaseSound, HandleSound,
       HandlesOnly
<1>9. PICK op : op = "remove" OBVIOUS
<1>10. PICK q : q = [r EXCEPT !.op = op] OBVIOUS
<1>11. dbReq' = [dbReq EXCEPT ![t] = q] BY <1>1, <1>9, <1>10 DEF DeleteForgets, Advance, ToStep
<1>12. q \in DbRequest /\ q.op = "remove" /\ q.db = d /\ ~Reads(q) /\ ~Restores(q)
    BY <1>2, <1>9, <1>10, AdvanceShapes, <1>3, KindShapes DEF DbRequest
<1>13. RequestSound(q)' BY <1>2, <1>3, <1>4, <1>5, <1>12 DEF RequestSound, UsingOps
<1> QED BY <1>1, <1>3, <1>4, <1>5, <1>8, <1>11, <1>12, <1>13, HandleStep

\* A statement that is new to a file leaves it with a migration at most.
LEMMA MigrationOnce ==
    ASSUME NEW x, NEW kind \in {"write", "migration"}, NEW id, OneMigration(x),
           NEW new, new = (IF kind = "migration" /\ Migrations(x) # {} THEN {} ELSE {<<kind, id>>})
    PROVE  OneMigration(x \cup new)
BY DEF OneMigration, Migrations

\* One file's content becomes another.
LEMMA OneFileChanges ==
    ASSUME FilesInv, NEW i \in 1..Len(inodes), NEW x \in SUBSET Statement, OneMigration(x),
           inodes' = [inodes EXCEPT ![i] = x]
    PROVE  /\ inodes' \in Seq(SUBSET Statement) /\ Len(inodes) \in Nat /\ Len(inodes') = Len(inodes)
           /\ inodes'[i] = x
           /\ \A j \in 1..Len(inodes) : j # i => inodes'[j] = inodes[j]
           /\ \A j \in 1..Len(inodes') : OneMigration(inodes'[j])
BY ExceptSeq DEF FilesInv, FilesTyped, MigratedOnce

\* A request is over.
LEMMA OverSound ==
    ASSUME NEW t, dbReq' = [dbReq EXCEPT ![t] = DbIdle], FilesInv
    PROVE  /\ dbReq' \in [DbThreads -> DbRequest] /\ RequestSound(DbIdle) /\ RequestSound(DbIdle)'
           /\ DbIdle \in DbRequest /\ ~Restores(DbIdle) /\ ~Reads(DbIdle)
BY KindShapes DEF DbRequest, RequestSound, FilesInv, FilesTyped

\* Execute: what is written through a handle is in the file its database's name is of.
LEMMA ExecuteKeeps ==
    ASSUME FilesInv, NEW t \in DbThreads, Execute(t)
    PROVE  FilesInv'
<1>1. PICK r \in DbRequest : r = dbReq[t] BY DEF FilesInv, FilesTyped
<1>2. r.op = "execute" /\ r \in Query /\ r.db \in Databases
    BY <1>1, RequestShapes DEF Execute, AtStep, UsingOps
<1>3. PICK d \in Databases : d = r.db BY <1>2
<1>4. RequestSound(r) /\ r.op # "idle" /\ Reads(r) BY <1>1, <1>2, KindShapes DEF FilesInv
<1>5. /\ UNCHANGED <<names, replica, opened, dbs, litestream, dbLeft, catalog>>
      /\ DaemonsSound(litestream)' /\ dbReq' = [dbReq EXCEPT ![t] = DbIdle]
      /\ dbLeft' \in [requests : Nat, faults : Nat, new : Nat]
    BY DEF Execute, ToStep, FilesInv, FilesTyped, DaemonsSound
<1>6. PICK h \in 1..Len(opened) : h = r.handle /\ HandleSound(h, d)
    BY <1>2, <1>3, <1>4, NameFacts DEF RequestSound, UsingOps, Query, HandleSound
<1>7. PICK i \in 1..Len(inodes) : i = opened[h].inode BY <1>6 DEF FilesInv, FilesExist
<1>8. PICK new : new = IF r.kind = "migration" /\ Migrations(inodes[i]) # {} THEN {} ELSE {<<r.kind, r.id>>}
    OBVIOUS
<1>9. CASE UNCHANGED <<inodes, acknowledged>>
    BY <1>5, <1>9, <1>1, <1>4, OverSound, RequestStep, KindShapes DEF fileVars
<1>10. CASE /\ ~opened[h].closed
            /\ inodes' = [inodes EXCEPT ![i] = @ \cup new]
            /\ \E told \in {{}, new} : acknowledged' = [acknowledged EXCEPT ![d] = @ \cup told]
    <2>1. PICK x : x = inodes[i] \cup new OBVIOUS
    <2>2. /\ inodes \in Seq(SUBSET Statement) /\ acknowledged \in [Databases -> SUBSET Statement]
          /\ OneMigration(inodes[i])
        BY DEF FilesInv, FilesTyped, MigratedOnce
    <2>3. new \in SUBSET Statement /\ r.kind \in {"write", "migration"}
        BY <1>2, <1>8 DEF Query, Statement
    <2>4. x \in SUBSET Statement /\ OneMigration(x)
        <3>1. inodes[i] \in SUBSET Statement BY <2>2
        <3>2. OneMigration(x) BY <1>8, <2>1, <2>2, <2>3, MigrationOnce
        <3> QED BY <2>1, <2>3, <3>1, <3>2
    <2>5. /\ inodes' \in Seq(SUBSET Statement) /\ Len(inodes) \in Nat /\ Len(inodes') = Len(inodes)
          /\ inodes'[i] = x
          /\ \A j \in 1..Len(inodes) : j # i => inodes'[j] = inodes[j]
          /\ \A j \in 1..Len(inodes') : OneMigration(inodes'[j])
        BY <1>10, <2>1, <2>4, OneFileChanges
    <2>6. PICK told \in SUBSET new : acknowledged' = [acknowledged EXCEPT ![d] = @ \cup told]
        BY <1>10
    <2>7. /\ acknowledged' \in [Databases -> SUBSET Statement]
          /\ acknowledged'[d] = acknowledged[d] \cup told
          /\ \A e \in Databases \ {d} : acknowledged'[e] = acknowledged[e]
        BY <2>2, <2>3, <2>6
    <2>8. PICK n \in Name : n = names[d] BY NameFacts
    <2>9. names' = [names EXCEPT ![d] = n] BY <1>5, <2>8 DEF FilesInv, FilesTyped
    <2>10. Apart(i, d) BY <1>6, <1>7 DEF HandleSound
    <2>11. Only(d, n)
        <3>1. \A e \in Databases \ {d} :
                  names[e].path # 0 => inodes[names[e].path] \subseteq inodes'[names[e].path]
            BY <2>5, <2>10, OthersFiles
        <3>2. /\ Len(inodes) <= Len(inodes)' /\ Len(opened) <= Len(opened)'
              /\ \A k \in 1..Len(opened) : opened'[k] = opened[k]
              /\ dbs' = dbs /\ replica' = replica /\ catalog' = catalog /\ dbLeft'.new = dbLeft.new
            BY <1>3, <1>5, <2>5, NameFacts
        <3> QED BY <2>7, <2>8, <2>9, <3>1, <3>2 DEF Only
    <2>12. FilesTyped' BY <1>5, OverSound, <2>5, <2>7 DEF FilesInv, FilesTyped
    <2>13. FilesExist' BY <1>5, <2>5 DEF FilesInv, FilesExist
    <2>14. MigratedOnce' BY <1>5, <2>5 DEF FilesInv, MigratedOnce
    <2>15. d \in catalog => names[d].path = i
        BY <1>6, <1>7, <1>10 DEF HandleSound, OfFile
    <2>16. DatabaseSound(d)'
        <3>1. d \in catalog => acknowledged'[d] \subseteq Holds(d)'
            BY <2>15, <2>1, <2>5, <2>7, <1>5 DEF FilesInv, DatabaseSound, Holds
        <3>2. \A j \in {n.path, n.temp, n.backup} : j <= Len(inodes)'
            BY <2>5, <2>8, NameFacts
        <3> QED BY <1>5, <2>8, <2>11, <3>1, <3>2, NamesSound DEF KeepsPath
    <2>17. \A u \in DbThreads \ {t} : Leaves(dbReq[u], d, n)
        BY <1>1, <1>4, <2>8, <2>15 DEF FilesInv, RestoresAlone, Leaves, KeepsPath
    <2> QED BY <1>1, <1>3, <1>4, <1>5, <2>11, <2>12, <2>13, <2>14, <2>16, <2>17, OverSound, FileStep
<1> QED BY <1>1, <1>3, <1>6, <1>7, <1>8, <1>9, <1>10 DEF Execute

-----------------------------------------------------------------------------
(* Restoring and deleting.                                                 *)

\* A request changes the names of its database, and what clients were told is in it.
NamesOnly(d, n, a) ==
    /\ UNCHANGED <<replica, opened, dbs, catalog>> /\ dbLeft'.new = dbLeft.new
    /\ names' = [names EXCEPT ![d] = n] /\ acknowledged' = [acknowledged EXCEPT ![d] = a]
    /\ {n.path, n.temp, n.backup} \subseteq
           {0, Len(inodes) + 1, names[d].path, names[d].temp, names[d].backup}
    /\ inodes' \in Seq(SUBSET Statement) /\ Len(inodes) <= Len(inodes)'
    /\ \A i \in 1..Len(inodes') : OneMigration(inodes'[i])
    /\ \A i \in {n.path, n.temp, n.backup} : i <= Len(inodes)'
    /\ \A e \in Databases \ {d} :
           names[e].path # 0 => inodes[names[e].path] \subseteq inodes'[names[e].path]

\* A request takes a step that changes the names of its database's files, and no handle.
LEMMA NameStep ==
    ASSUME FilesInv, NEW t \in DbThreads, NEW d \in Databases, dbReq[t].op # "idle", dbReq[t].db = d,
           NEW r \in DbRequest, dbReq' = [dbReq EXCEPT ![t] = r],
           Restores(r) => Restores(dbReq[t]), ~Reads(r), r.op # "idle" => r.db = d,
           NEW n \in Name, NEW a \in SUBSET Statement, NamesOnly(d, n, a),
           Restores(dbReq[t]) \/ (d \notin catalog /\ n.temp = names[d].temp /\ a = acknowledged[d]),
           dbs[d] # 0 => KeepsPath(d, n),
           d \in catalog => a \subseteq IF n.path # 0 THEN inodes'[n.path] ELSE replica[d].latest,
           dbLeft' \in [requests : Nat, faults : Nat, new : Nat], litestream' = litestream,
           r.op \in {"close", "away", "in"} => n.temp # 0,
           r.op \in {"away", "in"} => dbs[d] = 0,
           r.op = "in" => a = {},
           r.op \notin {"forget", "remove"}
    PROVE  FilesInv'
<1>1. /\ names' \in [Databases -> Name] /\ names'[d] = n
      /\ acknowledged' \in [Databases -> SUBSET Statement] /\ acknowledged'[d] = a
      /\ \A e \in Databases \ {d} : acknowledged'[e] = acknowledged[e]
      /\ inodes' \in Seq(SUBSET Statement)
    BY DEF FilesInv, FilesTyped, NamesOnly
<1>2. UNCHANGED <<replica, opened, dbs, catalog>> /\ dbLeft'.new = dbLeft.new
    BY DEF NamesOnly
<1>3. Only(d, n) BY <1>2, NameFacts, <1>1 DEF Only, NamesOnly
<1>4. FilesTyped' BY <1>1, <1>2 DEF FilesInv, FilesTyped
<1>5. FilesExist' BY <1>2, <1>1, NameFacts DEF FilesExist, FilesInv, NamesOnly
<1>6. MigratedOnce' BY <1>2 DEF FilesInv, MigratedOnce, NamesOnly
<1>7. DaemonsSound(litestream)' BY DEF FilesInv, DaemonsSound
<1>8. DatabaseSound(d)' BY <1>1, <1>2, <1>3, NamesSound DEF Holds, NamesOnly
<1>9. RequestSound(r)'
    BY RequestShapes, KindShapes, <1>2, <1>1 DEF RequestSound, Reads, Query, OpeningOps, FilesInv
<1>10. \A u \in DbThreads \ {t} : Leaves(dbReq[u], d, n)
    BY <1>1, <1>2 DEF FilesInv, RestoresAlone, Leaves, KeepsPath
<1> QED BY <1>3, <1>4, <1>5, <1>6, <1>7, <1>8, <1>9, <1>10, FileStep, KindShapes

\* Where files stay as they are.
LEMMA SameFiles ==
    ASSUME FilesInv, NEW d \in Databases, NEW n \in Name, NEW a, inodes' = inodes,
           UNCHANGED <<replica, opened, dbs, catalog>>, dbLeft'.new = dbLeft.new,
           names' = [names EXCEPT ![d] = n], acknowledged' = [acknowledged EXCEPT ![d] = a],
           {n.path, n.temp, n.backup} \subseteq {0, names[d].path, names[d].temp, names[d].backup}
    PROVE  NamesOnly(d, n, a)
<1>1. /\ inodes' \in Seq(SUBSET Statement) /\ Len(inodes) <= Len(inodes)'
      /\ \A i \in 1..Len(inodes') : OneMigration(inodes'[i])
    BY NameFacts DEF FilesInv, FilesTyped, MigratedOnce
<1>2. \A i \in {n.path, n.temp, n.backup} : i <= Len(inodes)' BY NameFacts
<1> QED BY <1>1, <1>2 DEF NamesOnly

\* A restore goes on.
LEMMA RestoreGoesOn ==
    ASSUME NEW r \in DbRequest, r \in Restore, NEW op \in RestoringOps
    PROVE  LET q == [r EXCEPT !.op = op]
           IN  /\ q \in DbRequest /\ q.op = op /\ q.db = r.db /\ ~Reads(q) /\ Restores(r) /\ q.op # "idle"
               /\ q.op \notin {"forget", "remove"}
BY AdvanceShapes, KindShapes DEF DbRequest, RestoringOps

\* What a restore may rely on when it takes its next step.
LEMMA RestoreFacts ==
    ASSUME FilesInv, NEW t \in DbThreads, dbReq[t].op \in RestoringOps
    PROVE  /\ dbReq[t] \in DbRequest /\ dbReq[t] \in Restore /\ Restores(dbReq[t])
           /\ dbReq[t].db \in Databases /\ dbReq[t].op # "idle" /\ RequestSound(dbReq[t])
           /\ acknowledged[dbReq[t].db] \in SUBSET Statement
BY RequestShapes, KindShapes DEF FilesInv, FilesTyped, RestoringOps

\* RestoreTo: what a restore fetches is a new file, under a temporary name.
LEMMA RestoreToKeeps ==
    ASSUME FilesInv, NEW t \in DbThreads, RestoreTo(t)
    PROVE  FilesInv'
<1>1. PICK r \in DbRequest : r = dbReq[t] BY DEF FilesInv, FilesTyped
<1>2. r.op = "fetch" BY <1>1 DEF RestoreTo, AtStep
<1>3. PICK d \in Databases : d = r.db BY <1>1, <1>2, RestoreFacts DEF RestoringOps
<1>4. /\ r \in Restore /\ Restores(r) /\ r.op # "idle" /\ acknowledged[d] \in SUBSET Statement
    BY <1>1, <1>2, <1>3, RestoreFacts DEF RestoringOps
<1>5. UNCHANGED <<replica, opened, dbs, litestream, catalog, acknowledged>> BY DEF RestoreTo
<1>6. acknowledged' = [acknowledged EXCEPT ![d] = acknowledged[d]]
    BY <1>5 DEF FilesInv, FilesTyped
<1>7. d \in catalog => acknowledged[d] \subseteq Holds(d) BY DEF FilesInv, DatabaseSound
<1>8. CASE /\ Advance(t, "close") /\ UNCHANGED dbLeft
           /\ \E point \in replica[d].points : inodes' = Append(inodes, point)
           /\ names' = [names EXCEPT ![d].temp = Len(inodes) + 1]
    <2>1. PICK point \in replica[d].points : inodes' = Append(inodes, point) BY <1>8
    <2>2. point \in SUBSET Statement /\ OneMigration(point)
        BY DEF FilesInv, FilesTyped, Replica, MigratedOnce
    <2>3. /\ inodes' \in Seq(SUBSET Statement) /\ Len(inodes) \in Nat /\ Len(inodes') = Len(inodes) + 1
          /\ \A i \in 1..Len(inodes) : inodes'[i] = inodes[i]
          /\ \A i \in 1..Len(inodes') : OneMigration(inodes'[i])
        BY <2>1, <2>2, OneFileMore
    <2>4. PICK n : n = [names[d] EXCEPT !.temp = Len(inodes) + 1] OBVIOUS
    <2>5. /\ n \in Name /\ n.path = names[d].path /\ n.temp = Len(inodes) + 1 /\ n.backup = names[d].backup
          /\ names' = [names EXCEPT ![d] = n]
        BY <1>8, <2>4, NameFacts DEF Name
    <2>6. NamesOnly(d, n, acknowledged[d])
        <3>1. \A i \in {n.path, n.temp, n.backup} : i <= Len(inodes)' BY <2>3, <2>5, NameFacts
        <3>2. \A e \in Databases \ {d} :
                  names[e].path # 0 => inodes[names[e].path] \subseteq inodes'[names[e].path]
            BY <2>3, NameFacts
        <3>3. Len(inodes) <= Len(inodes)' BY <2>3
        <3>4. UNCHANGED <<replica, opened, dbs, catalog>> /\ dbLeft'.new = dbLeft.new BY <1>5, <1>8
        <3> QED BY <1>6, <2>3, <2>5, <3>1, <3>2, <3>3, <3>4 DEF NamesOnly
    <2>7. d \in catalog =>
              acknowledged[d] \subseteq IF n.path # 0 THEN inodes'[n.path] ELSE replica[d].latest
        BY <1>7, <2>3, <2>5, NameFacts DEF Holds
    <2>8. PICK op \in RestoringOps : op = "close" BY DEF RestoringOps
    <2>9. PICK q : q = [r EXCEPT !.op = op] OBVIOUS
    <2>10. dbReq' = [dbReq EXCEPT ![t] = q] BY <1>1, <1>8, <2>8, <2>9 DEF Advance, ToStep
    <2>11. q \in DbRequest /\ q.op = "close" /\ q.db = d /\ ~Reads(q)
        BY <1>3, <1>4, <2>8, <2>9, RestoreGoesOn
    <2>12. n.temp # 0 /\ KeepsPath(d, n) BY <2>3, <2>5 DEF KeepsPath
    <2>13. dbLeft' \in [requests : Nat, faults : Nat, new : Nat] BY <1>8 DEF FilesInv, FilesTyped
    <2> QED BY <1>1, <1>3, <1>4, <1>5, <2>5, <2>6, <2>7, <2>10, <2>11, <2>12, <2>13, NameStep
<1>9. CASE /\ DbFaultIf(replica[d].points # {}) /\ ToStep(t, DbIdle)
           /\ names' = [names EXCEPT ![d].temp = 0] /\ UNCHANGED inodes
    <2>1. PICK n : n = [names[d] EXCEPT !.temp = 0] OBVIOUS
    <2>2. /\ n \in Name /\ n.path = names[d].path /\ n.temp = 0 /\ n.backup = names[d].backup
          /\ names' = [names EXCEPT ![d] = n]
        BY <1>9, <2>1, NameFacts DEF Name
    <2>3. dbLeft' \in [requests : Nat, faults : Nat, new : Nat] /\ dbLeft'.new = dbLeft.new
        BY <1>9, FaultLeaves
    <2>4. NamesOnly(d, n, acknowledged[d]) BY <1>5, <1>6, <1>9, <2>2, <2>3, SameFiles
    <2>5. d \in catalog =>
              acknowledged[d] \subseteq IF n.path # 0 THEN inodes'[n.path] ELSE replica[d].latest
        BY <1>7, <1>9, <2>2 DEF Holds
    <2>6. dbReq' = [dbReq EXCEPT ![t] = DbIdle] /\ KeepsPath(d, n) BY <1>9, <2>2 DEF ToStep, KeepsPath
    <2> QED BY <1>1, <1>3, <1>4, <1>5, <2>2, <2>3, <2>4, <2>5, <2>6, NameStep, KindShapes
<1> QED BY <1>1, <1>3, <1>8, <1>9 DEF RestoreTo

\* MoveAway: the file that is replaced is kept under the name of its backup.
LEMMA MoveAwayKeeps ==
    ASSUME FilesInv, NEW t \in DbThreads, MoveAway(t)
    PROVE  FilesInv'
<1>1. PICK r \in DbRequest : r = dbReq[t] BY DEF FilesInv, FilesTyped
<1>2. r.op = "away" BY <1>1 DEF MoveAway, AtStep
<1>3. PICK d \in Databases : d = r.db BY <1>1, <1>2, RestoreFacts DEF RestoringOps
<1>4. /\ r \in Restore /\ Restores(r) /\ r.op # "idle" /\ acknowledged[d] \in SUBSET Statement
      /\ names[d].temp # 0 /\ dbs[d] = 0
    BY <1>1, <1>2, <1>3, RestoreFacts DEF RestoringOps, RequestSound
<1>5. UNCHANGED <<inodes, replica, opened, dbs, litestream, catalog>> BY DEF MoveAway
<1>6. d \in catalog => acknowledged[d] \subseteq Holds(d) BY DEF FilesInv, DatabaseSound
<1>7. CASE /\ names' = [names EXCEPT ![d].backup = names[d].path, ![d].path = 0]
           /\ Advance(t, "in") /\ acknowledged' = [acknowledged EXCEPT ![d] = {}] /\ UNCHANGED dbLeft
    <2>1. PICK n : n = [names[d] EXCEPT !.backup = names[d].path, !.path = 0] OBVIOUS
    <2>2. /\ n \in Name /\ n.path = 0 /\ n.temp = names[d].temp /\ n.backup = names[d].path
        BY <2>1, NameFacts DEF Name
    <2>3. names' = [names EXCEPT ![d] = n]
        BY <1>7, <2>1 DEF FilesInv, FilesTyped
    <2>4. NamesOnly(d, n, {}) BY <1>5, <1>7, <2>2, <2>3, SameFiles
    <2>5. PICK op \in RestoringOps : op = "in" BY DEF RestoringOps
    <2>6. PICK q : q = [r EXCEPT !.op = op] OBVIOUS
    <2>7. dbReq' = [dbReq EXCEPT ![t] = q] BY <1>1, <1>7, <2>5, <2>6 DEF Advance, ToStep
    <2>8. q \in DbRequest /\ q.op = "in" /\ q.db = d /\ ~Reads(q)
        BY <1>3, <1>4, <2>5, <2>6, RestoreGoesOn
    <2>9. dbLeft' \in [requests : Nat, faults : Nat, new : Nat] BY <1>7 DEF FilesInv, FilesTyped
    <2>10. {} \in SUBSET Statement OBVIOUS
    <2> QED BY <1>1, <1>3, <1>4, <1>5, <2>2, <2>4, <2>7, <2>8, <2>9, <2>10, NameStep
<1>8. CASE /\ DbFault /\ ToStep(t, DbIdle) /\ UNCHANGED acknowledged
           /\ names' = [names EXCEPT ![d].backup = 0]
    <2>1. PICK n : n = [names[d] EXCEPT !.backup = 0] OBVIOUS
    <2>2. /\ n \in Name /\ n.path = names[d].path /\ n.temp = names[d].temp /\ n.backup = 0
          /\ names' = [names EXCEPT ![d] = n]
        BY <1>8, <2>1, NameFacts DEF Name
    <2>3. dbLeft' \in [requests : Nat, faults : Nat, new : Nat] /\ dbLeft'.new = dbLeft.new
        BY <1>8, FaultLeaves DEF DbFaultIf
    <2>4. acknowledged' = [acknowledged EXCEPT ![d] = acknowledged[d]]
        BY <1>8 DEF FilesInv, FilesTyped
    <2>5. NamesOnly(d, n, acknowledged[d]) BY <1>5, <2>2, <2>3, <2>4, SameFiles
    <2>6. d \in catalog =>
              acknowledged[d] \subseteq IF n.path # 0 THEN inodes'[n.path] ELSE replica[d].latest
        BY <1>5, <1>6, <2>2 DEF Holds
    <2>7. dbReq' = [dbReq EXCEPT ![t] = DbIdle] BY <1>8 DEF ToStep
    <2> QED BY <1>1, <1>3, <1>4, <1>5, <2>2, <2>3, <2>5, <2>6, <2>7, NameStep, KindShapes
<1> QED BY <1>1, <1>3, <1>7, <1>8 DEF MoveAway

\* MoveIn: the file that was fetched takes the name, or the one that was moved takes it back.
LEMMA MoveInKeeps ==
    ASSUME FilesInv, NEW t \in DbThreads, MoveIn(t)
    PROVE  FilesInv'
<1>1. PICK r \in DbRequest : r = dbReq[t] BY DEF FilesInv, FilesTyped
<1>2. r.op = "in" BY <1>1 DEF MoveIn, AtStep
<1>3. PICK d \in Databases : d = r.db BY <1>1, <1>2, RestoreFacts DEF RestoringOps
<1>4. /\ r \in Restore /\ Restores(r) /\ r.op # "idle" /\ acknowledged[d] \in SUBSET Statement
      /\ names[d].temp # 0 /\ dbs[d] = 0 /\ (d \in catalog => acknowledged[d] = {})
    BY <1>1, <1>2, <1>3, RestoreFacts DEF RestoringOps, RequestSound
<1>5. UNCHANGED <<replica, opened, dbs, litestream, catalog>> BY DEF MoveIn
<1>6. CASE /\ names' = [names EXCEPT ![d].path = names[d].temp, ![d].temp = 0] /\ Advance(t, "clean")
           /\ acknowledged' = [acknowledged EXCEPT ![d] = inodes[names[d].temp]]
           /\ UNCHANGED <<dbLeft, inodes>>
    <2>1. PICK n : n = [names[d] EXCEPT !.path = names[d].temp, !.temp = 0] OBVIOUS
    <2>2. /\ n \in Name /\ n.path = names[d].temp /\ n.temp = 0 /\ n.backup = names[d].backup
        BY <2>1, NameFacts DEF Name
    <2>3. names' = [names EXCEPT ![d] = n]
        BY <1>6, <2>1 DEF FilesInv, FilesTyped
    <2>4. PICK a \in SUBSET Statement : a = inodes[names[d].temp]
        BY <1>4, NameFacts DEF FilesInv, FilesTyped
    <2>5. NamesOnly(d, n, a) BY <1>5, <1>6, <2>2, <2>3, <2>4, SameFiles
    <2>6. PICK op \in RestoringOps : op = "clean" BY DEF RestoringOps
    <2>7. PICK q : q = [r EXCEPT !.op = op] OBVIOUS
    <2>8. dbReq' = [dbReq EXCEPT ![t] = q] BY <1>1, <1>6, <2>6, <2>7 DEF Advance, ToStep
    <2>9. q \in DbRequest /\ q.op = "clean" /\ q.db = d /\ ~Reads(q)
        BY <1>3, <1>4, <2>6, <2>7, RestoreGoesOn
    <2>10. dbLeft' \in [requests : Nat, faults : Nat, new : Nat] BY <1>6 DEF FilesInv, FilesTyped
    <2>11. a \subseteq IF n.path # 0 THEN inodes'[n.path] ELSE replica[d].latest
        BY <1>4, <1>6, <2>2, <2>4
    <2> QED BY <1>1, <1>3, <1>4, <1>5, <2>2, <2>5, <2>8, <2>9, <2>10, <2>11, NameStep
<1>7. CASE /\ DbFault /\ ToStep(t, DbIdle) /\ UNCHANGED acknowledged
           /\ names' = [names EXCEPT ![d].path = names[d].backup, ![d].backup = 0]
           /\ IF names[d].backup = 0 THEN UNCHANGED inodes
              ELSE \E left \in SUBSET inodes[names[d].backup] :
                       inodes' = [inodes EXCEPT ![names[d].backup] = left]
    <2>1. PICK n : n = [names[d] EXCEPT !.path = names[d].backup, !.backup = 0] OBVIOUS
    <2>2. /\ n \in Name /\ n.path = names[d].backup /\ n.temp = names[d].temp /\ n.backup = 0
        BY <2>1, NameFacts DEF Name
    <2>3. names' = [names EXCEPT ![d] = n]
        BY <1>7, <2>1 DEF FilesInv, FilesTyped
    <2>4. dbLeft' \in [requests : Nat, faults : Nat, new : Nat] /\ dbLeft'.new = dbLeft.new
        BY <1>7, FaultLeaves DEF DbFaultIf
    <2>5. acknowledged' = [acknowledged EXCEPT ![d] = acknowledged[d]]
        BY <1>7 DEF FilesInv, FilesTyped
    <2>6. NamesOnly(d, n, acknowledged[d])
        <3>1. CASE names[d].backup = 0 BY <1>7, <3>1, <1>5, <2>2, <2>3, <2>4, <2>5, SameFiles
        <3>2. CASE names[d].backup # 0
            <4>1. PICK i \in 1..Len(inodes) : i = names[d].backup BY <3>2, NameFacts
            <4>2. PICK left \in SUBSET inodes[i] : inodes' = [inodes EXCEPT ![i] = left]
                BY <1>7, <3>2, <4>1
            <4>3. inodes[i] \in SUBSET Statement /\ OneMigration(inodes[i])
                BY DEF FilesInv, FilesTyped, MigratedOnce
            <4>4. left \in SUBSET Statement /\ OneMigration(left)
                BY <4>3 DEF OneMigration, Migrations
            <4>5. /\ inodes' \in Seq(SUBSET Statement) /\ Len(inodes) \in Nat /\ Len(inodes') = Len(inodes)
                  /\ \A j \in 1..Len(inodes) : j # i => inodes'[j] = inodes[j]
                  /\ \A j \in 1..Len(inodes') : OneMigration(inodes'[j])
                BY <4>2, <4>4, OneFileChanges
            <4>6. Apart(i, d) BY <3>2, <4>1 DEF FilesInv, DatabaseSound, NameSound
            <4>7. \A e \in Databases \ {d} :
                      names[e].path # 0 => inodes[names[e].path] \subseteq inodes'[names[e].path]
                BY <4>5, <4>6, OthersFiles
            <4>8. \A j \in {n.path, n.temp, n.backup} : j <= Len(inodes)' BY <2>2, <4>5, NameFacts
            <4>9. Len(inodes) <= Len(inodes)' BY <4>5
            <4>10. UNCHANGED <<replica, opened, dbs, catalog>> BY <1>5
            <4> QED BY <2>2, <2>3, <2>4, <2>5, <4>5, <4>7, <4>8, <4>9, <4>10 DEF NamesOnly
        <3> QED BY <3>1, <3>2
    <2>7. dbReq' = [dbReq EXCEPT ![t] = DbIdle] BY <1>7 DEF ToStep
    <2> QED BY <1>1, <1>3, <1>4, <1>5, <2>2, <2>4, <2>6, <2>7, NameStep, KindShapes
<1>8. \/ /\ names' = [names EXCEPT ![d].path = names[d].temp, ![d].temp = 0] /\ Advance(t, "clean")
         /\ acknowledged' = [acknowledged EXCEPT ![d] = inodes[names[d].temp]]
         /\ UNCHANGED <<dbLeft, inodes>>
      \/ /\ DbFault /\ ToStep(t, DbIdle) /\ UNCHANGED acknowledged
         /\ names' = [names EXCEPT ![d].path = names[d].backup, ![d].backup = 0]
         /\ IF names[d].backup = 0 THEN UNCHANGED inodes
            ELSE \E left \in SUBSET inodes[names[d].backup] :
                     inodes' = [inodes EXCEPT ![names[d].backup] = left]
    BY <1>1, <1>3 DEF MoveIn
<1> QED BY <1>6, <1>7, <1>8

\* RestoreEnds: the file that was replaced loses its name.
LEMMA RestoreEndsKeeps ==
    ASSUME FilesInv, NEW t \in DbThreads, RestoreEnds(t)
    PROVE  FilesInv'
<1>1. PICK r \in DbRequest : r = dbReq[t] BY DEF FilesInv, FilesTyped
<1>2. r.op = "clean" BY <1>1 DEF RestoreEnds, AtStep
<1>3. PICK d \in Databases : d = r.db BY <1>1, <1>2, RestoreFacts DEF RestoringOps
<1>4. /\ r \in Restore /\ Restores(r) /\ r.op # "idle" /\ acknowledged[d] \in SUBSET Statement
    BY <1>1, <1>2, <1>3, RestoreFacts DEF RestoringOps
<1>5. /\ UNCHANGED <<inodes, replica, opened, dbs, litestream, dbLeft, catalog, acknowledged>>
      /\ dbReq' = [dbReq EXCEPT ![t] = DbIdle]
    BY DEF RestoreEnds, ToStep
<1>6. PICK n : n = [names[d] EXCEPT !.backup = 0] OBVIOUS
<1>7. /\ n \in Name /\ n.path = names[d].path /\ n.temp = names[d].temp /\ n.backup = 0
      /\ names' = [names EXCEPT ![d] = n]
    BY <1>1, <1>3, <1>6, NameFacts DEF Name, RestoreEnds
<1>8. dbLeft' \in [requests : Nat, faults : Nat, new : Nat] /\ dbLeft'.new = dbLeft.new
    BY <1>5 DEF FilesInv, FilesTyped
<1>9. acknowledged' = [acknowledged EXCEPT ![d] = acknowledged[d]]
    BY <1>5 DEF FilesInv, FilesTyped
<1>10. NamesOnly(d, n, acknowledged[d]) BY <1>5, <1>7, <1>8, <1>9, SameFiles
<1>11. d \in catalog =>
           acknowledged[d] \subseteq IF n.path # 0 THEN inodes'[n.path] ELSE replica[d].latest
    BY <1>5, <1>7 DEF FilesInv, DatabaseSound, Holds
<1>12. KeepsPath(d, n) BY <1>7 DEF KeepsPath
<1> QED BY <1>1, <1>3, <1>4, <1>5, <1>7, <1>8, <1>10, <1>11, <1>12, NameStep, KindShapes

\* DeleteRemoves: a database the catalog no longer has loses the name of its file.
LEMMA RemoveKeeps ==
    ASSUME FilesInv, NEW t \in DbThreads, DeleteRemoves(t)
    PROVE  FilesInv'
<1>1. PICK r \in DbRequest : r = dbReq[t] BY DEF FilesInv, FilesTyped
<1>2. r.op = "remove" /\ r.op # "idle" BY <1>1 DEF DeleteRemoves, AtStep
<1>3. PICK d \in Databases : d = r.db BY <1>2, RequestShapes
<1>4. d \notin catalog /\ acknowledged[d] \in SUBSET Statement
    BY <1>1, <1>2, <1>3 DEF FilesInv, FilesTyped, RequestSound
<1>5. /\ UNCHANGED <<inodes, replica, opened, dbs, litestream, dbLeft, catalog, acknowledged>>
      /\ dbReq' = [dbReq EXCEPT ![t] = DbIdle]
    BY DEF DeleteRemoves, ToStep
<1>6. PICK n : n = [names[d] EXCEPT !.path = 0] OBVIOUS
<1>7. /\ n \in Name /\ n.path = 0 /\ n.temp = names[d].temp /\ n.backup = names[d].backup
      /\ names' = [names EXCEPT ![d] = n]
    BY <1>1, <1>3, <1>6, NameFacts DEF Name, DeleteRemoves
<1>8. dbLeft' \in [requests : Nat, faults : Nat, new : Nat] /\ dbLeft'.new = dbLeft.new
    BY <1>5 DEF FilesInv, FilesTyped
<1>9. acknowledged' = [acknowledged EXCEPT ![d] = acknowledged[d]]
    BY <1>5 DEF FilesInv, FilesTyped
<1>10. NamesOnly(d, n, acknowledged[d]) BY <1>5, <1>7, <1>8, <1>9, SameFiles
<1>11. KeepsPath(d, n) BY <1>4 DEF KeepsPath
<1> QED BY <1>1, <1>2, <1>3, <1>4, <1>5, <1>7, <1>8, <1>10, <1>11, NameStep, KindShapes

-----------------------------------------------------------------------------
(* Requests that begin, and the rest of the process.                       *)

\* A request begins.
LEMMA BeginStep ==
    ASSUME FilesInv, NEW t \in DbThreads, NEW r \in DbRequest, dbReq' = [dbReq EXCEPT ![t] = r],
           UNCHANGED <<fileVars, litestream, acknowledged>>, catalog' \subseteq Databases,
           dbLeft' \in [requests : Nat, faults : Nat, new : Nat],
           \/ catalog' \subseteq catalog /\ dbLeft'.new = dbLeft.new
           \/ catalog' = catalog \cup {2} /\ dbLeft.new = 1 /\ dbLeft'.new = 0,
           RestoresAlone', RequestSound(r)'
    PROVE  FilesInv'
<1>1. dbReq'[t] = r /\ \A u \in DbThreads \ {t} : dbReq'[u] = dbReq[u]
    BY DEF FilesInv, FilesTyped
<1>2. FilesTyped' BY DEF FilesInv, FilesTyped, fileVars
<1>3. FilesExist' /\ MigratedOnce' /\ DaemonsSound(litestream)'
    BY DEF FilesInv, FilesExist, MigratedOnce, DaemonsSound, fileVars
<1>4. CreationSound' BY DEF FilesInv, CreationSound, fileVars
<1>5. ASSUME NEW d \in Databases PROVE DatabaseSound(d)'
    <2>1. DatabaseSound(d) BY DEF FilesInv
    <2>2. CASE d \in catalog' => d \in catalog
        BY <2>1, <2>2 DEF DatabaseSound, NameSound, HandleSound, OfFile, Apart, Holds, fileVars
    <2>3. CASE ~(d \in catalog' => d \in catalog)
        BY <2>3, <2>1 DEF FilesInv, CreationSound, DatabaseSound, NameSound, Apart, fileVars
    <2> QED BY <2>2, <2>3
<1>6. ASSUME NEW u \in DbThreads PROVE RequestSound(dbReq[u])'
    <2>1. CASE u = t
        BY <1>1, <2>1 DEF RequestSound, HandleSound, OfFile, Apart
    <2>2. CASE u # t
        <3>1. PICK q \in DbRequest : q = dbReq[u] /\ q = dbReq'[u]
            BY <1>1, <2>2 DEF FilesInv, FilesTyped
        <3>2. RequestSound(q) BY <3>1 DEF FilesInv
        <3>3. q.op # "idle" => (q.db \in catalog' => q.db \in catalog) BY <3>2 DEF RequestSound
        <3>4. RequestSound(q)'
            BY <3>2, <3>3 DEF RequestSound, HandleSound, OfFile, Apart, fileVars
        <3> QED BY <3>1, <3>4 DEF RequestSound, HandleSound, OfFile, Apart
    <2> QED BY <2>1, <2>2
<1> QED BY <1>2, <1>3, <1>4, <1>5, <1>6 DEF FilesInv

\* restoreMu: what the sets of requests that hold it say.
LEMMA LockFacts ==
    /\ Restoring = {} => \A u \in DbThreads : ~Restores(dbReq[u])
    /\ Reading = {} => \A u \in DbThreads : ~Reads(dbReq[u])
BY DEF Restoring, Reading, Restores, Reads, RestoringOps, OpeningOps, UsingOps

\* A request begins on a database of the catalog.
LEMMA BeginLeaves ==
    ASSUME FilesInv, NEW t, NEW r, BeginDb(t, r)
    PROVE  /\ dbLeft' \in [requests : Nat, faults : Nat, new : Nat] /\ dbLeft'.new = dbLeft.new
           /\ r.db \in catalog /\ dbReq' = [dbReq EXCEPT ![t] = r]
           /\ dbLeft.new = 1 => r.db # 2
<1>1. dbLeft \in [requests : Nat, faults : Nat, new : Nat] /\ dbLeft.requests > 0
      /\ dbLeft' = [dbLeft EXCEPT !.requests = @ - 1]
    BY DEF FilesInv, FilesTyped, BeginDb
<1>2. dbLeft.requests - 1 \in Nat BY <1>1
<1> QED BY <1>1, <1>2 DEF BeginDb, ToStep, FilesInv, CreationSound

\* A query begins.
LEMMA StartQueryKeeps ==
    ASSUME FilesInv, NEW t \in DbThreads, NEW d \in Databases, NEW kind \in {"write", "migration"},
           StartQuery(t, d, kind)
    PROVE  FilesInv'
<1>1. PICK id \in Nat : id = dbLeft.requests BY DEF FilesInv, FilesTyped
<1>2. PICK r : r = [op |-> "open", db |-> d, kind |-> kind, id |-> id, handle |-> 0] OBVIOUS
<1>3. r \in Query /\ r.op = "open" /\ r.db = d BY <1>2 DEF Query, OpeningOps
<1>4. r \in DbRequest /\ ~Restores(r) BY <1>3, KindShapes DEF DbRequest
<1>5. BeginDb(t, r) /\ Restoring = {} /\ UNCHANGED <<fileVars, litestream, catalog, acknowledged>>
    BY <1>1, <1>2 DEF StartQuery
<1>6. /\ dbLeft' \in [requests : Nat, faults : Nat, new : Nat] /\ dbLeft'.new = dbLeft.new
      /\ dbReq' = [dbReq EXCEPT ![t] = r] /\ (dbLeft.new = 1 => r.db # 2)
    BY <1>5, BeginLeaves
<1>7. RestoresAlone'
    BY <1>6, <1>4, <1>5, LockFacts DEF FilesInv, FilesTyped, RestoresAlone, Restores
<1>8. RequestSound(r)' BY <1>3, <1>6 DEF RequestSound, UsingOps
<1>9. catalog' = catalog /\ catalog' \subseteq Databases BY <1>5 DEF FilesInv, FilesTyped
<1> QED BY <1>4, <1>5, <1>6, <1>7, <1>8, <1>9, BeginStep

\* A restore begins, when no request holds restoreMu.
LEMMA StartRestoreKeeps ==
    ASSUME FilesInv, NEW t \in DbThreads, NEW d \in Databases, StartRestore(t, d)
    PROVE  FilesInv'
<1>1. PICK r : r = [op |-> "prepare", db |-> d] OBVIOUS
<1>2. r \in Restore /\ r.op = "prepare" /\ r.db = d BY <1>1 DEF Restore, RestoringOps
<1>3. r \in DbRequest BY <1>2 DEF DbRequest
<1>4. /\ BeginDb(t, r) /\ Restoring = {} /\ Reading = {}
      /\ UNCHANGED <<fileVars, litestream, catalog, acknowledged>>
    BY <1>1 DEF StartRestore
<1>5. /\ dbLeft' \in [requests : Nat, faults : Nat, new : Nat] /\ dbLeft'.new = dbLeft.new
      /\ dbReq' = [dbReq EXCEPT ![t] = r] /\ (dbLeft.new = 1 => r.db # 2)
    BY <1>4, BeginLeaves
<1>6. RestoresAlone'
    BY <1>5, <1>4, LockFacts DEF FilesInv, FilesTyped, RestoresAlone, Restores, Reads
<1>7. RequestSound(r)' BY <1>2, <1>5 DEF RequestSound, UsingOps
<1>8. catalog' = catalog /\ catalog' \subseteq Databases BY <1>4 DEF FilesInv, FilesTyped
<1> QED BY <1>3, <1>4, <1>5, <1>6, <1>7, <1>8, BeginStep

\* A request that neither restores nor reads is no matter of the lock.
LEMMA LockStays ==
    ASSUME FilesInv, NEW t \in DbThreads, NEW r \in DbRequest, dbReq' = [dbReq EXCEPT ![t] = r],
           ~Restores(r), ~Reads(r)
    PROVE  RestoresAlone'
BY DEF FilesInv, FilesTyped, RestoresAlone, Restores, Reads

\* A deletion begins: the catalog forgets the database first.
LEMMA StartDeleteKeeps ==
    ASSUME FilesInv, NEW t \in DbThreads, NEW d \in Databases, StartDelete(t, d)
    PROVE  FilesInv'
<1>1. PICK r : r = [op |-> "forget", db |-> d] OBVIOUS
<1>2. r \in Deletion /\ r.op = "forget" /\ r.db = d BY <1>1 DEF Deletion
<1>3. r \in DbRequest /\ ~Restores(r) /\ ~Reads(r) BY <1>2, KindShapes DEF DbRequest
<1>4. /\ BeginDb(t, r) /\ catalog' = catalog \ {d}
      /\ UNCHANGED <<fileVars, litestream, acknowledged>>
    BY <1>1 DEF StartDelete
<1>5. /\ dbLeft' \in [requests : Nat, faults : Nat, new : Nat] /\ dbLeft'.new = dbLeft.new
      /\ dbReq' = [dbReq EXCEPT ![t] = r] /\ (dbLeft.new = 1 => r.db # 2)
    BY <1>4, BeginLeaves
<1>6. RestoresAlone' BY <1>3, <1>5, LockStays
<1>7. RequestSound(r)' BY <1>2, <1>4, <1>5 DEF RequestSound, UsingOps
<1>8. catalog' \subseteq catalog /\ catalog' \subseteq Databases BY <1>4 DEF FilesInv, FilesTyped
<1> QED BY <1>3, <1>4, <1>5, <1>6, <1>7, <1>8, BeginStep

\* A creation begins, of a database that no other request can name yet.
LEMMA CreateKeeps ==
    ASSUME FilesInv, NEW t \in DbThreads, CreateDatabase(t)
    PROVE  FilesInv'
<1>1. PICK r : r = [op |-> "stat", db |-> 2, kind |-> "create"] OBVIOUS
<1>2. r \in Creation /\ r.op = "stat" /\ r.db = 2 BY <1>1 DEF Creation
<1>3. r \in DbRequest /\ ~Restores(r) /\ ~Reads(r) BY <1>2, KindShapes DEF DbRequest
<1>4. /\ dbLeft.new > 0 /\ dbLeft' = [dbLeft EXCEPT !.new = @ - 1] /\ catalog' = catalog \cup {2}
      /\ dbReq' = [dbReq EXCEPT ![t] = r] /\ UNCHANGED <<fileVars, litestream, acknowledged>>
    BY <1>1 DEF CreateDatabase, ToStep
<1>5. /\ dbLeft.new = 1 /\ dbLeft'.new = 0
      /\ dbLeft' \in [requests : Nat, faults : Nat, new : Nat]
    <2>1. dbLeft \in [requests : Nat, faults : Nat, new : Nat] /\ dbLeft.new \in {0, 1}
        BY DEF FilesInv, FilesTyped, CreationSound
    <2>2. dbLeft.new = 1 BY <1>4, <2>1
    <2>3. dbLeft.new - 1 = 0 BY <2>2
    <2> QED BY <1>4, <2>1, <2>2, <2>3
<1>6. RestoresAlone' BY <1>3, <1>4, LockStays
<1>7. RequestSound(r)' BY <1>2, <1>5 DEF RequestSound, UsingOps
<1>8. catalog' \subseteq Databases BY <1>4 DEF FilesInv, FilesTyped, Databases
<1> QED BY <1>3, <1>4, <1>5, <1>6, <1>7, <1>8, BeginStep

\* Only the supervisor, and what may still fail, change.
LEMMA SupervisorStep ==
    ASSUME FilesInv, UNCHANGED <<fileVars, dbReq, catalog, acknowledged>>,
           dbLeft' \in [requests : Nat, faults : Nat, new : Nat], dbLeft'.new = dbLeft.new,
           DaemonsSound(litestream)'
    PROVE  FilesInv'
<1>1. FilesTyped' /\ FilesExist' /\ MigratedOnce' /\ RestoresAlone' /\ CreationSound'
    BY DEF FilesInv, FilesTyped, FilesExist, MigratedOnce, RestoresAlone, Restores, Reads,
           CreationSound, fileVars
<1>2. ASSUME NEW d \in Databases PROVE DatabaseSound(d)'
    BY DEF FilesInv, DatabaseSound, NameSound, HandleSound, OfFile, Apart, Holds, fileVars
<1>3. ASSUME NEW t \in DbThreads PROVE RequestSound(dbReq[t])'
    BY DEF FilesInv, RequestSound, HandleSound, OfFile, Apart, fileVars
<1> QED BY <1>1, <1>2, <1>3 DEF FilesInv

\* The end of a daemon is reported.
LEMMA WaitKeeps ==
    ASSUME FilesInv, WaitReturns
    PROVE  FilesInv'
BY ReportSound, SupervisorStep DEF WaitReturns, FilesInv, DaemonsSound, FilesTyped

\* A daemon ends by itself.
LEMMA DaemonExitKeeps ==
    ASSUME FilesInv, DaemonExits
    PROVE  FilesInv'
<1>1. PICK x \in litestream.daemons :
         litestream' = [litestream EXCEPT !.daemons = @ \ {x}, !.exits = @ \cup {x.id}]
    BY DEF DaemonExits
<1>2. DaemonsSound([litestream EXCEPT !.daemons = @ \ {x}, !.exits = @ \cup {x.id}])
    BY ExitSound DEF FilesInv
<1>3. DaemonsSound(litestream)' BY <1>1, <1>2 DEF DaemonsSound
<1>4. UNCHANGED <<fileVars, dbReq, catalog, acknowledged>> /\ DbFaultIf(TRUE)
    BY DEF DaemonExits, DbFaultIf
<1>5. dbLeft' \in [requests : Nat, faults : Nat, new : Nat] /\ dbLeft'.new = dbLeft.new
    BY <1>4, FaultLeaves
<1> QED BY <1>3, <1>4, <1>5, SupervisorStep

\* The daemon of a process that begins is the only one.
LEMMA FirstDaemon ==
    DaemonsSound(Supervisor)
BY DEF DaemonsSound, Supervisor, SupervisorState

\* A process starts, and its supervisor with the databases found on disk.
LEMMA StartsKeeps ==
    ASSUME FilesInv, ProcessStarts
    PROVE  FilesInv'
<1>1. PICK found \in SUBSET Databases :
         litestream' \in StartSupervisor(WriteGeneratedConfig([Supervisor EXCEPT !.databases = found]))
    BY DEF ProcessStarts
<1>2. PICK l : l = WriteGeneratedConfig([Supervisor EXCEPT !.databases = found]) OBVIOUS
<1>3. DaemonsSound(l)
    <2>1. l = [databases |-> found, config |-> found, cmd |-> 0, last |-> 0, daemons |-> {}, exits |-> {}]
        BY <1>2 DEF Supervisor, WriteGeneratedConfig
    <2> QED BY <2>1 DEF DaemonsSound, SupervisorState
<1>4. DaemonsSound(litestream)'
    <2>1. CASE litestream' = WriteGeneratedConfig(l)
        BY <1>3, <2>1 DEF WriteGeneratedConfig, DaemonsSound, SupervisorState
    <2>2. CASE \E o \in StartLocked(l) : litestream' = o.ls
        BY <2>2, <1>3, StartSound DEF DaemonsSound
    <2> QED BY <1>1, <1>2, <2>1, <2>2 DEF StartSupervisor
<1>5. UNCHANGED <<fileVars, dbReq, dbLeft, catalog, acknowledged>> BY DEF ProcessStarts
<1>6. dbLeft' \in [requests : Nat, faults : Nat, new : Nat] /\ dbLeft'.new = dbLeft.new
    BY <1>5 DEF FilesInv, FilesTyped
<1> QED BY <1>4, <1>5, <1>6, SupervisorStep

\* A process stops: handles, requests and daemons go, files stay.
LEMMA StopsKeeps ==
    ASSUME FilesInv, ProcessStops
    PROVE  FilesInv'
<1>1. /\ dbs' = [d \in Databases |-> 0] /\ opened' = <<>> /\ litestream' = Supervisor
      /\ dbReq' = [t \in DbThreads |-> DbIdle] /\ DbFaultIf(TRUE)
      /\ UNCHANGED <<inodes, names, replica, catalog, acknowledged>>
    BY DEF ProcessStops, DbFaultIf
<1>2. dbLeft' \in [requests : Nat, faults : Nat, new : Nat] /\ dbLeft'.new = dbLeft.new
    BY <1>1, FaultLeaves
<1>3. FilesTyped' BY <1>1, <1>2 DEF DbRequest, FilesInv, FilesTyped
<1>4. Len(opened') = 0 BY <1>1
<1>5. FilesExist' BY <1>4 DEF FilesExist
<1>6. MigratedOnce' BY <1>1 DEF FilesInv, MigratedOnce
<1>7. DaemonsSound(litestream)' BY <1>1, FirstDaemon DEF DaemonsSound
<1>8. \A t \in DbThreads : dbReq'[t].op = "idle" BY <1>1 DEF DbIdle
<1>9. RestoresAlone' BY <1>8 DEF RestoresAlone, Restores, RestoringOps
<1>10. CreationSound' BY <1>1, <1>2 DEF FilesInv, CreationSound, Databases
<1>11. ASSUME NEW d \in Databases PROVE DatabaseSound(d)'
    BY <1>1 DEF FilesInv, DatabaseSound, NameSound, Apart, Holds
<1>12. \A t \in DbThreads : RequestSound(dbReq[t])' BY <1>8 DEF RequestSound
<1> QED BY <1>3, <1>5, <1>6, <1>7, <1>9, <1>10, <1>11, <1>12 DEF FilesInv

\* The replica gets what the file holds.
LEMMA ReplicateKeeps ==
    ASSUME FilesInv, NEW d \in Databases, Replicate(d)
    PROVE  FilesInv'
<1>1. PICK i \in 1..Len(inodes) : i = names[d].path /\ i # 0 BY NameFacts DEF Replicate
<1>2. PICK now : now = inodes[i] OBVIOUS
<1>3. now \in SUBSET Statement /\ OneMigration(now)
    BY <1>2 DEF FilesInv, FilesTyped, MigratedOnce
<1>4. PICK x : x = [points |-> replica[d].points \cup {now}, latest |-> now] OBVIOUS
<1>5. replica' = [replica EXCEPT ![d] = x]
    BY <1>1, <1>2, <1>4 DEF Replicate, Content
<1>6. UNCHANGED <<inodes, names, opened, dbs, litestream, dbReq, dbLeft, catalog, acknowledged>>
    BY DEF Replicate
<1>7. replica \in [Databases -> Replica] BY DEF FilesInv, FilesTyped
<1>8. x \in Replica /\ x.points = replica[d].points \cup {now} /\ x.latest = now
    BY <1>3, <1>4, <1>7 DEF Replica
<1>9. FilesTyped' BY <1>5, <1>6, <1>7, <1>8 DEF FilesInv, FilesTyped
<1>10. FilesExist' /\ RestoresAlone' /\ CreationSound' /\ DaemonsSound(litestream)'
    BY <1>6 DEF FilesInv, FilesExist, RestoresAlone, Restores, Reads, CreationSound, DaemonsSound
<1>11. \A e \in Databases : replica'[e] = IF e = d THEN x ELSE replica[e] BY <1>5, <1>7
<1>12. MigratedOnce' BY <1>6, <1>3, <1>8, <1>11 DEF FilesInv, MigratedOnce
<1>13. ASSUME NEW e \in Databases PROVE DatabaseSound(e)'
    BY <1>1, <1>6, <1>11 DEF FilesInv, DatabaseSound, Holds, NameSound, HandleSound, OfFile,
       Apart
<1>14. ASSUME NEW t \in DbThreads PROVE RequestSound(dbReq[t])'
    BY <1>6 DEF FilesInv, RequestSound, HandleSound, OfFile, Apart
<1> QED BY <1>9, <1>10, <1>12, <1>13, <1>14 DEF FilesInv

-----------------------------------------------------------------------------
\* The start.
LEMMA FilesStart ==
    ASSUME NEW requests \in Nat, NEW creations \in {0, 1}, DatabaseFilesInit(requests, creations)
    PROVE  FilesInv
<1> DEFINE first == <<"write", 0>>
<1>1. first \in Statement /\ first[1] # "migration" BY DEF Statement
<1>2. OneMigration({}) /\ OneMigration({first}) BY <1>1 DEF OneMigration, Migrations
<1>3. /\ inodes \in Seq(SUBSET Statement) /\ Len(inodes) \in {0, 1}
      /\ \A i \in 1..Len(inodes) : inodes[i] = {first}
    <2>1. CASE inodes = <<>> BY <2>1
    <2>2. CASE inodes = <<{first}>> BY <1>1, <2>2
    <2> QED BY <2>1, <2>2 DEF DatabaseFilesInit
<1>4. replica = [d \in Databases |-> IF d = 1 THEN [points |-> {{first}}, latest |-> {first}] ELSE NoReplica]
    BY DEF DatabaseFilesInit
<1>5. acknowledged = [d \in Databases |-> IF d = 1 THEN {first} ELSE {}]
    BY DEF DatabaseFilesInit
<1> HIDE DEF first
<1>6. /\ names = [d \in Databases |-> [path |-> IF d = 1 THEN Len(inodes) ELSE 0, temp |-> 0, backup |-> 0]]
      /\ opened = <<>> /\ dbs = [d \in Databases |-> 0] /\ litestream = Supervisor
      /\ dbReq = [t \in DbThreads |-> DbIdle] /\ catalog = {1}
      /\ dbLeft = [requests |-> requests, faults |-> MaxDbFaults, new |-> creations]
    BY DEF DatabaseFilesInit
<1>7. \A d \in Databases :
         /\ names[d] \in Name /\ names[d].path = (IF d = 1 THEN Len(inodes) ELSE 0)
         /\ names[d].temp = 0 /\ names[d].backup = 0
    BY <1>3, <1>6 DEF Name
<1>8. \A d \in Databases :
         /\ replica[d] \in Replica
         /\ replica[d].points = (IF d = 1 THEN {{first}} ELSE {})
         /\ replica[d].latest = (IF d = 1 THEN {first} ELSE {})
    BY <1>1, <1>4 DEF Replica, NoReplica
<1>9. FilesTyped
    BY <1>6, <1>7, <1>4, <1>8, DatabaseFilesAssumption, <1>1, <1>5, <1>3 DEF DbRequest,
       Databases, FilesTyped
<1>10. FilesExist BY <1>6 DEF FilesExist
<1>11. MigratedOnce
    <2>1. \A i \in 1..Len(inodes) : OneMigration(inodes[i]) BY <1>2, <1>3
    <2>2. ASSUME NEW d \in Databases
          PROVE  /\ OneMigration(replica[d].latest)
                 /\ \A point \in replica[d].points : OneMigration(point)
                 /\ replica[d].points = {} => replica[d].latest = {}
        <3>1. CASE d = 1
            <4>1. replica[d].points = {{first}} /\ replica[d].latest = {first} BY <1>8, <3>1
            <4> QED BY <1>2, <4>1
        <3>2. CASE d # 1 BY <1>8, <3>2, <1>2
        <3> QED BY <3>1, <3>2
    <2> QED BY <2>1, <2>2 DEF MigratedOnce
<1>12. DaemonsSound(litestream) BY <1>6, FirstDaemon
<1>13. \A t \in DbThreads : dbReq[t].op = "idle" BY <1>6 DEF DbIdle
<1>14. RestoresAlone BY <1>13 DEF RestoresAlone, Restores, RestoringOps
<1>15. CreationSound BY <1>5, <1>6 DEF CreationSound, Databases
<1>16. ASSUME NEW d \in Databases PROVE DatabaseSound(d)
    <2>1. dbs[d] = 0 BY <1>6
    <2>2. \A i \in {names[d].path, names[d].temp, names[d].backup} : NameSound(i, d)
        BY <1>3, <1>7 DEF NameSound, Apart
    <2>3. d \in catalog => acknowledged[d] \subseteq Holds(d)
        BY <1>5, <1>6, <1>7, <1>8, <1>3 DEF Holds
    <2> QED BY <2>1, <2>2, <2>3 DEF DatabaseSound
<1>17. \A t \in DbThreads : RequestSound(dbReq[t]) BY <1>13 DEF RequestSound
<1> QED BY <1>9, <1>10, <1>11, <1>12, <1>14, <1>15, <1>16, <1>17 DEF FilesInv

\* Every step of requests, the process, the daemon and its supervisor keeps the invariant.
LEMMA FilesKeep ==
    ASSUME FilesInv, [DatabaseFilesNext]_databaseVars
    PROVE  FilesInv'
<1>1. CASE UNCHANGED databaseVars
    BY <1>1, SupervisorStep DEF databaseVars, FilesInv, DaemonsSound, FilesTyped
<1>2. CASE WaitReturns \/ DaemonExits \/ ProcessStops \/ ProcessStarts \/ \E d \in Databases : Replicate(d)
    BY <1>2, WaitKeeps, DaemonExitKeeps, StopsKeeps, StartsKeeps, ReplicateKeeps
<1>3. ASSUME NEW t \in DbThreads,
             \/ \E d \in Databases : StartRestore(t, d) \/ StartDelete(t, d)
             \/ \E d \in Databases, kind \in {"write", "migration"} : StartQuery(t, d, kind)
             \/ CreateDatabase(t)
      PROVE  FilesInv'
    BY <1>3, StartRestoreKeeps, StartDeleteKeeps, StartQueryKeeps, CreateKeeps
<1>4. ASSUME NEW t \in DbThreads,
             \/ Open(t) \/ RestoreMissing(t) \/ ConfigureDatabase(t) \/ PullReplica(t) \/ OpenFile(t)
             \/ KeepHandle(t) \/ RegisterOpened(t) \/ Execute(t)
      PROVE  FilesInv'
    BY <1>4, OpenKeeps, StatKeeps, ConfigureKeeps, PullKeeps, OpenFileKeeps, KeepHandleKeeps,
       RegisterKeeps, ExecuteKeeps
<1>5. ASSUME NEW t \in DbThreads,
             \/ RestorePrepares(t) \/ RestoreTo(t) \/ CloseHandle(t) \/ MoveAway(t) \/ MoveIn(t)
             \/ RestoreEnds(t) \/ DeleteForgets(t) \/ DeleteRemoves(t)
      PROVE  FilesInv'
    BY <1>5, ConfigureKeeps, RestoreToKeeps, CloseHandleKeeps, MoveAwayKeeps, MoveInKeeps,
       RestoreEndsKeeps, ForgetKeeps, RemoveKeeps
<1> QED BY <1>1, <1>2, <1>3, <1>4, <1>5 DEF DatabaseFilesNext

\* However requests, the daemon, faults and restarts interleave, the invariant holds.
THEOREM FilesInductive == DatabaseFilesSpec => []FilesInv
<1>1. (\E requests \in Nat, creations \in {0, 1} : DatabaseFilesInit(requests, creations)) => FilesInv
    BY FilesStart
<1>2. FilesInv /\ [DatabaseFilesNext]_databaseVars => FilesInv' BY FilesKeep
<1> QED BY <1>1, <1>2, PTL DEF DatabaseFilesSpec

\* A set whose elements are all the same has at most one.
LEMMA AtMostOne ==
    ASSUME NEW S, \A x, y \in S : x = y
    PROVE  Cardinality(S) <= 1
<1>1. CASE S = {} BY <1>1, FS_EmptySet
<1>2. CASE S # {} BY <1>2, FS_Singleton
<1> QED BY <1>1, <1>2

\* What a client was told is in a database stays in its file, or in its replica while it
\* has none; a migration is in it once; no two daemons replicate it.
THEOREM DatabasesProved == DatabaseFilesSpec => []DatabasesKept
<1>1. FilesInv => DatabasesKept
    <2> SUFFICES ASSUME FilesInv PROVE DatabasesKept OBVIOUS
    <2>1. Cardinality(litestream.daemons) <= 1
        BY AtMostOne DEF FilesInv, DaemonsSound
    <2>2. ASSUME NEW d \in catalog
          PROVE  /\ acknowledged[d] \subseteq
                       IF names[d].path # 0 THEN Content(names[d].path) ELSE replica[d].latest
                 /\ Cardinality(Migrations(Content(names[d].path))) <= 1
        <3>1. d \in Databases BY DEF FilesInv, FilesTyped
        <3>2. acknowledged[d] \subseteq Holds(d) BY <3>1 DEF FilesInv, DatabaseSound
        <3>3. OneMigration(Content(names[d].path))
            BY <3>1, NameFacts DEF Content, OneMigration, Migrations, FilesInv, MigratedOnce
        <3>4. Cardinality(Migrations(Content(names[d].path))) <= 1
            BY <3>3, AtMostOne DEF OneMigration
        <3> QED BY <3>2, <3>4 DEF Holds, Content
    <2> QED BY <2>1, <2>2 DEF DatabasesKept
<1> QED BY <1>1, FilesInductive, PTL

-----------------------------------------------------------------------------
(* The durations of requests.                                              *)

TelemetrySpec == TelemetryInit /\ [][TelemetryNext]_telemetryVars

\* Events that were accepted: no number of theirs will be given again.
EventsSound(events, left) ==
    /\ IsFiniteSet(events) /\ IsFiniteSet(Units(events))
    /\ \A e \in events : /\ e.time \in Nat /\ e.duration \in Nat
                        /\ e.id \in Nat /\ (e.id = 0 \/ e.id > left)

\* Buckets of the window have their events' number and the sum of their durations.
Counted(b, events, now) ==
    /\ DOMAIN b \subseteq Int
    /\ \A s \in {BucketOf(e.time) : e \in events} \cup DOMAIN b : InWindow(s, now) =>
           /\ s \in DOMAIN b /\ b[s].count = Cardinality(OfBucket(events, s))
           /\ b[s].total = Cardinality(Units(OfBucket(events, s)))

\* What can be loaded is exact.
SnapshotSound(file, now, left) ==
    /\ EventsSound(file.events, left)
    /\ file.version = 1 => \E e \in file.events : file.events = {e}
    /\ file.version # 1 => Counted(file.workers, file.events, now)

\* A batch that writes has a snapshot newer than the file, and at the last step the
\* temporary file is that snapshot.
WriterSound(w) ==
    /\ w = [op |-> w.op, snapshot |-> w.snapshot]
    /\ w.op # "idle" => /\ persisting
                        /\ SnapshotSound(w.snapshot, telemetryClock, batchesLeft) /\ w.snapshot.version = 2
                        /\ w.snapshot.number \in 0..(MaxBatches - batchesLeft + 1)
    /\ w.op \in {"write", "close", "rename"} => newestOnDisk < w.snapshot.number
    /\ w.op = "rename" => tmpFile = w.snapshot

\* One batch writes at a time.
OneWriter ==
    \A r, u \in Batches : batch[r].op # "idle" /\ batch[u].op # "idle" => r = u

TelemetryTyped ==
    /\ telemetryClock \in Nat /\ batchesLeft \in 0..MaxBatches /\ persisting \in BOOLEAN
    /\ newestOnDisk \in 0..(MaxBatches - batchesLeft + 1)
    /\ batch = [r \in Batches |-> batch[r]]

TelemetryInv ==
    /\ TelemetryTyped /\ EventsSound(recorded, batchesLeft) /\ Counted(buckets, recorded, telemetryClock)
    /\ SnapshotSound(diskFile, telemetryClock, batchesLeft) /\ SnapshotNewest
    /\ OneWriter /\ \A r \in Batches : WriterSound(batch[r])

-----------------------------------------------------------------------------
(* Counting.                                                               *)

\* A bucket begins less than its size before the events in it.
LEMMA BucketFacts ==
    ASSUME NEW time \in Nat
    PROVE  BucketOf(time) \in Int /\ BucketOf(time) <= time /\ time < BucketOf(time) + BucketSize
BY TelemetryAssumption DEF BucketOf

\* What has left the window does not come back.
LEMMA WindowLater ==
    ASSUME NEW s \in Int, NEW now \in Nat, NEW later \in Nat, now <= later, InWindow(s, later)
    PROVE  InWindow(s, now)
BY TelemetryAssumption DEF InWindow

\* As time goes on, counts stay right.
LEMMA CountedLater ==
    ASSUME NEW b, NEW events, NEW now \in Nat, NEW later \in Nat, now <= later,
           Counted(b, events, now), \A e \in events : e.time \in Nat
    PROVE  Counted(b, events, later)
BY BucketFacts, WindowLater DEF Counted

\* Dropping what has left the window changes nothing of it.
LEMMA PruneCounted ==
    ASSUME NEW b, NEW events, NEW now, Counted(b, events, now)
    PROVE  Counted(PruneWorkerLocked(b, now), events, now)
BY DEF PruneWorkerLocked, Counted

\* There are d numbers from 1 to d.
LEMMA UpTo ==
    ASSUME NEW d \in Nat
    PROVE  IsFiniteSet(1..d) /\ Cardinality(1..d) = d
BY FS_Interval

\* The units of one event more.
LEMMA UnitsOfOneMore ==
    ASSUME NEW events, IsFiniteSet(Units(events)), NEW e, e \notin events, e.duration \in Nat
    PROVE  /\ IsFiniteSet(Units(events \cup {e}))
           /\ Cardinality(Units(events \cup {e})) = Cardinality(Units(events)) + e.duration
<1>1. PICK d \in Nat : d = e.duration OBVIOUS
<1>2. PICK more : more = {e} \X (1..d) OBVIOUS
<1>3. Units(events \cup {e}) = Units(events) \cup more BY <1>1, <1>2 DEF Units
<1>4. Units(events) \cap more = {} BY <1>2 DEF Units
<1>5. IsFiniteSet({e}) /\ Cardinality({e}) = 1 BY FS_Singleton
<1>6. IsFiniteSet(1..d) /\ Cardinality(1..d) = d BY UpTo
<1>7. IsFiniteSet(more) /\ Cardinality(more) = d BY <1>2, <1>5, <1>6, FS_Product
<1>8. Cardinality(Units(events)) \in Nat BY FS_CardinalityType
<1>9. Cardinality(Units(events) \cap more) = 0 BY <1>4, FS_EmptySet
<1>10. /\ IsFiniteSet(Units(events) \cup more)
       /\ Cardinality(Units(events) \cup more)
             = Cardinality(Units(events)) + Cardinality(more) - Cardinality(Units(events) \cap more)
    BY <1>7, FS_Union
<1>11. Cardinality(Units(events) \cup more) = Cardinality(Units(events)) + d
    BY <1>7, <1>8, <1>9, <1>10
<1> QED BY <1>1, <1>3, <1>10, <1>11

\* No event, no units.
LEMMA NoUnits == Units({}) = {}
BY DEF Units

\* The events of a bucket have a part of the units of all.
LEMMA UnitsOfBucket ==
    ASSUME NEW events, IsFiniteSet(Units(events)), NEW s
    PROVE  IsFiniteSet(Units(OfBucket(events, s)))
BY FS_Subset DEF Units, OfBucket

\* An event that is new and accepted is counted once more, in its bucket; any other
\* changes nothing.
LEMMA RecordCounted ==
    ASSUME NEW b, NEW events, NEW now \in Nat, NEW e, Counted(b, events, now),
           IsFiniteSet(events), IsFiniteSet(Units(events)), \A x \in events : x.time \in Nat,
           e \notin events, e.time \in Nat, e.duration \in Nat
    PROVE  Counted(RecordLocked(b, e, now), IF Accepted(e, now) THEN events \cup {e} ELSE events, now)
<1>1. CASE ~Accepted(e, now) BY <1>1 DEF RecordLocked
<1>2. CASE Accepted(e, now)
    <2>1. PICK start \in Int : start = BucketOf(e.time) BY BucketFacts
    <2> DEFINE old == IF start \in DOMAIN b THEN b[start] ELSE [count |-> 0, total |-> 0]
    <2>2. PICK new : new =
             [s \in DOMAIN b \cup {start} |->
                 IF s # start THEN b[s]
                 ELSE [count |-> old.count + 1, total |-> old.total + e.duration]]
        OBVIOUS
    <2>3. RecordLocked(b, e, now) = IF new[start].count = 1 THEN PruneWorkerLocked(new, now) ELSE new
        BY <1>2, <2>1, <2>2 DEF RecordLocked
    <2>4. InWindow(start, now)
        BY <2>1, BucketFacts, <1>2, TelemetryAssumption DEF Accepted, InWindow
    <2>5. PICK all : all = events \cup {e} OBVIOUS
    <2>6. /\ OfBucket(all, start) = OfBucket(events, start) \cup {e} /\ e \notin OfBucket(events, start)
          /\ \A s : s # start => OfBucket(all, s) = OfBucket(events, s)
        BY <2>1, <2>5 DEF OfBucket
    <2>7. IsFiniteSet(OfBucket(events, start)) BY FS_Subset DEF OfBucket
    <2>8. Cardinality(OfBucket(all, start)) = Cardinality(OfBucket(events, start)) + 1
        BY <2>6, <2>7, FS_AddElement
    <2>9. Cardinality(Units(OfBucket(all, start)))
              = Cardinality(Units(OfBucket(events, start))) + e.duration
        BY <2>6, UnitsOfBucket, UnitsOfOneMore
    <2>10. DOMAIN new = DOMAIN b \cup {start} /\ \A s \in DOMAIN b : s # start => new[s] = b[s]
        BY <2>2
    <2>11. /\ new[start].count = Cardinality(OfBucket(all, start))
           /\ new[start].total = Cardinality(Units(OfBucket(all, start)))
        BY <2>2, <2>4, <2>8, <2>9, NoUnits, FS_EmptySet DEF Counted, OfBucket
    <2>12. Counted(new, all, now)
        <3>1. DOMAIN new \subseteq Int BY <2>10 DEF Counted
        <3>2. ASSUME NEW s \in {BucketOf(x.time) : x \in all} \cup DOMAIN new, InWindow(s, now)
              PROVE  /\ s \in DOMAIN new /\ new[s].count = Cardinality(OfBucket(all, s))
                     /\ new[s].total = Cardinality(Units(OfBucket(all, s)))
            <4>1. CASE s = start BY <2>10, <2>11, <4>1
            <4>2. CASE s # start BY <2>1, <2>5, <2>10, <4>2, <3>2, <2>6 DEF Counted
            <4> QED BY <4>1, <4>2
        <3> QED BY <3>1, <3>2 DEF Counted
    <2> QED BY <1>2, <2>3, <2>5, <2>12, PruneCounted
<1> QED BY <1>1, <1>2

\* Events and one more.
LEMMA EventMore ==
    ASSUME NEW events, NEW left, EventsSound(events, left), NEW e, e \notin events,
           e.time \in Nat, e.duration \in Nat, e.id \in Nat, e.id = 0 \/ e.id > left
    PROVE  EventsSound(events \cup {e}, left)
BY FS_AddElement, UnitsOfOneMore DEF EventsSound

\* No event, nothing to be sound.
LEMMA NoEvents == ASSUME NEW left PROVE EventsSound({}, left)
BY NoUnits, FS_EmptySet DEF EventsSound

\* Loading.
LEMMA EmptyCounted ==
    ASSUME NEW now
    PROVE  Counted(NoBuckets, {}, now)
BY DEF Counted, NoBuckets

\* What a process loads is exact, in the format of either release.
LEMMA LoadedCounted ==
    ASSUME NEW file, NEW now \in Nat, NEW left, SnapshotSound(file, now, left)
    PROVE  LET events == IF file.version # 1 THEN file.events
                         ELSE {e \in file.events : Accepted(e, now)}
           IN  Counted(Loaded(file, now), events, now) /\ EventsSound(events, left)
<1>1. CASE file.version # 1 BY <1>1 DEF SnapshotSound, Loaded
<1>2. CASE file.version = 1
    <2>1. PICK e : file.events = {e} BY <1>2 DEF SnapshotSound
    <2>2. (CHOOSE x \in file.events : TRUE) = e BY <2>1
    <2>3. Loaded(file, now) = RecordLocked(NoBuckets, e, now)
        BY <1>2, <2>2 DEF Loaded
    <2>4. e.time \in Nat /\ e.duration \in Nat /\ EventsSound({e}, left)
        BY <2>1 DEF SnapshotSound, EventsSound
    <2>5. PICK events : events = IF Accepted(e, now) THEN {e} ELSE {} OBVIOUS
    <2>6. {x \in file.events : Accepted(x, now)} = events BY <2>1, <2>5
    <2>7. Counted(RecordLocked(NoBuckets, e, now), events, now)
        BY NoUnits, FS_EmptySet, <2>4, EmptyCounted, RecordCounted, <2>5
    <2>8. EventsSound(events, left) BY <2>4, <2>5, NoEvents
    <2> QED BY <1>2, <2>3, <2>6, <2>7, <2>8
<1> QED BY <1>1, <1>2

\* What is sound stays so: time only goes on, and numbers that were given stay given.
LEMMA EventsLater ==
    ASSUME NEW events, NEW left \in Nat, NEW fewer \in Nat, fewer <= left,
           EventsSound(events, left)
    PROVE  EventsSound(events, fewer)
BY DEF EventsSound

\* So do snapshots.
LEMMA SnapshotLater ==
    ASSUME NEW file, NEW now \in Nat, NEW left \in Nat, SnapshotSound(file, now, left),
           NEW later \in Nat, NEW fewer \in Nat, now <= later, fewer <= left
    PROVE  SnapshotSound(file, later, fewer)
BY EventsLater, CountedLater DEF SnapshotSound, EventsSound

-----------------------------------------------------------------------------
(* Steps.                                                                  *)

\* No step of a batch and no file.
LEMMA IdleKeeps ==
    ASSUME TelemetryInv, telemetryClock' \in Nat, telemetryClock <= telemetryClock',
           UNCHANGED <<persisting, batch, tmpFile, diskFile, batchesLeft, recorded, newestOnDisk>>,
           Counted(buckets', recorded, telemetryClock')
    PROVE  TelemetryInv'
BY TelemetryAssumption, SnapshotLater DEF TelemetryInv, TelemetryTyped, OneWriter,
   SnapshotNewest, WriterSound

\* Reading the statistics only prunes.
LEMMA StatsKeeps == TelemetryInv /\ Stats => TelemetryInv'
BY PruneCounted, IdleKeeps DEF TelemetryInv, Stats, TelemetryTyped

\* Time only takes buckets out of the window.
LEMMA TickKeeps == TelemetryInv /\ TelemetryTick => TelemetryInv'
BY CountedLater, IdleKeeps DEF TelemetryInv, TelemetryTyped, TelemetryTick, EventsSound

\* The interval changes nothing that is asked.
LEMMA IntervalKeeps == TelemetryInv /\ IntervalPasses => TelemetryInv'
BY IdleKeeps DEF TelemetryInv, TelemetryTyped, IntervalPasses

\* Nothing is asked of a batch that does not write.
LEMMA IdleSound == WriterSound(IdleBatch) /\ WriterSound(IdleBatch)'
BY DEF WriterSound, IdleBatch

\* A process that starts goes back to the file, whose snapshot is exact.
LEMMA RestartKeeps == TelemetryInv /\ Restart => TelemetryInv'
<1> SUFFICES ASSUME TelemetryInv, Restart PROVE TelemetryInv' OBVIOUS
<1>1. /\ telemetryClock \in Nat
      /\ SnapshotSound(diskFile, telemetryClock, batchesLeft)
    BY DEF TelemetryInv, TelemetryTyped
<1>2. Counted(buckets', recorded', telemetryClock) /\ EventsSound(recorded', batchesLeft)
    BY <1>1, LoadedCounted DEF Restart
<1>3. TelemetryTyped' /\ OneWriter' /\ SnapshotNewest'
    BY DEF TelemetryInv, TelemetryTyped, OneWriter, SnapshotNewest, Restart, IdleBatch
<1>4. \A r \in Batches : WriterSound(batch[r])' BY IdleSound DEF Restart, WriterSound, IdleBatch
<1> QED BY <1>1, <1>2, <1>3, <1>4 DEF TelemetryInv, Restart

\* An event of a batch has a number that was never given, so it is counted once; the
\* snapshot a batch takes is newer than any other.
LEMMA RecordKeeps ==
    ASSUME TelemetryInv, NEW r \in Batches, NEW time \in 0..MaxTelemetryClock + 1,
           NEW duration \in Durations, RecordBatch(r, time, duration)
    PROVE  TelemetryInv'
<1>1. PICK e : e = [id |-> batchesLeft, time |-> IF time > 0 THEN time ELSE telemetryClock,
                    duration |-> duration]
    OBVIOUS
<1>2. PICK b : b = RecordLocked(buckets, e, telemetryClock) OBVIOUS
<1>3. PICK all : all = IF Accepted(e, telemetryClock) THEN recorded \cup {e} ELSE recorded OBVIOUS
<1>4. /\ batch[r].op = "idle" /\ batchesLeft > 0 /\ batchesLeft' = batchesLeft - 1
      /\ buckets' = b /\ recorded' = all
      /\ IF Persists
         THEN /\ persisting' = TRUE
              /\ batch' = [batch EXCEPT ![r] = [op |-> "write", snapshot |->
                              [version |-> 2, workers |-> b, events |-> all,
                               number |-> MaxBatches - batchesLeft + 2]]]
         ELSE UNCHANGED <<persisting, batch>>
      /\ UNCHANGED <<tmpFile, diskFile, telemetryClock, newestOnDisk>>
    BY <1>1, <1>2, <1>3 DEF RecordBatch
<1>5. /\ telemetryClock \in Nat /\ MaxBatches \in Nat /\ MaxTelemetryClock \in Nat
      /\ batchesLeft \in 1..MaxBatches
      /\ batchesLeft' \in 0..MaxBatches /\ batchesLeft' <= batchesLeft
    BY <1>4, TelemetryAssumption DEF TelemetryInv, TelemetryTyped
<1>6. e.time \in Nat /\ e.duration \in Nat /\ e.id = batchesLeft
    BY <1>1, <1>5, TelemetryAssumption
<1>7. IsFiniteSet(recorded) /\ IsFiniteSet(Units(recorded)) /\ e \notin recorded /\ \A x \in recorded : x.time \in Nat
    BY <1>5, <1>6 DEF TelemetryInv, EventsSound
<1>8. Counted(b, all, telemetryClock)
    BY <1>2, <1>3, <1>5, <1>6, <1>7, RecordCounted DEF TelemetryInv
<1>9. EventsSound(all, batchesLeft')
    BY <1>5, EventsLater, <1>4, <1>6, <1>7, EventMore, <1>3 DEF TelemetryInv
<1>10. \A file : SnapshotSound(file, telemetryClock, batchesLeft)
                     => SnapshotSound(file, telemetryClock, batchesLeft')
    BY <1>5, SnapshotLater
<1>11. SnapshotSound(diskFile, telemetryClock, batchesLeft)' BY <1>4, <1>10 DEF TelemetryInv
<1>12. TelemetryTyped' /\ SnapshotNewest'
    <2>1. newestOnDisk \in 0..(MaxBatches - batchesLeft + 1) /\ persisting \in BOOLEAN
        BY DEF TelemetryInv, TelemetryTyped
    <2>2. newestOnDisk' \in 0..(MaxBatches - batchesLeft' + 1) BY <1>4, <1>5, <2>1
    <2>3. batch' = [u \in Batches |-> batch'[u]]
        BY <1>4 DEF TelemetryInv, TelemetryTyped
    <2>4. persisting' \in BOOLEAN BY <1>4, <2>1
    <2> QED BY <1>4, <1>5, <2>2, <2>3, <2>4 DEF TelemetryInv, TelemetryTyped, SnapshotNewest
<1>13. \A u \in Batches : WriterSound(batch[u]) /\ (batch[u].op # "idle" => persisting)
    BY DEF TelemetryInv, WriterSound
<1>14. ASSUME NEW u \in Batches, batch'[u] = batch[u] PROVE WriterSound(batch[u])'
    BY <1>13, <1>4, <1>5, <1>10, <1>14 DEF Persists, WriterSound
<1>15. CASE Persists
    <2>1. PICK file : file = [version |-> 2, workers |-> b, events |-> all,
                              number |-> MaxBatches - batchesLeft + 2]
        OBVIOUS
    <2>2. batch' = [batch EXCEPT ![r] = [op |-> "write", snapshot |-> file]] /\ persisting' = TRUE
        BY <1>4, <1>15, <2>1
    <2>3. /\ DOMAIN batch = Batches /\ batch'[r] = [op |-> "write", snapshot |-> file]
          /\ \A u \in Batches \ {r} : batch'[u] = batch[u]
        BY <2>2 DEF TelemetryInv, TelemetryTyped
    <2>4. SnapshotSound(file, telemetryClock, batchesLeft') BY <1>8, <1>9, <2>1 DEF SnapshotSound
    <2>5. newestOnDisk' < file.number /\ file.number \in 0..(MaxBatches - batchesLeft' + 1)
        BY <1>4, <1>5, <2>1 DEF TelemetryInv, TelemetryTyped
    <2>6. WriterSound(batch[r])'
        BY <1>4, <2>1, <2>2, <2>3, <2>4, <2>5 DEF WriterSound
    <2>7. OneWriter' BY <1>13, <1>15, <2>3 DEF OneWriter, Persists
    <2>8. \A u \in Batches : WriterSound(batch[u])' BY <1>14, <2>3, <2>6
    <2> QED BY <1>4, <1>8, <1>9, <1>11, <1>12, <2>7, <2>8 DEF TelemetryInv
<1>16. CASE ~Persists BY <1>4, <1>16, <1>14, <1>8, <1>9, <1>11, <1>12 DEF TelemetryInv, OneWriter
<1> QED BY <1>15, <1>16

\* The steps of a write.  The batch that writes is the only one that is not idle, so
\* they need to be right about its own record only.
LEMMA WriteStep ==
    ASSUME TelemetryInv, NEW r \in Batches, batch[r].op # "idle",
           NEW w, batch' = [batch EXCEPT ![r] = w], WriterSound(w)',
           UNCHANGED <<buckets, telemetryClock, batchesLeft, recorded>>, persisting' \in BOOLEAN,
           newestOnDisk' \in 0..(MaxBatches - batchesLeft + 1),
           SnapshotSound(diskFile', telemetryClock, batchesLeft), SnapshotNewest'
    PROVE  TelemetryInv'
<1>1. /\ DOMAIN batch = Batches /\ batch'[r] = w
      /\ \A u \in Batches \ {r} : batch'[u] = batch[u]
    BY DEF TelemetryInv, TelemetryTyped
<1>2. \A u \in Batches \ {r} : batch[u].op = "idle" BY DEF TelemetryInv, OneWriter
<1>3. TelemetryTyped' BY DEF TelemetryInv, TelemetryTyped
<1>4. OneWriter' BY <1>1, <1>2 DEF OneWriter
<1>5. ASSUME NEW u \in Batches PROVE WriterSound(batch[u])'
    BY <1>1, <1>2 DEF WriterSound, TelemetryInv
<1> QED BY <1>3, <1>4, <1>5 DEF TelemetryInv

\* The steps of persistSnapshot: what is renamed is the whole snapshot of the one batch that
\* writes, and it is newer than the file.
LEMMA PersistKeeps ==
    ASSUME TelemetryInv, NEW r \in Batches, PersistSnapshot(r)
    PROVE  TelemetryInv'
<1>1. PICK v : v = batch[r] OBVIOUS
<1>2. WriterSound(v) /\ v.op \in {"write", "close", "rename"}
    BY <1>1 DEF TelemetryInv, PersistSnapshot
<1>3. /\ DOMAIN batch = Batches /\ telemetryClock \in Nat /\ batchesLeft \in 0..MaxBatches
      /\ newestOnDisk \in 0..(MaxBatches - batchesLeft + 1)
      /\ SnapshotSound(diskFile, telemetryClock, batchesLeft) /\ SnapshotNewest
    BY DEF TelemetryInv, TelemetryTyped
<1>4. PICK op : op = IF v.op = "write" THEN "close" ELSE IF v.op = "close" THEN "rename" ELSE "written"
    OBVIOUS
<1>5. PICK w : w = [op |-> op, snapshot |-> v.snapshot] OBVIOUS
<1>6. [v EXCEPT !.op = op] = w BY <1>2, <1>5 DEF WriterSound
<1>7. batch' = [batch EXCEPT ![r] = w] BY <1>1, <1>2, <1>4, <1>6 DEF PersistSnapshot
<1>8. /\ UNCHANGED <<buckets, persisting, telemetryClock, batchesLeft, recorded>>
      /\ persisting' \in BOOLEAN /\ v.op # "idle"
    BY <1>2 DEF PersistSnapshot, TelemetryInv, TelemetryTyped
<1>9. /\ persisting /\ SnapshotSound(v.snapshot, telemetryClock, batchesLeft)
      /\ v.snapshot.version = 2 /\ v.snapshot.number \in 0..(MaxBatches - batchesLeft + 1)
      /\ newestOnDisk < v.snapshot.number
    BY <1>2 DEF WriterSound
<1>10. CASE v.op = "rename"
    <2>1. diskFile' = v.snapshot BY <1>1, <1>2, <1>10 DEF WriterSound, PersistSnapshot
    <2>2. newestOnDisk' = v.snapshot.number BY <1>1, <1>9, <1>10 DEF PersistSnapshot
    <2>3. SnapshotNewest' BY <1>9, <2>1, <2>2 DEF SnapshotNewest, Partial
    <2>4. op = "written" BY <1>4, <1>10
    <2>5. WriterSound(w)' BY <1>5, <1>8, <1>9, <2>4 DEF WriterSound
    <2> QED BY <1>1, <1>7, <1>8, <1>9, <2>1, <2>2, <2>3, <2>5, WriteStep
<1>11. CASE v.op # "rename"
    <2>1. UNCHANGED <<diskFile, newestOnDisk>> BY <1>1, <1>11 DEF PersistSnapshot
    <2>2. op \in {"close", "rename"} /\ (op = "rename" => tmpFile' = v.snapshot)
        BY <1>1, <1>2, <1>4, <1>11 DEF PersistSnapshot
    <2>3. WriterSound(w)' BY <1>5, <1>8, <1>9, <2>1, <2>2 DEF WriterSound
    <2>4. SnapshotNewest' BY <1>3, <2>1 DEF SnapshotNewest
    <2> QED BY <1>1, <1>3, <1>7, <1>8, <2>1, <2>3, <2>4, WriteStep
<1> QED BY <1>10, <1>11

\* A write that fails and one that is over leave the batch idle.
LEMMA WriteEnds ==
    ASSUME TelemetryInv, NEW r \in Batches, PersistFails(r) \/ BatchDone(r)
    PROVE  TelemetryInv'
<1>1. /\ batch[r].op # "idle" /\ batch' = [batch EXCEPT ![r] = IdleBatch] /\ persisting' = FALSE
      /\ UNCHANGED <<buckets, diskFile, telemetryClock, batchesLeft, recorded, newestOnDisk>>
    BY DEF PersistFails, BatchDone
<1>2. PICK w : w = IdleBatch OBVIOUS
<1>3. WriterSound(w)' BY <1>2 DEF WriterSound, IdleBatch
<1>4. /\ newestOnDisk' \in 0..(MaxBatches - batchesLeft + 1)
      /\ SnapshotSound(diskFile', telemetryClock, batchesLeft) /\ SnapshotNewest'
    BY <1>1 DEF TelemetryInv, TelemetryTyped, SnapshotNewest
<1> QED BY <1>1, <1>2, <1>3, <1>4, WriteStep

\* The start: no file, or one that an older release left with the event of one request.
LEMMA TelemetryStart == TelemetryInit => TelemetryInv
<1> SUFFICES ASSUME TelemetryInit PROVE TelemetryInv OBVIOUS
<1>1. telemetryClock = 2 /\ batchesLeft = MaxBatches /\ MaxBatches \in Nat
    BY TelemetryAssumption DEF TelemetryInit
<1>2. PICK file \in {NoFile, [NoFile EXCEPT !.version = 1,
                                            !.events = {[id |-> 0, time |-> 1, duration |-> 1]}]} :
          /\ diskFile = file /\ buckets = Loaded(file, 2) /\ recorded = file.events
    BY DEF TelemetryInit
<1>3. PICK e : e = [id |-> 0, time |-> 1, duration |-> 1] OBVIOUS
<1>4. \/ file.version = 0 /\ file.events = {} /\ file.workers = NoBuckets /\ file.number = 0
      \/ file.version = 1 /\ file.events = {e} /\ file.number = 0
    <2>1. PICK none : none = NoBuckets OBVIOUS
    <2>2. NoFile = [version |-> 0, workers |-> none, events |-> {}, number |-> 0]
        BY <2>1 DEF NoFile
    <2>3. file \in {NoFile, [NoFile EXCEPT !.version = 1, !.events = {e}]} BY <1>2, <1>3, Zenon
    <2>4. CASE file = NoFile BY <2>1, <2>2, <2>4
    <2>5. CASE file = [NoFile EXCEPT !.version = 1, !.events = {e}] BY <2>2, <2>5
    <2> QED BY <2>3, <2>4, <2>5
<1>6. SnapshotSound(file, 2, batchesLeft)
    <2>1. CASE file.version = 0 BY <1>4, <2>1, NoEvents, EmptyCounted DEF SnapshotSound
    <2>2. CASE file.version = 1 BY <1>3, <1>4, <2>2, NoEvents, EventMore DEF SnapshotSound
    <2> QED BY <1>4, <2>1, <2>2
<1>7. (IF file.version # 1 THEN file.events ELSE {x \in file.events : Accepted(x, 2)}) = file.events
    BY <1>3, TelemetryAssumption, <1>4 DEF Accepted
<1>8. Counted(buckets, recorded, telemetryClock) /\ EventsSound(recorded, batchesLeft)
    BY <1>1, <1>2, <1>6, <1>7, LoadedCounted
<1>9. SnapshotNewest BY <1>2, <1>4 DEF Partial, TelemetryInit, SnapshotNewest
<1>10. TelemetryTyped
    <2>1. batch = [r \in Batches |-> batch[r]] BY DEF TelemetryInit
    <2>2. newestOnDisk = 0 /\ persisting = FALSE BY DEF TelemetryInit
    <2>3. persisting \in BOOLEAN BY <2>2
    <2>4. /\ telemetryClock \in Nat /\ batchesLeft \in 0..MaxBatches
          /\ newestOnDisk \in 0..(MaxBatches - batchesLeft + 1)
        BY <1>1, <2>2
    <2> QED BY <2>1, <2>3, <2>4 DEF TelemetryTyped
<1>11. \A r \in Batches : batch[r] = IdleBatch BY DEF TelemetryInit
<1>12. IdleBatch.op = "idle" BY DEF IdleBatch
<1>13. OneWriter BY <1>11, <1>12 DEF OneWriter
<1>14. \A r \in Batches : WriterSound(batch[r]) BY <1>11, IdleSound
<1> QED BY <1>1, <1>2, <1>6, <1>8, <1>9, <1>10, <1>13, <1>14 DEF TelemetryInv

\* The invariant holds throughout.
THEOREM TelemetryInductive == TelemetrySpec => []TelemetryInv
<1>1. TelemetryInv /\ [TelemetryNext]_telemetryVars => TelemetryInv'
    BY IdleKeeps, StatsKeeps, RestartKeeps, TickKeeps, IntervalKeeps, RecordKeeps, PersistKeeps,
       WriteEnds DEF TelemetryInv, telemetryVars, TelemetryTyped, TelemetryNext
<1> QED BY <1>1, TelemetryStart, PTL DEF TelemetrySpec

\* Statistics count every accepted event of the window once, with the time it took, across
\* pruning, failed writes and restarts, and the file is the newest snapshot whichever batch
\* wrote it.
THEOREM TelemetryProved == TelemetrySpec => []TelemetryExact
<1>1. TelemetryInv => TelemetryExact
    BY DEF TelemetryInv, Counted, TelemetryExact, EventsCounted, DurationsSummed, Starts
<1> QED BY <1>1, TelemetryInductive, PTL

-----------------------------------------------------------------------------
(***************************************************************************)
(* Proofs about SigningKeys, for any number of verifications, tokens,      *)
(* rotations and seconds: a verdict that ends a browser session is based   *)
(* on keys the provider published after it had signed the token.           *)
(***************************************************************************)

SigningSpec == SigningInit /\ [][SigningNext]_signingVars

Fetching == {"discover", "fetch", "fetched"}
Verdicts == {"verified", "invalid", "stale", "error"}
Steps == Fetching \cup Verdicts \cup {"load", "wait"}
KidsNamed == Kids \cup {""}
Idle == [op : {"idle"}]
Received == [op : {"token"}, kid : KidsNamed, key : Nat, iat : Nat]
Begun == [op : Steps, force : BOOLEAN, kid : KidsNamed, key : Nat, iat : Nat]
KeyTables == UNION {[D -> Nat] : D \in SUBSET Kids}
KeySet == [keys : KeyTables, keptAfter : SUBSET Verifications,
           fetchedAfter : SUBSET Verifications, fetchedSecond : Nat]

\* Every variable the argument uses has its type.
SigningTyped ==
    /\ published \in KeyTables /\ rotations \in Nat /\ second \in Nat
    /\ cachedKeys \in KeySet /\ incoming \in KeySet
    /\ verification \in [Verifications -> Idle \cup Received \cup Begun]

\* A key is published under one id, and a key of the next rotation is new.
KeysDistinct ==
    /\ \A k \in DOMAIN published : published[k] <= NewestKey
    /\ \A j, k \in DOMAIN published : published[j] = published[k] => j = k

Named(t) == ~Verifying(t, "idle") /\ verification[t].kid # ""

\* A key table has the key of t's token under the id the token names, or the provider
\* no longer publishes that key.
Offers(keys, t) ==
    LET r == verification[t]
    IN  (r.kid \in DOMAIN keys /\ keys[r.kid] = r.key) \/ r.key \in retired

\* The provider itself offers every token its key.
TokensOffered == \A t \in Verifications : Named(t) => Offers(published, t)

\* A set that may reject a token was fetched after the token was signed, so that it
\* offers the token its key.
MayReject(set, t) ==
    \/ t \in set.fetchedAfter /\ ~Verifying(t, "token")
    \/ verification[t].iat # 0 /\ verification[t].iat < set.fetchedSecond
RejectsKnowing(set) ==
    \A t \in Verifications : Named(t) /\ MayReject(set, t) => Offers(set.keys, t)

\* The keys of the fetch under way are there once it was answered; one fetch at a time.
FetchSound ==
    /\ \A t \in Verifications : verification[t].op \in Fetching => keysMu = {t}
    /\ (\E t \in Verifications : Verifying(t, "fetched")) => RejectsKnowing(incoming)

\* No token and no set is from the future.
ClockSound ==
    /\ cachedKeys.fetchedSecond <= second /\ incoming.fetchedSecond <= second
    /\ \A t \in Verifications : ~Verifying(t, "idle") => verification[t].iat <= second

SigningInv ==
    /\ SigningTyped /\ KeysDistinct /\ TokensOffered
    /\ RejectsKnowing(cachedKeys) /\ FetchSound /\ ClockSound /\ RefusedMeansRetired

-----------------------------------------------------------------------------

\* The empty set of keys, before the first fetch.
LEMMA NoKeysTyped == NoKeys \in KeySet
BY DEF KeyTables, NoKeys, KeySet

\* What a thread is about tells the shape of its record.
LEMMA VerificationShapes ==
    ASSUME SigningTyped, NEW t \in Verifications
    PROVE  /\ Verifying(t, "idle") \/ Verifying(t, "token") \/ verification[t] \in Begun
           /\ verification[t].op \in Steps <=> verification[t] \in Begun
           /\ Verifying(t, "token") => verification[t] \in Received
           /\ ~Verifying(t, "idle") => /\ verification[t].kid \in KidsNamed
                                       /\ verification[t].key \in Nat
                                       /\ verification[t].iat \in Nat
BY DEF SigningTyped, Idle, Received, Begun, Steps, Fetching, Verdicts, Verifying

\* Thread t turns to its next operation with the token it has.
TurnsOn(t) ==
    /\ verification[t] \in Begun /\ verification'[t] \in Begun
    /\ verification'[t].kid = verification[t].kid /\ verification'[t].key = verification[t].key
    /\ verification'[t].iat = verification[t].iat
    /\ verification' = [verification EXCEPT ![t] = verification'[t]]

\* Such a step of thread t leaves every token, and who may be rejected by a set.
LEMMA TokensStay ==
    ASSUME SigningInv, NEW t \in Verifications, TurnsOn(t), UNCHANGED <<published, retired, rotations>>
    PROVE  /\ verification' \in [Verifications -> Idle \cup Received \cup Begun]
           /\ \A u \in Verifications :
                /\ Named(u)' <=> Named(u)
                /\ Verifying(u, "idle")' <=> Verifying(u, "idle")
                /\ Verifying(u, "token")' <=> Verifying(u, "token")
                /\ verification'[u].kid = verification[u].kid
                /\ verification'[u].key = verification[u].key
                /\ verification'[u].iat = verification[u].iat
                /\ u # t => verification'[u] = verification[u]
           /\ KeysDistinct' /\ TokensOffered'
<1>1. verification \in [Verifications -> Idle \cup Received \cup Begun] BY DEF SigningInv, SigningTyped
<1>2. verification' \in [Verifications -> Idle \cup Received \cup Begun] BY <1>1 DEF TurnsOn
<1>3. verification[t].op \in Steps /\ verification'[t].op \in Steps BY DEF TurnsOn, Begun
<1>4. \A u \in Verifications : u # t => verification'[u] = verification[u] BY <1>1 DEF TurnsOn
<1>5. \A u \in Verifications :
        /\ Verifying(u, "idle")' <=> Verifying(u, "idle")
        /\ Verifying(u, "token")' <=> Verifying(u, "token")
        /\ verification'[u].kid = verification[u].kid
        /\ verification'[u].key = verification[u].key
        /\ verification'[u].iat = verification[u].iat
  BY <1>3, <1>4 DEF TurnsOn, Verifying, Steps, Fetching, Verdicts
<1>6. \A u \in Verifications : Named(u)' <=> Named(u) BY <1>5 DEF Named
<1>7. KeysDistinct' BY DEF SigningInv, KeysDistinct, NewestKey
<1>8. TokensOffered' BY <1>5, <1>6 DEF SigningInv, TokensOffered, Offers
<1> QED BY <1>2, <1>4, <1>5, <1>6, <1>7, <1>8

\* A verdict of invalid from a set that rejects knowingly is about a retired key.
LEMMA VerdictSound ==
    ASSUME SigningInv, NEW t \in Verifications, verification[t] \in Begun, NEW set \in KeySet,
           RejectsKnowing(set)
    PROVE  /\ Judged(t, verification[t], set) \in {"verified", "load", "invalid", "stale"}
           /\ Judged(t, verification[t], set) = "invalid" /\ verification[t].kid # "" =>
                verification[t].key \in retired
<1>1. ~Verifying(t, "idle") /\ ~Verifying(t, "token")
  BY DEF Begun, Steps, Fetching, Verdicts, Verifying
<1>2. Judged(t, verification[t], set) \in {"verified", "load", "invalid", "stale"} BY DEF Judged
<1>3. ASSUME Judged(t, verification[t], set) = "invalid", verification[t].kid # "",
             verification[t].key \notin retired
      PROVE  FALSE
    BY <1>3, <1>1 DEF Judged, CanReject, MayReject, RejectsKnowing, Named, Offers,
       SelectSigningKey, VerifySignatureWithKey
<1> QED BY <1>2, <1>3

\* The step that judges a token, and what it concludes.
LEMMA JudgesSound ==
    ASSUME SigningInv, NEW t \in Verifications, verification[t] \in Begun, NEW set \in KeySet,
           RejectsKnowing(set), Judges(t, set)
    PROVE  /\ TurnsOn(t)
           /\ verification'[t].op \in {"verified", "load", "invalid", "stale"}
           /\ verification'[t].op = "invalid" /\ verification[t].kid # "" =>
                verification[t].key \in retired
BY VerdictSound DEF Judges, Turns, Steps, Verdicts, Begun, SigningInv, SigningTyped, TurnsOn
\* The step of a thread that only goes on to its next operation.
LEMMA OperationTurns ==
    ASSUME SigningInv, NEW t \in Verifications, verification[t] \in Begun, NEW op \in Steps,
           Turns(t, [verification[t] EXCEPT !.op = op])
    PROVE  TurnsOn(t) /\ verification'[t].op = op
BY DEF Begun, Steps, Turns, SigningInv, SigningTyped, TurnsOn

\* Such a step leaves what the cached keys and the keys under way are known to offer.
LEMMA SetsStay ==
    ASSUME SigningInv, NEW t \in Verifications, TurnsOn(t), UNCHANGED <<published, retired, rotations>>
    PROVE  /\ /\ cachedKeys'.keys = cachedKeys.keys
              /\ cachedKeys'.fetchedAfter = cachedKeys.fetchedAfter
              /\ cachedKeys'.fetchedSecond = cachedKeys.fetchedSecond
              => RejectsKnowing(cachedKeys)'
           /\ /\ RejectsKnowing(incoming)
              /\ cachedKeys'.keys = incoming.keys
              /\ cachedKeys'.fetchedAfter = incoming.fetchedAfter
              /\ cachedKeys'.fetchedSecond = incoming.fetchedSecond
              => RejectsKnowing(cachedKeys)'
           /\ RejectsKnowing(incoming) /\ UNCHANGED incoming => RejectsKnowing(incoming)'
BY TokensStay DEF SigningInv, RejectsKnowing, MayReject, Offers

\* Nor does it disturb the clock, the one fetch under way or an earlier verdict, when
\* thread t goes where it says.
LEMMA OthersStay ==
    ASSUME SigningInv, NEW t \in Verifications, TurnsOn(t), UNCHANGED <<published, retired, rotations>>
    PROVE  /\ /\ verification'[t].op \notin Fetching /\ UNCHANGED <<keysMu, incoming>>
              => FetchSound'
           /\ /\ verification'[t].op = "invalid" /\ verification[t].kid # "" =>
                    verification[t].key \in retired
              => RefusedMeansRetired'
           /\ /\ cachedKeys'.fetchedSecond <= second /\ incoming'.fetchedSecond <= second
              /\ UNCHANGED second
              => ClockSound'
BY TokensStay, SetsStay DEF SigningInv, FetchSound, Verifying, Fetching, RefusedMeansRetired,
   ClockSound
-----------------------------------------------------------------------------

\* A rotation publishes a new key, and the keys it drops are retired.
LEMMA RotateKeysKeeps ==
    ASSUME SigningInv, NEW kid \in Kids, NEW keep \in BOOLEAN, RotateKeys(kid, keep)
    PROVE  SigningInv'
<1> USE DEF SigningInv
<1> DEFINE kept == IF keep THEN DOMAIN published \ {kid} ELSE {}
<1>1. /\ published' = [k \in kept \cup {kid} |-> IF k = kid THEN NewestKey + 1 ELSE published[k]]
      /\ retired' = retired \cup ({published[k] : k \in DOMAIN published}
                                  \ {published[k] : k \in kept})
      /\ rotations' = rotations + 1
      /\ UNCHANGED <<second, cachedKeys, incoming, keysMu, verification>>
  BY DEF RotateKeys, keyCache
<1>2. DOMAIN published \subseteq Kids /\ \A k \in DOMAIN published : published[k] \in Nat
  BY DEF SigningTyped, KeyTables
<1>3. rotations \in Nat BY DEF SigningTyped
<1>4. kept \subseteq DOMAIN published /\ kid \notin kept OBVIOUS
<1> HIDE DEF kept
<1>5. /\ DOMAIN published' = kept \cup {kid} /\ published'[kid] = rotations + 2
      /\ \A k \in kept : published'[k] = published[k]
  BY <1>1, <1>3, <1>4 DEF NewestKey
<1>6. SigningTyped' BY <1>1, <1>2, <1>3, <1>4, <1>5 DEF KeyTables, SigningTyped
<1>7. KeysDistinct' BY <1>1, <1>3, <1>2, <1>4, <1>5 DEF NewestKey, KeysDistinct
<1>8. retired \subseteq retired' BY <1>1
<1>9. ASSUME NEW t \in Verifications, Named(t), Offers(published, t) PROVE Offers(published, t)'
    BY <1>1, <1>8, <1>5, <1>4, <1>9 DEF Offers, KeysDistinct
<1>10. TokensOffered' BY <1>1, <1>9 DEF TokensOffered, Named, Verifying
<1>11. RejectsKnowing(cachedKeys)'
  BY <1>1, <1>8 DEF RejectsKnowing, MayReject, Offers, Named, Verifying
<1>12. RejectsKnowing(incoming) => RejectsKnowing(incoming)'
  BY <1>1, <1>8 DEF RejectsKnowing, MayReject, Offers, Named, Verifying
<1>13. FetchSound' BY <1>1, <1>12 DEF FetchSound, Verifying
<1>14. ClockSound' BY <1>1 DEF ClockSound, Verifying
<1>15. RefusedMeansRetired' BY <1>1, <1>8 DEF RefusedMeansRetired, Verifying
<1> QED BY <1>6, <1>7, <1>10, <1>11, <1>13, <1>14, <1>15

\* A new token is signed with a published key, and no set can reject it yet.
LEMMA IssueTokenKeeps ==
    ASSUME SigningInv, NEW t \in Verifications, NEW kid \in Kids, NEW named \in BOOLEAN,
           NEW dated \in BOOLEAN, IssueToken(t, kid, named, dated)
    PROVE  SigningInv'
<1> USE DEF SigningInv
<1> DEFINE r == [op |-> "token", kid |-> IF named THEN kid ELSE "", key |-> published[kid],
                 iat |-> IF dated THEN second ELSE 0]
<1>1. /\ verification' = [verification EXCEPT ![t] = r] /\ kid \in DOMAIN published
      /\ UNCHANGED <<published, retired, rotations, second, cachedKeys, incoming, keysMu>>
  BY DEF IssueToken, Turns, keyCache
<1>2. verification \in [Verifications -> Idle \cup Received \cup Begun] /\ second \in Nat
  BY DEF SigningTyped
<1>3. published[kid] \in Nat BY <1>1 DEF SigningTyped, KeyTables
<1>4. r \in Received BY <1>2, <1>3 DEF Received, KidsNamed
<1>5. /\ r.op = "token" /\ r.kid \in {kid, ""} /\ r.key = published[kid] /\ r.iat \in {0, second}
  OBVIOUS
<1> HIDE DEF r
<1>6. verification'[t] = r /\ \A u \in Verifications : u # t => verification'[u] = verification[u]
  BY <1>1, <1>2
<1>7. SigningTyped' BY <1>1, <1>4 DEF SigningTyped
<1>8. KeysDistinct' BY <1>1 DEF KeysDistinct, NewestKey
<1>9. /\ ~Verifying(t, "idle")' /\ Verifying(t, "token")' /\ ~Verifying(t, "invalid")'
      /\ verification'[t].op \notin Fetching /\ ~Verifying(t, "fetched")'
  BY <1>5, <1>6 DEF Verifying, Fetching
<1>10. \A u \in Verifications : u # t =>
         /\ \A op \in {"idle", "token", "invalid", "fetched"} : Verifying(u, op)' <=> Verifying(u, op)
         /\ verification'[u] = verification[u]
  BY <1>6 DEF Verifying
<1>11. \A u \in Verifications : u # t => (Named(u)' <=> Named(u)) BY <1>10 DEF Named
<1>12. TokensOffered'
  <2>1. ASSUME NEW u \in Verifications, u # t, Named(u)' PROVE Offers(published, u)'
    BY <1>1, <1>10, <1>11, <2>1 DEF TokensOffered, Offers
  <2>2. Named(t)' => Offers(published, t)' BY <1>1, <1>5, <1>6 DEF Named, Offers
  <2> QED BY <2>1, <2>2 DEF TokensOffered
<1>13. cachedKeys.fetchedSecond \in Nat /\ incoming.fetchedSecond \in Nat BY DEF SigningTyped, KeySet
<1>14. verification'[t].iat = 0 \/ verification'[t].iat = second BY <1>5, <1>6
<1>15. ~MayReject(cachedKeys, t)' /\ ~MayReject(incoming, t)'
  BY <1>1, <1>2, <1>9, <1>13, <1>14 DEF MayReject, ClockSound
<1>16. RejectsKnowing(cachedKeys)'
  BY <1>1, <1>10, <1>11, <1>15 DEF RejectsKnowing, MayReject, Offers
<1>17. RejectsKnowing(incoming) => RejectsKnowing(incoming)'
  BY <1>1, <1>10, <1>11, <1>15 DEF RejectsKnowing, MayReject, Offers
<1>18. FetchSound' BY <1>1, <1>9, <1>10, <1>17 DEF FetchSound
<1>19. ClockSound' BY <1>2, <1>14, <1>10, <1>1 DEF ClockSound
<1>20. RefusedMeansRetired'
  <2>1. \A u \in Verifications : Verifying(u, "invalid")' =>
          Verifying(u, "invalid") /\ verification'[u] = verification[u]
    BY <1>9, <1>10
  <2>2. RefusedMeansRetired /\ retired' = retired BY <1>1
  <2> HIDE DEF SigningInv
  <2> QED BY <2>1, <2>2 DEF RefusedMeansRetired
<1> QED BY <1>7, <1>8, <1>12, <1>16, <1>18, <1>19, <1>20

\* A verification begins: every set there is was fetched before.
LEMMA VerifySignatureKeeps ==
    ASSUME SigningInv, NEW t \in Verifications, VerifySignature(t) PROVE SigningInv'
<1> USE DEF SigningInv
<1> DEFINE r == [op |-> "load", force |-> FALSE, kid |-> verification[t].kid,
                 key |-> verification[t].key, iat |-> verification[t].iat]
<1>1. /\ Verifying(t, "token") /\ verification' = [verification EXCEPT ![t] = r]
      /\ cachedKeys' = [cachedKeys EXCEPT !.fetchedAfter = @ \ {t}]
      /\ incoming' = [incoming EXCEPT !.fetchedAfter = @ \ {t}]
      /\ UNCHANGED <<published, retired, rotations, second, keysMu>>
  BY DEF VerifySignature, Turns, providerKeys
<1>2. verification \in [Verifications -> Idle \cup Received \cup Begun] BY DEF SigningTyped
<1>3. verification[t] \in Received BY <1>1, VerificationShapes
<1>4. /\ r \in Begun /\ r.op = "load" /\ r.kid = verification[t].kid
      /\ r.key = verification[t].key /\ r.iat = verification[t].iat
  BY <1>3 DEF Received, Begun, Steps
<1> HIDE DEF r
<1>5. verification'[t] = r /\ \A u \in Verifications : u # t => verification'[u] = verification[u]
  BY <1>1, <1>2
<1>6. /\ cachedKeys' \in KeySet /\ cachedKeys'.keys = cachedKeys.keys
      /\ cachedKeys'.fetchedAfter = cachedKeys.fetchedAfter \ {t}
      /\ cachedKeys'.fetchedSecond = cachedKeys.fetchedSecond
      /\ incoming' \in KeySet /\ incoming'.keys = incoming.keys
      /\ incoming'.fetchedAfter = incoming.fetchedAfter \ {t}
      /\ incoming'.fetchedSecond = incoming.fetchedSecond
  BY <1>1 DEF SigningTyped, KeySet
<1>7. SigningTyped' BY <1>1, <1>4, <1>6 DEF SigningTyped
<1>8. KeysDistinct' BY <1>1 DEF KeysDistinct, NewestKey
<1>9. \A u \in Verifications :
        /\ Named(u)' <=> Named(u)
        /\ verification'[u].kid = verification[u].kid
        /\ verification'[u].key = verification[u].key
        /\ verification'[u].iat = verification[u].iat
  BY <1>1, <1>4, <1>5 DEF Named, Verifying
<1>10. TokensOffered' BY <1>1, <1>9 DEF TokensOffered, Offers
<1>11. RejectsKnowing(cachedKeys)'
  BY <1>1, <1>5, <1>6, <1>9 DEF RejectsKnowing, MayReject, Offers, Verifying
<1>12. RejectsKnowing(incoming) => RejectsKnowing(incoming)'
  BY <1>1, <1>5, <1>6, <1>9 DEF RejectsKnowing, MayReject, Offers, Verifying
<1>13. FetchSound' BY <1>1, <1>4, <1>5, <1>12 DEF FetchSound, Fetching, Verifying
<1>14. ClockSound' BY <1>1, <1>4, <1>5, <1>9, <1>6 DEF Verifying, ClockSound
<1>15. RefusedMeansRetired' BY <1>4, <1>5, <1>1 DEF Verifying, RefusedMeansRetired
<1> QED BY <1>7, <1>8, <1>10, <1>11, <1>13, <1>14, <1>15
\* The thread waits for the lock; what it has seen kept is only who may use a set again.
LEMMA LoadKeysKeeps ==
    ASSUME SigningInv, NEW t \in Verifications, LoadKeys(t) PROVE SigningInv'
<1>1. /\ Verifying(t, "load") /\ Turns(t, [verification[t] EXCEPT !.op = "wait"])
      /\ cachedKeys' = [cachedKeys EXCEPT !.keptAfter = @ \ {t}]
      /\ UNCHANGED <<published, retired, rotations, second, incoming, keysMu>>
  BY DEF LoadKeys, providerKeys
<1>2. verification[t] \in Begun BY <1>1, VerificationShapes DEF SigningInv, Steps, Verifying
<1>3. TurnsOn(t) /\ verification'[t].op = "wait" BY <1>1, <1>2, OperationTurns DEF Steps
<1>4. /\ cachedKeys' \in KeySet /\ cachedKeys'.keys = cachedKeys.keys
      /\ cachedKeys'.fetchedAfter = cachedKeys.fetchedAfter
      /\ cachedKeys'.fetchedSecond = cachedKeys.fetchedSecond
  BY <1>1 DEF SigningInv, SigningTyped, KeySet
<1>5. SigningTyped' BY <1>1, <1>3, <1>4, TokensStay DEF SigningInv, SigningTyped
<1>6. KeysDistinct' /\ TokensOffered' BY <1>1, <1>3, TokensStay
<1>7. RejectsKnowing(cachedKeys)' BY <1>1, <1>3, <1>4, SetsStay
<1>8. FetchSound' /\ RefusedMeansRetired' BY <1>1, <1>3, OthersStay DEF Fetching
<1>9. ClockSound' BY <1>1, <1>4, <1>3, OthersStay DEF SigningInv, ClockSound
<1> QED BY <1>5, <1>6, <1>7, <1>8, <1>9 DEF SigningInv

\* The request of a waiting thread is given up.
LEMMA GiveUpWaitingKeeps ==
    ASSUME SigningInv, NEW t \in Verifications, GiveUpWaiting(t) PROVE SigningInv'
<1>1. /\ Verifying(t, "wait") /\ Turns(t, [verification[t] EXCEPT !.op = "error"])
      /\ UNCHANGED <<published, retired, rotations, second, cachedKeys, incoming, keysMu>>
  BY DEF GiveUpWaiting, providerKeys, keyCache
<1>2. verification[t] \in Begun BY <1>1, VerificationShapes DEF SigningInv, Steps, Verifying
<1>3. TurnsOn(t) /\ verification'[t].op = "error" BY <1>1, <1>2, OperationTurns DEF Steps, Verdicts
<1>4. SigningTyped' BY <1>1, <1>3, TokensStay DEF SigningInv, SigningTyped
<1>5. KeysDistinct' /\ TokensOffered' BY <1>1, <1>3, TokensStay
<1>6. RejectsKnowing(cachedKeys)' BY <1>1, <1>3, SetsStay
<1>7. FetchSound' /\ RefusedMeansRetired' BY <1>1, <1>3, OthersStay DEF Fetching
<1>8. ClockSound' BY <1>1, <1>3, OthersStay DEF SigningInv, ClockSound
<1> QED BY <1>4, <1>5, <1>6, <1>7, <1>8 DEF SigningInv

\* Under the lock the thread refuses, judges by the cached keys or starts a fetch of its own.
LEMMA LockKeysKeeps ==
    ASSUME SigningInv, NEW t \in Verifications, LockKeys(t) PROVE SigningInv'
<1>1. /\ Verifying(t, "wait") /\ keysMu = {}
      /\ UNCHANGED <<published, retired, rotations, second, cachedKeys, incoming>>
      /\ \/ Turns(t, [verification[t] EXCEPT !.op = "error"]) /\ UNCHANGED keysMu
         \/ Judges(t, cachedKeys) /\ UNCHANGED keysMu
         \/ Turns(t, [verification[t] EXCEPT !.op = "discover"]) /\ keysMu' = {t}
  BY DEF LockKeys, providerKeys, keyCache
<1>2. verification[t] \in Begun BY <1>1, VerificationShapes DEF SigningInv, Steps, Verifying
<1>3. cachedKeys \in KeySet /\ RejectsKnowing(cachedKeys) BY DEF SigningInv, SigningTyped
<1>4. /\ TurnsOn(t)
      /\ verification'[t].op = "invalid" /\ verification[t].kid # "" => verification[t].key \in retired
      /\ \/ verification'[t].op \in {"error", "verified", "load", "invalid", "stale"} /\ UNCHANGED keysMu
         \/ verification'[t].op = "discover" /\ keysMu' = {t}
    BY <1>2, OperationTurns, <1>3, JudgesSound, <1>1 DEF Steps, Verdicts, Fetching
<1>5. SigningTyped' BY <1>1, <1>4, TokensStay DEF SigningInv, SigningTyped
<1>6. KeysDistinct' /\ TokensOffered' BY <1>1, <1>4, TokensStay
<1>7. RejectsKnowing(cachedKeys)' BY <1>1, <1>4, SetsStay
<1>8. FetchSound'
    BY <1>1, <1>4, OthersStay, TokensStay DEF Fetching, SigningInv, FetchSound, Verifying
<1>9. RefusedMeansRetired' BY <1>1, <1>4, OthersStay
<1>10. ClockSound' BY <1>1, <1>4, OthersStay DEF SigningInv, ClockSound
<1> QED BY <1>5, <1>6, <1>7, <1>8, <1>9, <1>10 DEF SigningInv

\* The fetch begins after every token in flight was signed.
LEMMA DiscoveryKeeps ==
    ASSUME SigningInv, NEW t \in Verifications, DiscoveryForContext(t) PROVE SigningInv'
<1>1. /\ Verifying(t, "discover") /\ Turns(t, [verification[t] EXCEPT !.op = "fetch"])
      /\ incoming' = [NoKeys EXCEPT !.fetchedAfter = InFlight, !.fetchedSecond = second]
      /\ UNCHANGED <<published, retired, rotations, second, cachedKeys, keysMu>>
  BY DEF DiscoveryForContext, providerKeys
<1>2. verification[t] \in Begun BY <1>1, VerificationShapes DEF SigningInv, Steps, Fetching, Verifying
<1>3. TurnsOn(t) /\ verification'[t].op = "fetch" BY <1>1, <1>2, OperationTurns DEF Steps, Fetching
<1>4. incoming' \in KeySet /\ incoming'.fetchedSecond = second
  BY <1>1, NoKeysTyped DEF SigningInv, SigningTyped, KeySet, InFlight
<1>5. SigningTyped' BY <1>1, <1>3, <1>4, TokensStay DEF SigningInv, SigningTyped
<1>6. KeysDistinct' /\ TokensOffered' BY <1>1, <1>3, TokensStay
<1>7. RejectsKnowing(cachedKeys)' BY <1>1, <1>3, SetsStay
<1>8. FetchSound' BY <1>1, <1>3, TokensStay DEF SigningInv, FetchSound, Fetching, Verifying
<1>9. RefusedMeansRetired' BY <1>1, <1>3, OthersStay
<1>10. ClockSound'
  <2>1. cachedKeys'.fetchedSecond <= second /\ incoming'.fetchedSecond <= second
    BY <1>1, <1>4 DEF SigningInv, ClockSound, SigningTyped
  <2> QED BY <1>1, <1>3, <2>1, OthersStay
<1> QED BY <1>5, <1>6, <1>7, <1>8, <1>9, <1>10 DEF SigningInv

\* The answer has the keys published then: every token of before is offered its key.
LEMMA ServeKeysKeeps ==
    ASSUME SigningInv, NEW t \in Verifications, ServeKeys(t) PROVE SigningInv'
<1>1. /\ Verifying(t, "fetch") /\ Turns(t, [verification[t] EXCEPT !.op = "fetched"])
      /\ incoming' = [incoming EXCEPT !.keys = published]
      /\ UNCHANGED <<published, retired, rotations, second, cachedKeys, keysMu>>
  BY DEF ServeKeys, providerKeys
<1>2. verification[t] \in Begun BY <1>1, VerificationShapes DEF SigningInv, Steps, Fetching, Verifying
<1>3. TurnsOn(t) /\ verification'[t].op = "fetched" BY <1>1, <1>2, OperationTurns DEF Steps, Fetching
<1>4. /\ incoming' \in KeySet /\ incoming'.keys = published
      /\ incoming'.fetchedSecond = incoming.fetchedSecond
  BY <1>1 DEF SigningInv, SigningTyped, KeySet
<1>5. SigningTyped' BY <1>1, <1>3, <1>4, TokensStay DEF SigningInv, SigningTyped
<1>6. KeysDistinct' /\ TokensOffered' BY <1>1, <1>3, TokensStay
<1>7. RejectsKnowing(cachedKeys)' BY <1>1, <1>3, SetsStay
<1>8. FetchSound'
    BY <1>1, <1>3, TokensStay, <1>4, <1>6 DEF SigningInv, FetchSound, Fetching, Verifying,
       RejectsKnowing, TokensOffered, Offers
<1>9. RefusedMeansRetired' BY <1>1, <1>3, OthersStay
<1>10. ClockSound' BY <1>1, <1>4, <1>3, OthersStay DEF SigningInv, ClockSound
<1> QED BY <1>5, <1>6, <1>7, <1>8, <1>9, <1>10 DEF SigningInv

\* A fetch that fails leaves the cached keys and no fetch under way.
LEMMA FetchFailsKeeps ==
    ASSUME SigningInv, NEW t \in Verifications, FetchFails(t) PROVE SigningInv'
<1>1. /\ verification[t].op \in Fetching /\ Turns(t, [verification[t] EXCEPT !.op = "error"])
      /\ keysMu' = {} /\ incoming' = NoKeys
      /\ UNCHANGED <<published, retired, rotations, second, cachedKeys>>
  BY DEF FetchFails, Fetching, providerKeys
<1>2. verification[t] \in Begun BY <1>1, VerificationShapes DEF SigningInv, Steps, Verifying
<1>3. TurnsOn(t) /\ verification'[t].op = "error" BY <1>1, <1>2, OperationTurns DEF Steps, Verdicts
<1>4. incoming' \in KeySet /\ incoming'.fetchedSecond = 0 BY <1>1, NoKeysTyped DEF NoKeys
<1>5. SigningTyped' BY <1>1, <1>3, <1>4, TokensStay DEF SigningInv, SigningTyped
<1>6. KeysDistinct' /\ TokensOffered' BY <1>1, <1>3, TokensStay
<1>7. RejectsKnowing(cachedKeys)' BY <1>1, <1>3, SetsStay
<1>8. FetchSound' BY <1>1, <1>3, TokensStay DEF SigningInv, FetchSound, Fetching, Verifying
<1>9. RefusedMeansRetired' BY <1>1, <1>3, OthersStay
<1>10. ClockSound'
  <2>1. cachedKeys'.fetchedSecond <= second /\ incoming'.fetchedSecond <= second
    BY <1>1, <1>4 DEF SigningInv, ClockSound, SigningTyped
  <2> QED BY <1>1, <1>3, <2>1, OthersStay
<1> QED BY <1>5, <1>6, <1>7, <1>8, <1>9, <1>10 DEF SigningInv

\* The fetched keys are kept, and the thread that fetched them judges by them.
LEMMA KeepKeysKeeps ==
    ASSUME SigningInv, NEW t \in Verifications, KeepKeys(t) PROVE SigningInv'
<1> DEFINE seen == {u \in InFlight : ~Verifying(u, "load")}
<1>1. /\ Verifying(t, "fetched") /\ Judges(t, incoming) /\ keysMu' = {} /\ incoming' = NoKeys
      /\ cachedKeys' = [incoming EXCEPT !.keptAfter = seen]
      /\ UNCHANGED <<published, retired, rotations, second>>
  BY DEF KeepKeys, providerKeys
<1>2. verification[t] \in Begun BY <1>1, VerificationShapes DEF SigningInv, Steps, Fetching, Verifying
<1>3. incoming \in KeySet /\ RejectsKnowing(incoming) BY <1>1 DEF SigningInv, SigningTyped, FetchSound
<1>4. /\ TurnsOn(t) /\ verification'[t].op \in {"verified", "load", "invalid", "stale"}
      /\ verification'[t].op = "invalid" /\ verification[t].kid # "" => verification[t].key \in retired
  BY <1>1, <1>2, <1>3, JudgesSound
<1>5. incoming' \in KeySet /\ incoming'.fetchedSecond = 0 BY <1>1, NoKeysTyped DEF NoKeys
<1>6. seen \subseteq Verifications BY DEF InFlight
<1> HIDE DEF seen
<1>7. /\ cachedKeys' \in KeySet /\ cachedKeys'.keys = incoming.keys
      /\ cachedKeys'.fetchedAfter = incoming.fetchedAfter
      /\ cachedKeys'.fetchedSecond = incoming.fetchedSecond
  BY <1>1, <1>3, <1>6 DEF KeySet
<1>8. SigningTyped' BY <1>1, <1>4, <1>5, <1>7, TokensStay DEF SigningInv, SigningTyped
<1>9. KeysDistinct' /\ TokensOffered' BY <1>1, <1>4, TokensStay
<1>10. RejectsKnowing(cachedKeys)' BY <1>1, <1>3, <1>4, <1>7, SetsStay
<1>11. FetchSound'
  <2>1. \A u \in Verifications : u # t => verification'[u] = verification[u]
    BY <1>1, <1>4, TokensStay
  <2>2. keysMu = {t} BY <1>1 DEF SigningInv, FetchSound, Fetching, Verifying
  <2>3. \A u \in Verifications : verification'[u].op \notin Fetching
    BY <1>4, <2>1, <2>2 DEF SigningInv, FetchSound, Fetching
  <2> QED BY <2>3 DEF FetchSound, Fetching, Verifying
<1>12. RefusedMeansRetired' BY <1>1, <1>4, OthersStay
<1>13. ClockSound'
  <2>1. cachedKeys'.fetchedSecond <= second /\ incoming'.fetchedSecond <= second
    BY <1>1, <1>5, <1>7 DEF SigningInv, ClockSound, SigningTyped
  <2> QED BY <1>1, <1>4, <2>1, OthersStay
<1> QED BY <1>8, <1>9, <1>10, <1>11, <1>12, <1>13 DEF SigningInv
\* An answered thread has no token to judge.
LEMMA AnswerVerdictKeeps ==
    ASSUME SigningInv, NEW t \in Verifications, AnswerVerdict(t) PROVE SigningInv'
<1>1. /\ verification' = [verification EXCEPT ![t] = [op |-> "idle"]]
      /\ UNCHANGED <<published, retired, rotations, second, cachedKeys, incoming, keysMu>>
  BY DEF AnswerVerdict, Turns, providerKeys, keyCache
<1>2. verification \in [Verifications -> Idle \cup Received \cup Begun] BY DEF SigningInv, SigningTyped
<1>3. [op |-> "idle"] \in Idle BY DEF Idle
<1>4. SigningTyped' BY <1>1, <1>2, <1>3 DEF SigningInv, SigningTyped
<1>5. Verifying(t, "idle")' /\ verification'[t].op = "idle" BY <1>1, <1>2 DEF Verifying
<1>6. \A u \in Verifications : u # t => verification'[u] = verification[u] BY <1>1, <1>2
<1>7. \A u \in Verifications : Named(u)' => u # t /\ Named(u)
  BY <1>5, <1>6 DEF Named, Verifying
<1>8. KeysDistinct' BY <1>1 DEF SigningInv, KeysDistinct, NewestKey
<1>9. TokensOffered' BY <1>1, <1>6, <1>7 DEF SigningInv, TokensOffered, Offers
<1>10. RejectsKnowing(cachedKeys)'
  BY <1>1, <1>6, <1>7 DEF SigningInv, RejectsKnowing, MayReject, Offers, Verifying
<1>11. RejectsKnowing(incoming) => RejectsKnowing(incoming)'
  BY <1>1, <1>6, <1>7 DEF RejectsKnowing, MayReject, Offers, Verifying
<1>12. FetchSound'
  BY <1>1, <1>5, <1>6, <1>11 DEF SigningInv, FetchSound, Fetching, Verifying
<1>13. ClockSound' BY <1>5, <1>6, <1>1 DEF Verifying, SigningInv, ClockSound
<1>14. RefusedMeansRetired'
  <2>1. \A u \in Verifications : Verifying(u, "invalid")' =>
          Verifying(u, "invalid") /\ verification'[u] = verification[u]
    BY <1>5, <1>6 DEF Verifying
  <2>2. RefusedMeansRetired /\ retired' = retired BY <1>1 DEF SigningInv
  <2> QED BY <2>1, <2>2 DEF RefusedMeansRetired
<1> QED BY <1>4, <1>8, <1>9, <1>10, <1>12, <1>13, <1>14 DEF SigningInv

\* Time only makes tokens and sets older, or lets a reload be due; a step that changes
\* nothing the argument uses keeps it too.
LEMMA TimeKeeps ==
    ASSUME SigningInv, second' \in Nat, second <= second',
           UNCHANGED <<published, retired, rotations, cachedKeys, incoming, keysMu, verification>>
    PROVE  SigningInv'
<1>1. SigningTyped' BY DEF SigningInv, SigningTyped
<1>2. KeysDistinct' BY DEF SigningInv, KeysDistinct, NewestKey
<1>3. TokensOffered' BY DEF SigningInv, TokensOffered, Offers, Named, Verifying
<1>4. RejectsKnowing(cachedKeys)'
  BY DEF SigningInv, RejectsKnowing, MayReject, Offers, Named, Verifying
<1>5. RejectsKnowing(incoming) => RejectsKnowing(incoming)'
  BY DEF RejectsKnowing, MayReject, Offers, Named, Verifying
<1>6. FetchSound' BY <1>5 DEF SigningInv, FetchSound, Verifying
<1>7. ClockSound'
    BY VerificationShapes DEF SigningInv, SigningTyped, KeySet, ClockSound, Verifying
<1>8. RefusedMeansRetired' BY DEF SigningInv, RefusedMeansRetired, Verifying
<1> QED BY <1>1, <1>2, <1>3, <1>4, <1>6, <1>7, <1>8 DEF SigningInv

\* Initially one key is published and nothing was fetched.
LEMMA SigningInitSound == SigningInit => SigningInv
<1> SUFFICES ASSUME SigningInit PROVE SigningInv OBVIOUS
<1>1. published \in [{"a"} -> Nat] /\ published["a"] = 1 /\ DOMAIN published = {"a"}
  BY DEF SigningInit
<1>2. published \in KeyTables BY <1>1 DEF KeyTables, Kids
<1>3. [op |-> "idle"] \in Idle BY DEF Idle
<1>4. \A t \in Verifications : verification[t].op = "idle" BY DEF SigningInit
<1>5. SigningTyped BY <1>2, <1>3, NoKeysTyped DEF SigningInit, SigningTyped
<1>6. KeysDistinct BY <1>1 DEF SigningInit, KeysDistinct, NewestKey
<1>7. \A t \in Verifications : ~Named(t) BY <1>4 DEF Named, Verifying
<1>8. TokensOffered /\ RejectsKnowing(cachedKeys) BY <1>7 DEF TokensOffered, RejectsKnowing
<1>9. FetchSound BY <1>4 DEF FetchSound, Fetching, Verifying
<1>10. ClockSound BY <1>4 DEF SigningInit, ClockSound, NoKeys, Verifying
<1>11. RefusedMeansRetired BY <1>4 DEF RefusedMeansRetired, Verifying
<1> QED BY <1>5, <1>6, <1>8, <1>9, <1>10, <1>11 DEF SigningInv

\* Every step of the provider, of the clock and of a verification keeps the invariant.
LEMMA SigningStep == SigningInv /\ [SigningNext]_signingVars => SigningInv'
<1> SUFFICES ASSUME SigningInv, [SigningNext]_signingVars PROVE SigningInv' OBVIOUS
<1>1. second \in Nat BY DEF SigningInv, SigningTyped
<1>2. CASE UNCHANGED signingVars
  BY <1>1, <1>2, TimeKeeps DEF signingVars, providerKeys, keyCache
<1>3. CASE \E kid \in Kids, keep \in BOOLEAN : RotateKeys(kid, keep) BY <1>3, RotateKeysKeeps
<1>4. CASE SecondPasses
  BY <1>1, <1>4, TimeKeeps DEF SecondPasses, providerKeys, keyCache
<1>5. CASE CooldownEnds
  BY <1>1, <1>5, TimeKeeps DEF CooldownEnds, providerKeys
<1>6. CASE KeysAge BY <1>1, <1>6, TimeKeeps DEF KeysAge, providerKeys
<1>7. ASSUME NEW t \in Verifications,
             \/ \E kid \in Kids, named, dated \in BOOLEAN : IssueToken(t, kid, named, dated)
             \/ VerifySignature(t) \/ LoadKeys(t) \/ GiveUpWaiting(t) \/ LockKeys(t)
             \/ DiscoveryForContext(t) \/ ServeKeys(t) \/ FetchFails(t) \/ KeepKeys(t)
             \/ AnswerVerdict(t)
      PROVE  SigningInv'
  BY <1>7, IssueTokenKeeps, VerifySignatureKeeps, LoadKeysKeeps, GiveUpWaitingKeeps, LockKeysKeeps,
     DiscoveryKeeps, ServeKeysKeeps, FetchFailsKeeps, KeepKeysKeeps, AnswerVerdictKeeps
<1> QED BY <1>2, <1>3, <1>4, <1>5, <1>6, <1>7 DEF SigningNext

\* A set of keys rejects a token only if it was fetched after the token was signed, in
\* every reachable state of every number of verifications and rotations.
THEOREM SigningInductive == SigningSpec => []SigningInv
<1>1. SigningInit => SigningInv BY SigningInitSound
<1>2. SigningInv /\ [SigningNext]_signingVars => SigningInv' BY SigningStep
<1> QED BY <1>1, <1>2, PTL DEF SigningSpec

\* A token that names its key is refused as invalid only if the provider no longer
\* publishes that key: verifySignature never ends the session of good credentials.
THEOREM RefusalsProved == SigningSpec => []RefusedMeansRetired
<1>1. SigningInv => RefusedMeansRetired BY DEF SigningInv
<1> QED BY <1>1, SigningInductive, PTL

-----------------------------------------------------------------------------
(***************************************************************************)
(* Proofs about BrowserSessions, for any number of requests, refreshes,    *)
(* crashes and any lengths of tokens, leases and sessions: requests that   *)
(* share a session do not end it by using one refresh token twice, and     *)
(* none is answered with an identity that nobody verified.                 *)
(***************************************************************************)

BrowserSpec == BrowserInit /\ [][BrowserNext]_browserVars

Owners == BrowserThreads \X Nat
Record == [access : Nat, refresh : Nat, pending : BOOLEAN, tokenExpires : Nat,
           accepted : Nat, acceptedExpires : Nat, expires : Nat, idle : Nat,
           activity : Nat, owner : SUBSET Owners, until : Nat]
ReadingSession == [op : {"read"}, refreshed : BOOLEAN]
Looking == [op : {"delete", "renew"}, refreshed : BOOLEAN, seen : Record]
Claiming == [op : {"claim"}, refreshed : BOOLEAN, seen : Record, due : BOOLEAN]
Asking == [op : {"refresh", "identity"}, refreshed : BOOLEAN, owner : SUBSET Owners, seen : Record]
Committing == [op : {"commit"}, refreshed : BOOLEAN, owner : SUBSET Owners, seen : Record,
               updated : Record, permanent : BOOLEAN, failed : BOOLEAN]
Request == [op : {"idle"}, answer : Nat] \cup [op : {"exchange"}] \cup ReadingSession
           \cup Looking \cup Claiming \cup Asking \cup Committing

\* Every variable the argument uses has its type.
BrowserTyped ==
    /\ loginState \in {"none", "saved", "taken"} /\ session \in Record \cup {NotFound}
    /\ good \in Nat /\ issued \in Nat /\ clock \in Nat /\ excused \in BOOLEAN
    /\ user \in [BrowserThreads -> Request] /\ verified \subseteq Nat

\* One callback takes the state, and before it has exchanged its code there is no
\* session, no token and nothing a request could have seen.
LoginFirst ==
    /\ loginState # "taken" => \A t \in BrowserThreads : user[t].op \in {"idle", "read"}
    /\ \A t \in BrowserThreads : user[t].op = "exchange" =>
          \A u \in BrowserThreads \ {t} : user[u].op \in {"idle", "read"}
    /\ loginState # "taken" \/ (\E t \in BrowserThreads : user[t].op = "exchange") =>
          /\ session = NotFound /\ verified = {} /\ issued = 0 /\ good = 0
          /\ "refused" \notin ended

\* A record accepts an access token only once it was verified, and has no token of
\* a later rotation.
Sound(s, tokens, newest) ==
    /\ s.accepted \in tokens /\ (~s.pending => s.access \in tokens)
    /\ s.refresh <= newest
RecordSound(s) == Sound(s, verified, issued)
SessionSound == session # NotFound => RecordSound(session)

Holding(t) == user[t].op \in {"refresh", "identity", "commit"}
Rotated(t) == user[t].op = "commit" /\ user[t].updated.refresh # user[t].seen.refresh

\* What a request has read, holds and wants to store.
RequestsSound ==
    \A t \in BrowserThreads :
        /\ user[t].op = "idle" => user[t].answer \in verified \cup {0}
        /\ user[t].op \notin {"idle", "exchange", "read"} => RecordSound(user[t].seen)
        /\ user[t].op = "commit" =>
              /\ RecordSound(user[t].updated)
              /\ Rotated(t) => ~user[t].permanent /\ ~user[t].failed

\* A lease names the request that claimed it, and while it lasts nobody else has
\* changed what that request saw.
LeaseKept ==
    \A t \in BrowserThreads : Holding(t) =>
        /\ \E c \in Nat : user[t].owner = {<<t, c>>}
        /\ clock < user[t].seen.until /\ session # NotFound =>
              /\ session.owner = user[t].owner /\ session.until = user[t].seen.until
              /\ session.refresh = user[t].seen.refresh

\* Without an excuse no lease has run out, the newest refresh token is in the record
\* or about to be, and a refusal is about a record that is gone.
TokenKept ==
    ~excused =>
        /\ \A t \in BrowserThreads :
              /\ Holding(t) => clock < user[t].seen.until
              /\ user[t].op = "commit" /\ user[t].permanent => session = NotFound
              /\ Rotated(t) /\ session # NotFound => user[t].updated.refresh = good
        /\ session # NotFound /\ (\A t \in BrowserThreads : ~Rotated(t)) => session.refresh = good
        /\ "refused" \notin ended

BrowserInv ==
    BrowserTyped /\ LoginFirst /\ SessionSound /\ RequestsSound /\ LeaseKept /\ TokenKept

-----------------------------------------------------------------------------
(* Requests and leases.                                                    *)

\* What a request is doing tells the shape of its record.
LEMMA CallbackShapes ==
    ASSUME BrowserTyped, NEW t \in BrowserThreads
    PROVE  /\ user[t] \in Request
           /\ user[t].op = "idle" => user[t].answer \in Nat
           /\ user[t].op \notin {"idle", "exchange"} => user[t].refreshed \in BOOLEAN
           /\ user[t].op \notin {"idle", "exchange", "read"} => user[t].seen \in Record
           /\ user[t].op = "claim" => user[t].due \in BOOLEAN
           /\ Holding(t) => user[t].owner \in SUBSET Owners
           /\ user[t].op \in {"refresh", "identity"} => user[t] \in Asking
           /\ user[t].op = "commit" =>
                 /\ user[t].updated \in Record
                 /\ user[t].permanent \in BOOLEAN /\ user[t].failed \in BOOLEAN
BY DEF BrowserTyped, Request, ReadingSession, Looking, Claiming, Asking, Committing, Holding

\* The fields of a record.
LEMMA Fields ==
    ASSUME NEW s \in Record
    PROVE  /\ s.access \in Nat /\ s.refresh \in Nat /\ s.pending \in BOOLEAN
           /\ s.tokenExpires \in Nat /\ s.accepted \in Nat /\ s.acceptedExpires \in Nat
           /\ s.expires \in Nat /\ s.idle \in Nat /\ s.activity \in Nat
           /\ s.owner \in SUBSET Owners /\ s.until \in Nat
BY DEF Record

\* A record that is read is the one that is stored.
LEMMA ReadIsStored ==
    /\ ReadBrowserRecord # NotFound => ReadBrowserRecord = session
    /\ session = NotFound => ReadBrowserRecord = NotFound
BY DEF ReadBrowserRecord

\* Two requests do not hold one lease.
LEMMA Alone ==
    ASSUME LeaseKept, session # NotFound, NEW t \in BrowserThreads, NEW u \in BrowserThreads,
           Holding(t), Holding(u), clock < user[t].seen.until, clock < user[u].seen.until
    PROVE  t = u
<1>1. PICK c \in Nat : session.owner = {<<t, c>>} BY DEF LeaseKept
<1>2. PICK d \in Nat : session.owner = {<<u, d>>} BY DEF LeaseKept
<1>3. <<t, c>> = <<u, d>> BY <1>1, <1>2
<1> QED BY <1>3

\* Later verifications and rotations leave a sound record sound.
LEMMA StaysSound ==
    ASSUME BrowserTyped, BrowserTyped', verified \subseteq verified', issued <= issued',
           NEW s \in Record, RecordSound(s)
    PROVE  Sound(s, verified', issued')
BY DEF RecordSound, Sound, BrowserTyped, Record

\* A step that takes no lease, loses no rotated token and leaves the record, or
\* removes it, or only notes activity keeps what leases and tokens promise.
LEMMA LeasesUndisturbed ==
    ASSUME LeaseKept, TokenKept,
           session' # NotFound =>
               /\ session # NotFound /\ session'.owner = session.owner
               /\ session'.until = session.until /\ session'.refresh = session.refresh,
           good' = good, clock' = clock, excused' = excused,
           "refused" \in ended' => "refused" \in ended,
           \A u \in BrowserThreads : Holding(u) \/ Holding(u)' => user'[u] = user[u]
    PROVE  LeaseKept' /\ TokenKept'
BY DEF Holding, Rotated, LeaseKept, TokenKept

\* What a step does with the requests it does not belong to.
LEMMA OthersSound ==
    ASSUME BrowserTyped, BrowserTyped', RequestsSound, NEW t \in BrowserThreads,
           \A u \in BrowserThreads \ {t} : user'[u] = user[u],
           verified \subseteq verified', issued <= issued'
    PROVE  \A u \in BrowserThreads \ {t} :
              /\ user[u].op = "idle" => user'[u].answer \in verified' \cup {0}
              /\ user'[u].op \notin {"idle", "exchange", "read"} =>
                    Sound(user'[u].seen, verified', issued')
              /\ user'[u].op = "commit" =>
                    /\ Sound(user'[u].updated, verified', issued')
                    /\ user'[u].updated.refresh # user'[u].seen.refresh =>
                          ~user'[u].permanent /\ ~user'[u].failed
BY CallbackShapes, StaysSound DEF RequestsSound, Rotated

\* The requests there are.
LEMMA Requests ==
    /\ \A a \in Nat : [op |-> "idle", answer |-> a] \in Request
    /\ [op |-> "exchange"] \in Request
    /\ \A b \in BOOLEAN : [op |-> "read", refreshed |-> b] \in Request
    /\ \A b \in BOOLEAN, s \in Record :
          /\ [op |-> "delete", refreshed |-> b, seen |-> s] \in Request
          /\ [op |-> "renew", refreshed |-> b, seen |-> s] \in Request
          /\ \A d \in BOOLEAN : [op |-> "claim", refreshed |-> b, seen |-> s, due |-> d] \in Request
    /\ \A b \in BOOLEAN, o \in SUBSET Owners, s \in Record :
          /\ \A op \in {"refresh", "identity"} :
                [op |-> op, refreshed |-> b, owner |-> o, seen |-> s] \in Request
          /\ \A u \in Record, p \in BOOLEAN, f \in BOOLEAN :
                [op |-> "commit", refreshed |-> b, owner |-> o, seen |-> s, updated |-> u,
                 permanent |-> p, failed |-> f] \in Request
BY DEF Request, ReadingSession, Looking, Claiming, Asking, Committing

\* A request goes on; the others do not notice.
LEMMA VerificationGoesOn ==
    ASSUME BrowserTyped, NEW t \in BrowserThreads, NEW r \in Request, ContinueAs(t, r)
    PROVE  /\ user' \in [BrowserThreads -> Request] /\ user'[t] = r
           /\ \A u \in BrowserThreads \ {t} : user'[u] = user[u]
BY DEF BrowserTyped, ContinueAs

\* A request is without a lease, and the record stays, or is removed, or only notes
\* that it is used.
Quietly(t) ==
    /\ ~Holding(t) /\ user[t].op # "exchange"
    /\ session' \in Record \cup {NotFound}
    /\ session' # NotFound =>
          /\ session # NotFound /\ RecordSound(session')
          /\ session'.owner = session.owner /\ session'.until = session.until
          /\ session'.refresh = session.refresh
    /\ UNCHANGED <<loginState, providerVars, verified, excused, clock>>
    /\ "refused" \in ended' => "refused" \in ended

LEMMA QuietStep ==
    ASSUME BrowserInv, NEW t \in BrowserThreads, Quietly(t),
           NEW r \in Request, ContinueAs(t, r),
           r.op \in {"idle", "read", "delete", "renew", "claim"},
           r.op \in {"delete", "renew", "claim"} => session # NotFound,
           r.op = "idle" => r.answer \in verified \cup {0},
           r.op \in {"delete", "renew", "claim"} => RecordSound(r.seen)
    PROVE  BrowserInv'
<1>1. /\ user' \in [BrowserThreads -> Request] /\ user'[t] = r
      /\ \A u \in BrowserThreads \ {t} : user'[u] = user[u]
    BY VerificationGoesOn DEF BrowserInv
<1>2. BrowserTyped' BY <1>1 DEF BrowserInv, BrowserTyped, Quietly, providerVars
<1>3. LoginFirst' BY <1>1 DEF BrowserInv, LoginFirst, Quietly, providerVars
<1>4. SessionSound' BY DEF BrowserInv, SessionSound, RecordSound, Quietly, providerVars
<1>5. RequestsSound'
    BY <1>1, <1>2, OthersSound DEF BrowserInv, BrowserTyped, Quietly, providerVars, RecordSound,
       Rotated, RequestsSound
<1>6. LeaseKept' /\ TokenKept'
    BY <1>1, LeasesUndisturbed DEF Holding, Quietly, BrowserInv, providerVars
<1> QED BY <1>2, <1>3, <1>4, <1>5, <1>6 DEF BrowserInv

\* It is answered, or reads again.
LEMMA QuietAnswer ==
    ASSUME BrowserInv, NEW t \in BrowserThreads, Quietly(t),
           \/ \E a \in verified \cup {0} : AnswerWith(t, a)
           \/ \E b \in BOOLEAN : ContinueAs(t, [op |-> "read", refreshed |-> b])
    PROVE  BrowserInv'
BY Requests, QuietStep DEF BrowserInv, BrowserTyped, AnswerWith

-----------------------------------------------------------------------------
(* Requests without a lease.                                               *)

\* What a request reads is typed and sound.
LEMMA WhatIsRead ==
    ASSUME BrowserInv
    PROVE  /\ session \in Record \cup {NotFound} /\ clock \in Nat
           /\ session # NotFound => session \in Record /\ RecordSound(session)
           /\ ReadBrowserRecord # NotFound =>
                 ReadBrowserRecord = session /\ session # NotFound
BY ReadIsStored DEF BrowserInv, BrowserTyped, SessionSound

\* A request begins, or only looks a session up.
LEMMA BeginsKeep ==
    ASSUME BrowserInv, NEW t \in BrowserThreads, SessionWithError(t) \/ LookupSession(t)
    PROVE  BrowserInv'
BY WhatIsRead, QuietAnswer DEF SessionWithError, LookupSession, historyVars, Holding, Quietly,
   RecordSound, AcceptedSession, Sound

\* A request reads the record and decides.
LEMMA ReadKeeps ==
    ASSUME BrowserInv, NEW t \in BrowserThreads, ReadSession(t)
    PROVE  BrowserInv'
<1> DEFINE b == user[t].refreshed
           s == session
<1>1. user[t].op = "read" /\ b \in BOOLEAN /\ user[t] \in Request
    BY CallbackShapes DEF BrowserInv, ReadSession
<1>2. Quietly(t)
    BY <1>1, WhatIsRead DEF ReadSession, budgetVars, Quietly, Holding, RecordSound, providerVars
<1>3. CASE ReadBrowserRecord = NotFound BY <1>3, <1>2, QuietAnswer DEF ReadSession
<1>4. CASE ReadBrowserRecord # NotFound
    <2>1. /\ s \in Record /\ RecordSound(s) /\ ReadBrowserRecord = s /\ s # NotFound
        BY <1>4, WhatIsRead
    <2>2. PICK r \in Request :
              /\ ContinueAs(t, r)
              /\ r.op \in {"idle", "read", "delete", "renew", "claim"}
              /\ r.op = "idle" => r.answer \in verified \cup {0}
              /\ r.op \in {"delete", "renew", "claim"} => r.seen = s
        <3>1. RefreshDue(s, b) \in BOOLEAN BY DEF RefreshDue
        <3>2. /\ [op |-> "delete", refreshed |-> b, seen |-> s] \in Request
              /\ [op |-> "renew", refreshed |-> b, seen |-> s] \in Request
              /\ [op |-> "claim", refreshed |-> b, seen |-> s, due |-> RefreshDue(s, b)] \in Request
            BY <1>1, <2>1, <3>1, Requests
        <3>3. \A a \in verified \cup {0} : [op |-> "idle", answer |-> a] \in Request
            BY Requests DEF BrowserInv, BrowserTyped
        <3>4. \/ ContinueAs(t, [op |-> "delete", refreshed |-> b, seen |-> s])
              \/ ContinueAs(t, [op |-> "renew", refreshed |-> b, seen |-> s])
              \/ ContinueAs(t, [op |-> "claim", refreshed |-> b, seen |-> s, due |-> RefreshDue(s, b)])
              \/ ContinueAs(t, user[t])
              \/ \E a \in verified \cup {0} : AnswerWith(t, a)
            BY <1>4, <2>1 DEF ReadSession, AcceptedSession, RecordSound, Sound
        <3> QED BY <1>1, <3>2, <3>3, <3>4 DEF AnswerWith
    <2> QED BY <1>2, <2>1, <2>2, QuietStep
<1> QED BY <1>3, <1>4

\* A request deletes a session it found spent, or notes that the session is used.
LEMMA DeleteAndRenewKeep ==
    ASSUME BrowserInv, NEW t \in BrowserThreads, DeleteSession(t) \/ RenewActivity(t)
    PROVE  BrowserInv'
<1> DEFINE used == [session EXCEPT !.activity = clock, !.idle = clock + IdleTime]
<1>1. /\ user[t].op \in {"delete", "renew"} /\ user[t].refreshed \in BOOLEAN
      /\ UNCHANGED <<loginState, providerVars, verified, excused, clock>>
      /\ "refused" \in ended' => "refused" \in ended
    BY CallbackShapes DEF BrowserInv, DeleteSession, RenewActivity, budgetVars
<1>2. Quietly(t)
    <2>1. session' \in {session, NotFound} \/ (session' = used /\ session # NotFound)
        BY WhatIsRead DEF DeleteSession, RenewActivity
    <2>2. session # NotFound =>
              /\ used \in Record /\ RecordSound(used)
              /\ used.owner = session.owner /\ used.until = session.until
              /\ used.refresh = session.refresh
        <3>1. clock + IdleTime \in Nat /\ clock \in Nat BY BrowserAssumption, WhatIsRead
        <3> QED BY <3>1, WhatIsRead DEF Record, RecordSound, Sound
    <2> QED BY <1>1, <2>1, <2>2, WhatIsRead DEF Quietly, Holding, RecordSound, providerVars
<1>3. \/ AnswerWith(t, 0)
      \/ ContinueAs(t, [op |-> "read", refreshed |-> user[t].refreshed])
      \/ session # NotFound /\ ~session.pending /\ AnswerWith(t, session.access)
    BY WhatIsRead DEF DeleteSession, RenewActivity, SessionUsable
<1>4. session # NotFound /\ ~session.pending => session.access \in verified
    BY WhatIsRead DEF RecordSound, Sound
<1> QED BY <1>1, <1>2, <1>3, <1>4, QuietAnswer

-----------------------------------------------------------------------------
(* The login, and what happens to a request.                               *)

\* Before the exchange of the login there is nothing that a step could spoil.
LEMMA NothingYet ==
    ASSUME BrowserTyped', LoginFirst',
           loginState' # "taken" \/ (\E t \in BrowserThreads : user'[t].op = "exchange"),
           \A u \in BrowserThreads : user'[u].op = "idle" => user'[u].answer = 0
    PROVE  BrowserInv'
BY DEF LoginFirst, Holding, Rotated, RequestsSound, BrowserInv, SessionSound, LeaseKept,
   TokenKept

\* Nobody was answered with a token before there was one.
LEMMA NobodyAnswered ==
    ASSUME BrowserInv,
           loginState # "taken" \/ (\E t \in BrowserThreads : user[t].op = "exchange")
    PROVE  \A u \in BrowserThreads : user[u].op = "idle" => user[u].answer = 0
BY DEF BrowserInv, LoginFirst, RequestsSound

\* A login begins.
LEMMA BeginAuthKeeps ==
    ASSUME BrowserInv, BeginAuth
    PROVE  BrowserInv'
BY NothingYet, NobodyAnswered DEF BeginAuth, providerVars, historyVars, budgetVars, BrowserInv,
   BrowserTyped, LoginFirst

\* Its callback takes the state once.
LEMMA CallbackKeeps ==
    ASSUME BrowserInv, NEW t \in BrowserThreads, HandleCallback(t)
    PROVE  BrowserInv'
<1>1. /\ user[t].op = "idle" /\ loginState # "none" /\ loginState' = "taken"
      /\ UNCHANGED <<session, good, issued, verified, ended, excused, clock>>
    BY DEF HandleCallback, providerVars, historyVars
<1>2. CASE loginState = "saved"
    BY <1>2, Requests, VerificationGoesOn, <1>1, NobodyAnswered, NothingYet DEF HandleCallback,
       BrowserInv, BrowserTyped, LoginFirst
<1>3. CASE loginState # "saved"
    <2>1. loginState = "taken" BY <1>1, <1>3 DEF BrowserInv, BrowserTyped
    <2>2. AnswerWith(t, 0) BY <1>3 DEF HandleCallback, AnswerWith, Idling
    <2>3. Quietly(t)
        BY <1>1, <2>1, WhatIsRead DEF Quietly, Holding, RecordSound, providerVars
    <2> QED BY <2>2, <2>3, QuietAnswer
<1> QED BY <1>2, <1>3

\* The code is exchanged for a session, or is not.
LEMMA ExchangeKeeps ==
    ASSUME BrowserInv, NEW t \in BrowserThreads, ExchangeCode(t)
    PROVE  BrowserInv'
<1>1. /\ user[t].op = "exchange" /\ AnswerWith(t, 0) /\ loginState' = loginState
      /\ UNCHANGED <<ended, excused, clock>>
    BY DEF ExchangeCode, AnswerWith, Idling, budgetVars
<1>2. /\ loginState = "taken" /\ session = NotFound /\ verified = {} /\ issued = 0 /\ good = 0
      /\ "refused" \notin ended
      /\ \A u \in BrowserThreads \ {t} : user[u].op \in {"idle", "read"}
    BY <1>1 DEF BrowserInv, LoginFirst
<1>3. /\ user' \in [BrowserThreads -> Request] /\ user'[t].op = "idle" /\ user'[t].answer = 0
      /\ \A u \in BrowserThreads \ {t} : user'[u] = user[u]
    BY <1>1, Requests, VerificationGoesOn DEF AnswerWith, BrowserInv
<1>4. /\ session' \in Record \cup {NotFound} /\ good' \in Nat /\ issued' \in {0, 1}
      /\ verified' \subseteq Nat
      /\ session' # NotFound =>
            /\ session'.refresh = good' /\ session'.refresh <= issued'
            /\ session'.accepted \in verified' /\ session'.access \in verified'
    <2>1. CASE \E refresh \in {0, 1}, life \in 1 .. TokenTime :
                  /\ issued' = 1 /\ good' = refresh /\ verified' = {1}
                  /\ session' = [access |-> 1, refresh |-> refresh, pending |-> FALSE,
                                 tokenExpires |-> clock + life,
                                 accepted |-> 1, acceptedExpires |-> clock + life,
                                 expires |-> clock + AbsoluteTime, idle |-> clock + IdleTime,
                                 activity |-> clock, owner |-> {}, until |-> 0]
        BY WhatIsRead, BrowserAssumption, <2>1 DEF Record
    <2>2. CASE UNCHANGED <<providerVars, verified, session>>
        BY <1>2, <2>2 DEF providerVars
    <2> QED BY <2>1, <2>2 DEF ExchangeCode
<1>5. BrowserTyped' BY <1>1, <1>3, <1>4 DEF BrowserInv, BrowserTyped
<1>6. \A u \in BrowserThreads : user'[u].op \in {"idle", "read"} /\ ~Holding(u)' /\ ~Rotated(u)'
    BY <1>2, <1>3 DEF Holding, Rotated
<1>7. LoginFirst' BY <1>1, <1>2, <1>6 DEF LoginFirst
<1>8. SessionSound' BY <1>4 DEF SessionSound, RecordSound, Sound
<1>9. RequestsSound' BY <1>1, NobodyAnswered, <1>3, <1>6 DEF RequestsSound
<1>10. LeaseKept' /\ TokenKept' BY <1>1, <1>2, <1>4, <1>6 DEF LeaseKept, TokenKept
<1> QED BY <1>5, <1>7, <1>8, <1>9, <1>10 DEF BrowserInv

\* A process stops under a request: what it held is excused or was not needed.
LEMMA CrashKeeps ==
    ASSUME BrowserInv, NEW t \in BrowserThreads, BrowserCrash(t)
    PROVE  BrowserInv'
<1>1. /\ AnswerWith(t, 0) /\ user[t].op # "idle"
      /\ excused' = (excused \/ Rotated(t))
      /\ UNCHANGED <<loginState, session, good, issued, verified, ended, clock>>
    BY DEF BrowserCrash, AnswerWith, Idling, providerVars, Rotated
<1>2. /\ user' \in [BrowserThreads -> Request] /\ user'[t].op = "idle" /\ user'[t].answer = 0
      /\ \A u \in BrowserThreads \ {t} : user'[u] = user[u]
    BY <1>1, Requests, VerificationGoesOn DEF AnswerWith, BrowserInv
<1>3. BrowserTyped' BY <1>1, <1>2 DEF BrowserInv, BrowserTyped, Rotated
<1>4. LoginFirst' BY <1>1, <1>2 DEF BrowserInv, LoginFirst
<1>5. SessionSound' BY <1>1 DEF BrowserInv, SessionSound, RecordSound
<1>6. RequestsSound'
    BY <1>1, <1>2, <1>3, OthersSound DEF BrowserInv, BrowserTyped, RequestsSound, RecordSound,
       Rotated
<1>7. LeaseKept' /\ TokenKept'
    <2>1. \A u \in BrowserThreads \ {t} : /\ Holding(u)' <=> Holding(u)
                                          /\ Rotated(u)' <=> Rotated(u)
        BY <1>2 DEF Holding, Rotated
    <2>2. ~Holding(t)' /\ ~Rotated(t)' BY <1>2 DEF Holding, Rotated
    <2>3. LeaseKept' BY <1>1, <1>2, <2>1, <2>2 DEF BrowserInv, LeaseKept
    <2>4. TokenKept' BY <1>1, <1>2, <2>1, <2>2 DEF TokenKept, BrowserInv, BrowserTyped, Holding
    <2> QED BY <2>3, <2>4
<1> QED BY <1>3, <1>4, <1>5, <1>6, <1>7 DEF BrowserInv

\* Time passes; a lease that runs out under its owner is an excuse.
LEMMA SecondKeeps ==
    ASSUME BrowserInv, BrowserTick
    PROVE  BrowserInv'
<1>1. /\ clock' = clock + 1 /\ clock \in Nat
      /\ excused' = (excused \/ \E t \in BrowserThreads : Holding(t) /\ clock + 1 >= user[t].seen.until)
      /\ UNCHANGED <<loginState, session, good, issued, user, verified, ended>>
    BY DEF BrowserInv, BrowserTyped, BrowserTick, providerVars, Holding
<1>2. BrowserTyped' BY <1>1 DEF BrowserInv, BrowserTyped
<1>3. LoginFirst' BY <1>1 DEF BrowserInv, LoginFirst
<1>4. SessionSound' BY <1>1 DEF BrowserInv, SessionSound, RecordSound
<1>5. RequestsSound' BY <1>1 DEF BrowserInv, RequestsSound, RecordSound, Rotated
<1>6. \A u \in BrowserThreads : /\ Holding(u)' <=> Holding(u)
                                /\ Rotated(u)' <=> Rotated(u)
                                /\ Holding(u) => user[u].seen.until \in Nat
    BY <1>1, CallbackShapes, Fields DEF BrowserInv, Holding, Rotated
<1>7. LeaseKept' BY <1>1, <1>6 DEF BrowserInv, LeaseKept
<1>8. TokenKept'
    <2>1. SUFFICES ASSUME ~excused' PROVE TokenKept' BY DEF TokenKept
    <2>2. ~excused /\ \A u \in BrowserThreads : Holding(u) => ~(clock + 1 >= user[u].seen.until)
        BY <1>1, <2>1
    <2>3. \A u \in BrowserThreads : Holding(u) => clock' < user[u].seen.until
        BY <1>1, <1>6, <2>2
    <2> QED BY <1>1, <1>6, <2>2, <2>3 DEF BrowserInv, TokenKept, Holding
<1> QED BY <1>2, <1>3, <1>4, <1>5, <1>7, <1>8 DEF BrowserInv

-----------------------------------------------------------------------------
(* Requests with the lease.                                                *)

\* Who holds the lease goes on under it.  A token it rotated is the newest, and
\* without an excuse it is refused only about a record that is gone.
LEMMA UnderLease ==
    ASSUME BrowserInv, NEW t \in BrowserThreads, user[t].op \in {"refresh", "identity"},
           NEW r \in Request, ContinueAs(t, r), r.op \in {"refresh", "commit"},
           r.owner = user[t].owner, r.seen = user[t].seen,
           UNCHANGED <<loginState, session, ended, clock>>,
           verified \subseteq verified', verified' \subseteq Nat,
           issued' \in Nat, issued <= issued', good' \in Nat,
           excused' \in BOOLEAN, excused => excused',
           r.op = "commit" =>
               /\ Sound(r.updated, verified', issued')
               /\ r.updated.refresh # r.seen.refresh =>
                     ~r.permanent /\ ~r.failed /\ r.updated.refresh = good'
               /\ r.permanent /\ ~excused' => session = NotFound,
           ~excused' => \/ good' = good
                        \/ r.op = "commit" /\ r.updated.refresh # r.seen.refresh
    PROVE  BrowserInv'
<1>1. /\ user' \in [BrowserThreads -> Request] /\ user'[t] = r
      /\ \A u \in BrowserThreads \ {t} : user'[u] = user[u]
    BY VerificationGoesOn DEF BrowserInv
<1>2. Holding(t) /\ Holding(t)' /\ ~Rotated(t) BY <1>1 DEF Holding, Rotated
<1>3. BrowserTyped' BY <1>1 DEF BrowserInv, BrowserTyped
<1>4. LoginFirst' BY <1>1 DEF BrowserInv, LoginFirst
<1>5. session \in Record \cup {NotFound} BY WhatIsRead
<1>6. SessionSound' BY <1>3, <1>5, StaysSound DEF BrowserInv, SessionSound, RecordSound
<1>7. RequestsSound'
    BY <1>3, CallbackShapes, StaysSound, <1>1, OthersSound DEF BrowserInv, RequestsSound,
       RecordSound, Rotated
<1>8. \A u \in BrowserThreads \ {t} : /\ Holding(u)' <=> Holding(u)
                                      /\ Rotated(u)' <=> Rotated(u)
    BY <1>1 DEF Holding, Rotated
<1>9. LeaseKept'
    BY <1>1, <1>2, <1>8 DEF BrowserInv, LeaseKept
<1>10. TokenKept'
    BY <1>2, Alone, <1>1, <1>8 DEF TokenKept, BrowserInv, BrowserTyped, Holding, Rotated
<1> QED BY <1>3, <1>4, <1>6, <1>7, <1>9, <1>10 DEF BrowserInv

\* Without an excuse, who asks for tokens has the newest refresh token if the session
\* is still there.
LEMMA AsksWithNewest ==
    ASSUME BrowserInv, NEW t \in BrowserThreads, user[t].op \in {"refresh", "identity"},
           ~excused, session # NotFound
    PROVE  user[t].seen.refresh = good
BY Alone DEF Holding, Rotated, BrowserInv, TokenKept, LeaseKept

\* What a request under the lease knows.
LEMMA HolderFacts ==
    ASSUME BrowserInv, NEW t \in BrowserThreads, user[t].op \in {"refresh", "identity"}
    PROVE  /\ user[t].seen \in Record /\ RecordSound(user[t].seen)
           /\ user[t].owner \in SUBSET Owners /\ user[t].refreshed \in BOOLEAN
           /\ issued \in Nat /\ good \in Nat /\ clock \in Nat /\ excused \in BOOLEAN
           /\ verified \subseteq Nat
BY CallbackShapes DEF BrowserInv, Holding, BrowserTyped, RequestsSound

\* The provider answers, rejects, or is not heard.
LEMMA RefreshKeeps ==
    ASSUME BrowserInv, NEW t \in BrowserThreads, RefreshTokens(t)
    PROVE  BrowserInv'
<1> DEFINE s       == user[t].seen
           kept    == IF s.pending THEN s
                      ELSE [s EXCEPT !.accepted = s.access, !.acceptedExpires = s.tokenExpires]
           rotated(life) == [kept EXCEPT !.access = issued + 1, !.refresh = issued + 1,
                                         !.tokenExpires = clock + life, !.pending = TRUE]
<1>1. /\ user[t].op = "refresh"
      /\ UNCHANGED <<loginState, session, ended, clock, verified>>
    BY DEF RefreshTokens, budgetVars
<1>2. /\ s \in Record /\ RecordSound(s) /\ user[t].refreshed \in BOOLEAN
      /\ issued \in Nat /\ good \in Nat /\ clock \in Nat /\ excused \in BOOLEAN /\ verified \subseteq Nat
    BY <1>1, HolderFacts
<1>3. CASE /\ issued' = issued + 1 /\ good' = issued + 1 /\ excused' = excused
           /\ \E life \in 1 .. TokenTime : AskCommit(t, rotated(life), FALSE, FALSE, TRUE)
    <2> PICK life \in 1 .. TokenTime : AskCommit(t, rotated(life), FALSE, FALSE, TRUE) BY <1>3
    <2>1. kept \in Record /\ kept.accepted \in verified
        BY <1>2 DEF Record, RecordSound, Sound
    <2>2. PICK k \in Record : k = kept /\ k.accepted \in verified BY <2>1
    <2>3. clock + life \in Nat BY <1>2, BrowserAssumption
    <2>4. PICK n : n = [k EXCEPT !.access = issued + 1, !.refresh = issued + 1,
                                 !.tokenExpires = clock + life, !.pending = TRUE]
        OBVIOUS
    <2>5. n \in Record /\ n.accepted \in verified /\ n.pending /\ n.refresh = issued + 1
        <3>1. issued + 1 \in Nat BY <1>2
        <3>2. n \in Record
            <4>1. \A a, e \in Nat : [k EXCEPT !.access = a, !.refresh = a, !.tokenExpires = e,
                                               !.pending = TRUE] \in Record
                BY <2>2 DEF Record
            <4> QED BY <2>3, <2>4, <3>1, <4>1
        <3>3. /\ n.accepted = k.accepted /\ n.refresh = issued + 1
              /\ n.pending
            BY <2>2, <2>4 DEF Record
        <3> QED BY <2>2, <3>2, <3>3
    <2>6. n.refresh # s.refresh /\ Sound(n, verified', issued')
        BY <1>1, <1>2, <1>3, <2>5, Fields DEF RecordSound, Sound
    <2>7. PICK r \in Request :
              /\ ContinueAs(t, r) /\ r.op = "commit" /\ r.owner = user[t].owner /\ r.seen = s
              /\ r.updated = n /\ ~r.permanent /\ ~r.failed
        <3>1. AskCommit(t, n, FALSE, FALSE, TRUE) BY <1>3, <2>2, <2>4
        <3> QED BY <1>1, <2>5, <3>1, HolderFacts, Requests DEF AskCommit
    <2>8. /\ Sound(r.updated, verified', issued') /\ r.updated.refresh = good'
          /\ r.updated.refresh # r.seen.refresh
        BY <1>3, <2>5, <2>6, <2>7
    <2> QED BY <1>1, <1>2, <1>3, <2>7, <2>8, UnderLease
<1>4. CASE /\ issued' = issued + 1 /\ good' = issued + 1 /\ excused' = TRUE
           /\ \E expired \in BOOLEAN : AskCommit(t, s, expired, TRUE, user[t].refreshed)
    <2>1. PICK r \in Request :
              /\ ContinueAs(t, r) /\ r.op = "commit" /\ r.owner = user[t].owner /\ r.seen = s
              /\ r.updated = s /\ r.failed = TRUE
        BY ZenonT(60), <1>1, <1>2, <1>4, HolderFacts, Requests DEF AskCommit
    <2>2. Sound(s, verified', issued')
        BY <1>1, <1>2, <1>4, Fields DEF RecordSound, Sound
    <2> QED BY <1>1, <1>2, <1>4, <2>1, <2>2, UnderLease
<1>5. CASE /\ s.refresh # good /\ AskCommit(t, s, TRUE, TRUE, user[t].refreshed)
           /\ UNCHANGED <<providerVars, excused>>
    <2>1. PICK r \in Request :
              /\ ContinueAs(t, r) /\ r.op = "commit" /\ r.owner = user[t].owner /\ r.seen = s
              /\ r.updated = s /\ r.permanent = TRUE /\ r.failed = TRUE
        BY ZenonT(60), <1>1, <1>2, <1>5, HolderFacts, Requests DEF AskCommit
    <2>2. Sound(s, verified', issued') BY <1>1, <1>2, <1>5 DEF RecordSound, Sound, providerVars
    <2>3. ~excused' => session = NotFound BY <1>1, <1>5, AsksWithNewest
    <2> QED BY <1>1, <1>2, <1>5, <2>1, <2>2, <2>3, UnderLease DEF providerVars
<1>6. CASE /\ AskCommit(t, s, FALSE, TRUE, user[t].refreshed)
           /\ UNCHANGED <<providerVars, excused>>
    <2>1. PICK r \in Request :
              /\ ContinueAs(t, r) /\ r.op = "commit" /\ r.owner = user[t].owner /\ r.seen = s
              /\ r.updated = s /\ r.permanent = FALSE /\ r.failed = TRUE
        BY ZenonT(60), <1>1, <1>2, <1>6, HolderFacts, Requests DEF AskCommit
    <2>2. Sound(s, verified', issued') BY <1>1, <1>2, <1>6 DEF RecordSound, Sound, providerVars
    <2> QED BY <1>1, <1>2, <1>6, <2>1, <2>2, UnderLease DEF providerVars
<1> QED BY <1>3, <1>4, <1>5, <1>6 DEF RefreshTokens

\* The identity behind the token is verified, or not, or no longer vouched for.
LEMMA IdentityKeeps ==
    ASSUME BrowserInv, NEW t \in BrowserThreads, RefreshIdentity(t) \/ IdentityRejected(t)
    PROVE  BrowserInv'
<1> DEFINE s       == user[t].seen
           checked == [s EXCEPT !.accepted = s.access, !.acceptedExpires = s.tokenExpires,
                                !.pending = FALSE]
<1>1. /\ user[t].op \in {"refresh", "identity"}
      /\ UNCHANGED <<loginState, session, ended, clock, good, issued>>
    BY DEF RefreshIdentity, IdentityRejected, budgetVars, providerVars
<1>2. /\ s \in Record /\ RecordSound(s) /\ user[t].refreshed \in BOOLEAN
      /\ user[t].owner \in SUBSET Owners
      /\ issued \in Nat /\ good \in Nat /\ excused \in BOOLEAN /\ verified \subseteq Nat
    BY <1>1, HolderFacts
<1>3. CASE /\ AskCommit(t, checked, FALSE, FALSE, user[t].refreshed)
           /\ verified' = verified \cup {s.access} /\ excused' = excused
    <2>1. checked \in Record /\ checked.refresh = s.refresh /\ Sound(checked, verified', issued')
        BY <1>1, <1>2, <1>3 DEF Record, RecordSound, Sound
    <2>2. PICK n \in Record : n = checked BY <2>1
    <2>3. PICK r \in Request :
              /\ ContinueAs(t, r) /\ r.op = "commit" /\ r.owner = user[t].owner /\ r.seen = s
              /\ r.updated = n /\ ~r.permanent /\ ~r.failed
        <3>1. AskCommit(t, n, FALSE, FALSE, user[t].refreshed) BY <1>3, <2>2
        <3> QED BY <1>1, <1>2, <3>1, Requests DEF AskCommit
    <2>4. verified \subseteq verified' /\ verified' \subseteq Nat BY <1>2, <1>3, Fields
    <2>5. Sound(r.updated, verified', issued') /\ r.updated.refresh = r.seen.refresh
        BY <2>1, <2>2, <2>3
    <2>6. good' = good /\ issued' \in Nat /\ issued <= issued' /\ good' \in Nat /\ excused' \in BOOLEAN
        BY <1>1, <1>2, <1>3
    <2> QED BY <1>1, <1>3, <2>3, <2>4, <2>5, <2>6, UnderLease
<1>4. CASE /\ AskCommit(t, s, FALSE, TRUE, user[t].refreshed)
           /\ verified' = verified /\ excused' = excused
    <2>1. PICK r \in Request :
              /\ ContinueAs(t, r) /\ r.op = "commit" /\ r.owner = user[t].owner /\ r.seen = s
              /\ r.updated = s /\ r.permanent = FALSE /\ r.failed = TRUE
        BY <1>1, <1>2, <1>4, Requests DEF AskCommit
    <2>2. Sound(s, verified', issued') BY <1>1, <1>2, <1>4 DEF RecordSound
    <2> QED BY <1>1, <1>2, <1>4, <2>1, <2>2, UnderLease
<1>5. CASE /\ AskCommit(t, s, TRUE, TRUE, user[t].refreshed)
           /\ verified' = verified /\ excused' = TRUE
    <2>1. PICK r \in Request :
              /\ ContinueAs(t, r) /\ r.op = "commit" /\ r.owner = user[t].owner /\ r.seen = s
              /\ r.updated = s /\ r.permanent = TRUE /\ r.failed = TRUE
        BY <1>1, <1>2, <1>5, Requests DEF AskCommit
    <2>2. Sound(s, verified', issued') BY <1>1, <1>2, <1>5 DEF RecordSound
    <2> QED BY <1>1, <1>2, <1>5, <2>1, <2>2, UnderLease
<1>6. CASE /\ ContinueAs(t, [user[t] EXCEPT !.op = "refresh"])
           /\ UNCHANGED <<verified, excused>>
    BY <1>1, CallbackShapes, <1>6, <1>2, UnderLease DEF BrowserInv, Asking, Request
<1>7. CASE RefreshIdentity(t)
    BY <1>3, <1>4, <1>6, <1>7 DEF RefreshIdentity
<1>8. CASE IdentityRejected(t)
    BY <1>5, <1>8 DEF IdentityRejected
<1> QED BY <1>7, <1>8

\* A lease is claimed when nobody has a live one.
LEMMA ClaimKeeps ==
    ASSUME BrowserInv, NEW t \in BrowserThreads, ClaimLease(t)
    PROVE  BrowserInv'
<1> DEFINE s == session
<1>1. /\ user[t].op = "claim" /\ user[t].refreshed \in BOOLEAN
      /\ UNCHANGED <<loginState, good, issued, verified, excused, clock>>
    BY CallbackShapes DEF BrowserInv, ClaimLease, budgetVars, providerVars
<1>2. CASE ReadBrowserRecord = NotFound \/ ~Claims(ReadBrowserRecord, user[t].seen)
    BY <1>2, <1>1, WhatIsRead, QuietAnswer DEF ClaimLease, Quietly, Holding, RecordSound,
       providerVars
<1>3. CASE ReadBrowserRecord # NotFound /\ Claims(ReadBrowserRecord, user[t].seen)
    <2>1. /\ s \in Record /\ RecordSound(s) /\ ReadBrowserRecord = s /\ s # NotFound
          /\ ~(s.owner # {} /\ clock < s.until) /\ clock \in Nat
        BY <1>3, WhatIsRead DEF Claims
    <2>2. PICK owned : owned = [s EXCEPT !.owner = {<<t, clock>>}, !.until = clock + LeaseTime]
        OBVIOUS
    <2>3. clock + LeaseTime \in Nat /\ clock < clock + LeaseTime BY <2>1, BrowserAssumption
    <2>4. /\ owned \in Record /\ owned.owner = {<<t, clock>>} /\ owned.until = clock + LeaseTime
          /\ owned.refresh = s.refresh /\ RecordSound(owned)
        <3>1. {<<t, clock>>} \in SUBSET Owners BY <2>1 DEF Owners
        <3>2. \A o \in SUBSET Owners, e \in Nat : [s EXCEPT !.owner = o, !.until = e] \in Record
            BY <2>1 DEF Record
        <3>3. owned \in Record BY <2>2, <2>3, <3>1, <3>2
        <3>4. /\ owned.owner = {<<t, clock>>} /\ owned.until = clock + LeaseTime
              /\ owned.refresh = s.refresh /\ owned.access = s.access
              /\ owned.accepted = s.accepted /\ owned.pending = s.pending
            BY <2>1, <2>2 DEF Record
        <3> QED BY <2>1, <3>3, <3>4 DEF RecordSound, Sound
    <2>5. session' = owned /\ ended' = ended BY <1>3, <2>1, <2>2 DEF ClaimLease
    <2>6. PICK r \in Request :
              /\ ContinueAs(t, r) /\ r.op \in {"refresh", "identity"}
              /\ r.owner = {<<t, clock>>} /\ r.seen = owned
        <3>1. {<<t, clock>>} \in SUBSET Owners BY <2>1 DEF Owners
        <3>2. \E op \in {"refresh", "identity"} :
                  ContinueAs(t, [op |-> op, refreshed |-> user[t].refreshed,
                                 owner |-> {<<t, clock>>}, seen |-> owned])
            BY <1>3, <2>1, <2>2, <2>4 DEF ClaimLease
        <3> QED BY <1>1, <2>4, <3>1, <3>2, Requests
    <2>7. /\ user' \in [BrowserThreads -> Request] /\ user'[t] = r
          /\ \A u \in BrowserThreads \ {t} : user'[u] = user[u]
        BY <2>6, VerificationGoesOn DEF BrowserInv
    <2>8. BrowserTyped' BY <1>1, <2>4, <2>5, <2>7 DEF BrowserInv, BrowserTyped
    <2>9. LoginFirst' BY <1>1, <2>1, <2>5, <2>6, <2>7 DEF BrowserInv, LoginFirst
    <2>10. SessionSound' BY <1>1, <2>4, <2>5 DEF SessionSound, RecordSound
    <2>11. RequestsSound'
        BY <1>1, <2>8, <2>4, <2>6, <2>7, OthersSound DEF BrowserTyped, RecordSound, BrowserInv,
           RequestsSound, Rotated
    <2>12. \A u \in BrowserThreads : Holding(u) => ~(clock < user[u].seen.until)
        BY <2>1 DEF BrowserInv, LeaseKept
    <2>13. \A u \in BrowserThreads \ {t} : /\ Holding(u)' <=> Holding(u)
                                           /\ Rotated(u)' <=> Rotated(u)
        BY <2>7 DEF Holding, Rotated
    <2>14. LeaseKept'
        BY ZenonT(60), <1>1, <2>1, <2>4, <2>5, <2>6, <2>7, <2>12, <2>13 DEF BrowserInv, LeaseKept
    <2>15. TokenKept'
        <3>1. SUFFICES ASSUME ~excused PROVE TokenKept' BY <1>1 DEF TokenKept
        <3>2. \A u \in BrowserThreads : ~Holding(u) /\ ~Rotated(u)
            BY <2>12, <3>1 DEF BrowserInv, TokenKept, Holding, Rotated
        <3>3. s.refresh = good BY <2>1, <3>1, <3>2 DEF BrowserInv, TokenKept
        <3>4. \A u \in BrowserThreads : user'[u].op # "commit"
            BY <2>6, <2>7, <3>2 DEF Holding
        <3>5. "refused" \notin ended' BY <2>5, <3>1 DEF BrowserInv, TokenKept
        <3>6. \A u \in BrowserThreads : Holding(u)' => clock' < user'[u].seen.until
            BY <1>1, <2>3, <2>4, <2>6, <2>7, <2>13, <3>2
        <3> QED BY <1>1, <2>4, <2>5, <3>3, <3>4, <3>5, <3>6 DEF TokenKept, Rotated
    <2> QED BY <2>8, <2>9, <2>10, <2>11, <2>14, <2>15 DEF BrowserInv
<1> QED BY <1>2, <1>3

\* The outcome is stored by whoever still owns the lease, and by nobody else.
LEMMA CommitKeeps ==
    ASSUME BrowserInv, NEW t \in BrowserThreads, CommitLeased(t)
    PROVE  BrowserInv'
<1> DEFINE j == user[t]
<1>1. /\ j.op = "commit" /\ Holding(t) /\ j.seen \in Record /\ RecordSound(j.seen)
      /\ j.updated \in Record /\ RecordSound(j.updated) /\ j.refreshed \in BOOLEAN
      /\ (Rotated(t) => ~j.permanent /\ ~j.failed)
      /\ UNCHANGED <<loginState, good, issued, verified, excused, clock>>
    BY CallbackShapes DEF BrowserInv, CommitLeased, Holding, RequestsSound, budgetVars, providerVars
<1>2. PICK r \in Request :
          /\ ContinueAs(t, r) /\ r.op \in {"idle", "read"}
          /\ r.op = "idle" => r.answer \in verified \cup {0}
    BY <1>1, Requests DEF BrowserInv, BrowserTyped, CommitLeased, AcceptedSession, RecordSound,
       Sound, AnswerWith
<1>3. /\ user' \in [BrowserThreads -> Request] /\ user'[t] = r
      /\ \A u \in BrowserThreads \ {t} : user'[u] = user[u]
    BY <1>2, VerificationGoesOn DEF BrowserInv
<1>4. ~Holding(t)' /\ ~Rotated(t)' /\ \A u \in BrowserThreads \ {t} : /\ Holding(u)' <=> Holding(u)
                                                                     /\ Rotated(u)' <=> Rotated(u)
    BY <1>2, <1>3 DEF Holding, Rotated
<1>5. \/ session' \in {session, NotFound} /\ (session.owner # j.owner \/ session' = NotFound)
      \/ /\ session # NotFound /\ session.owner = j.owner /\ ~j.permanent
         /\ \E x \in Record : /\ x = IF j.failed THEN session ELSE j.updated
                             /\ session' = [x EXCEPT !.owner = {}, !.until = 0]
    BY WhatIsRead, <1>1 DEF CommitLeased
<1>6. /\ session' \in Record \cup {NotFound}
      /\ session' # NotFound => RecordSound(session') /\ session # NotFound
      /\ session' = session \/ session' = NotFound \/ session.owner = j.owner
    <2>1. CASE session' \in {session, NotFound}
        BY <2>1, WhatIsRead
    <2>2. CASE session # NotFound /\ session.owner = j.owner /\
               \E x \in Record : /\ x = IF j.failed THEN session ELSE j.updated
                              /\ session' = [x EXCEPT !.owner = {}, !.until = 0]
        <3>1. PICK x \in Record : /\ x = IF j.failed THEN session ELSE j.updated
                                  /\ session' = [x EXCEPT !.owner = {}, !.until = 0]
            BY <2>2
        <3>2. RecordSound(x) BY <1>1, <2>2, <3>1, WhatIsRead
        <3>3. session' \in Record /\ RecordSound(session')
            BY <3>1, <3>2 DEF Record, RecordSound, Sound
        <3> QED BY <2>2, <3>3
    <2> QED BY <1>5, <2>1, <2>2
<1>7. BrowserTyped' BY <1>1, <1>3, <1>6 DEF BrowserInv, BrowserTyped
<1>8. LoginFirst' BY <1>1, <1>2, <1>3 DEF BrowserInv, LoginFirst
<1>9. SessionSound' BY <1>1, <1>6 DEF SessionSound, RecordSound
<1>10. RequestsSound'
    BY <1>1, <1>2, <1>3, <1>4, <1>7, OthersSound DEF BrowserInv, BrowserTyped, RequestsSound,
       RecordSound, Rotated
<1>11. LeaseKept'
    <2>1. ASSUME NEW u \in BrowserThreads \ {t}, Holding(u), clock < user[u].seen.until,
                 session' # NotFound
          PROVE  session' = session
        <3>1. SUFFICES ASSUME session' # session PROVE FALSE OBVIOUS
        <3>2. session # NotFound /\ session.owner = j.owner BY <1>6, <2>1, <3>1
        <3>3. session.owner = user[u].owner BY <2>1, <3>2 DEF BrowserInv, LeaseKept
        <3>4. PICK c \in Nat, d \in Nat : j.owner = {<<t, c>>} /\ user[u].owner = {<<u, d>>}
            BY <1>1, <2>1 DEF BrowserInv, LeaseKept
        <3>5. <<t, c>> = <<u, d>> BY <3>2, <3>3, <3>4
        <3> QED BY <3>5
    <2>2. SUFFICES ASSUME NEW u \in BrowserThreads, Holding(u)'
                   PROVE  /\ \E c \in Nat : user'[u].owner = {<<u, c>>}
                          /\ clock' < user'[u].seen.until /\ session' # NotFound =>
                                /\ session'.owner = user'[u].owner
                                /\ session'.until = user'[u].seen.until
                                /\ session'.refresh = user'[u].seen.refresh
        BY DEF LeaseKept
    <2>3. u # t /\ Holding(u) /\ user'[u] = user[u] BY <1>3, <1>4, <2>2 DEF Holding
    <2> QED BY <1>1, <1>6, <2>1, <2>3 DEF BrowserInv, LeaseKept
<1>12. TokenKept'
    <2>1. SUFFICES ASSUME ~excused PROVE TokenKept' BY <1>1 DEF TokenKept
    <2>2. \A u \in BrowserThreads : /\ Holding(u) => clock < user[u].seen.until
                                    /\ user[u].op = "commit" /\ user[u].permanent => session = NotFound
                                    /\ Rotated(u) /\ session # NotFound => user[u].updated.refresh = good
        BY <2>1 DEF BrowserInv, TokenKept
    <2>3. \A u \in BrowserThreads :
              /\ Holding(u)' => clock' < user'[u].seen.until
              /\ user'[u].op = "commit" /\ user'[u].permanent => session' = NotFound
              /\ Rotated(u)' /\ session' # NotFound => user'[u].updated.refresh = good'
        BY <1>2, <1>3, <1>4, <1>1, <1>6, <2>2 DEF Holding, Rotated
    <2>4. ASSUME session' # NotFound, \A u \in BrowserThreads : ~Rotated(u)'
          PROVE  session'.refresh = good'
        <3>1. /\ session # NotFound /\ session.owner = j.owner
              /\ session.refresh = j.seen.refresh
            BY <1>1, <1>6, <2>2, <2>4 DEF BrowserInv, LeaseKept
        <3>2. PICK x \in Record : /\ x = IF j.failed THEN session ELSE j.updated
                                  /\ session' = [x EXCEPT !.owner = {}, !.until = 0]
            BY <1>5, <2>4, <3>1
        <3>3. session'.refresh = x.refresh BY <3>2 DEF Record
        <3>4. CASE Rotated(t)
            BY <1>1, <2>2, <3>1, <3>2, <3>3, <3>4
        <3>5. CASE ~Rotated(t)
            BY <1>4, <2>1, <2>4, <3>1, <3>5, <1>1, <3>2, <3>3 DEF BrowserInv, TokenKept, Rotated
        <3> QED BY <3>4, <3>5
    <2>5. "refused" \notin ended'
        BY ReadIsStored, <1>1, <2>1, <2>2 DEF CommitLeased, BrowserInv, TokenKept
    <2> QED BY <2>3, <2>4, <2>5 DEF TokenKept
<1> QED BY <1>7, <1>8, <1>9, <1>10, <1>11, <1>12 DEF BrowserInv

-----------------------------------------------------------------------------
(* The theorems.                                                           *)

\* The invariant holds in every reachable state: what requests have read, hold and
\* want to store agrees with the record and with the tokens the provider issued.
THEOREM BrowserInductive == BrowserSpec => []BrowserInv
<1>1. BrowserInit => BrowserInv
    <2> SUFFICES ASSUME BrowserInit PROVE BrowserInv OBVIOUS
    <2>1. \A t \in BrowserThreads : user[t].op = "idle" /\ user[t].answer = 0 /\ user[t] \in Request
        BY Requests DEF BrowserInit, Idling
    <2>2. BrowserTyped BY <2>1, Requests DEF BrowserInit, BrowserTyped, Idling
    <2>3. LoginFirst BY <2>1 DEF BrowserInit, LoginFirst
    <2>4. \A t \in BrowserThreads : ~Holding(t) /\ ~Rotated(t) BY <2>1 DEF Holding, Rotated
    <2>5. SessionSound /\ LeaseKept /\ TokenKept
        BY <2>1, <2>4 DEF BrowserInit, SessionSound, LeaseKept, TokenKept
    <2>6. RequestsSound BY <2>1, <2>4 DEF RequestsSound
    <2> QED BY <2>2, <2>3, <2>5, <2>6 DEF BrowserInv
<1>2. BrowserInv /\ [BrowserNext]_browserVars => BrowserInv'
    <2>1. CASE BrowserInv /\ BrowserNext
        BY <2>1, BeginAuthKeeps, CallbackKeeps, ExchangeKeeps, BeginsKeep, ReadKeeps, DeleteAndRenewKeep,
           ClaimKeeps, RefreshKeeps, IdentityKeeps, CommitKeeps, CrashKeeps, SecondKeeps
        DEF BrowserNext
    <2>2. CASE BrowserInv /\ UNCHANGED browserVars
        BY <2>2 DEF browserVars, providerVars, historyVars, budgetVars, BrowserInv, BrowserTyped,
                    LoginFirst, SessionSound, RequestsSound, RecordSound, LeaseKept, TokenKept,
                    Holding, Rotated
    <2> QED BY <2>1, <2>2
<1> QED BY <1>1, <1>2, PTL DEF BrowserSpec

\* A session is refused by the provider only with an excuse, never because two requests
\* used one refresh token, and every answer carries an access token that was verified.
THEOREM SessionProved == BrowserSpec => []SessionKept
<1>1. BrowserInv => SessionKept BY DEF BrowserInv, RequestsSound, TokenKept, SessionKept
<1> QED BY <1>1, BrowserInductive, PTL
=============================================================================
