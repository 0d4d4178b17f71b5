----------------------------- MODULE Scheduler -----------------------------
(***************************************************************************)
(* Cron triggers: how an expression is read and matched, and the runners   *)
(* that invoke the triggers due in a minute.  A dynamic manager updates    *)
(* the jobs of its one runner; a legacy manager starts a runner with a     *)
(* pool and then stops the runner of the pool before.  A runner's timer is *)
(* read some time after it fired, jobs change and the runner is stopped at *)
(* any moment.                                                             *)
(***************************************************************************)
EXTENDS Integers, FiniteSets, Functions

CONSTANTS Runners, Calendar, \* minute -> [minute, hour, day, month, weekday]
          Expressions,       \* expressions of deployed workers: five fields of items each
          MaxUpdates

(* What is written in a field, and what a clock can say.  Steps are small  *)
(* enough that adding one to a value of the field does not wrap around.    *)
Star == [all |-> TRUE, from |-> 0, to |-> 0, step |-> 1]
CronItem == [all : BOOLEAN, from : Int, to : Int, step : Int]
CronText == {x \in [plain : BOOLEAN, items : SUBSET CronItem] : x.plain => x.items = {Star}}
CalendarTime == [minute : 0..59, hour : 0..23, day : 1..31, month : 1..12, weekday : 0..6]

ASSUME SchedulerAssumption ==
    /\ MaxUpdates \in Nat
    /\ \A e \in DOMAIN Expressions : Expressions[e] \in [1..5 -> CronText]
    /\ \A m \in DOMAIN Calendar : Calendar[m] \in CalendarTime

VARIABLES wallMinute, cron, invocations, updates,
          triggered, considered  \* history: how often a runner invoked a job for a minute;
                                 \* the jobs it had when it did a minute

schedulerVars == <<wallMinute, cron, invocations, updates, triggered, considered>>

---------------------------------------------------------------------------
(* Expressions.  An item of a field is a range with a step; "*" is the     *)
(* whole range.  A field that is written as just "*" is a wildcard; "*/1"  *)
(* and "*,*" are not.                                                      *)

FieldRange == <<0..59, 0..23, 1..31, 1..12, 0..7>>
Item(from, to, step) == [all |-> FALSE, from |-> from, to |-> to, step |-> step]
Plain == [plain |-> TRUE, items |-> {Star}]
Listed(items) == [plain |-> FALSE, items |-> items]
NoField == [values |-> {}, wildcard |-> FALSE]

ParseCronRange(item, range) ==
    IF item.all THEN range
    ELSE IF {item.from, item.to} \subseteq range THEN item.from..item.to ELSE {}

ParseCronField(text, range) ==
    LET items == text.items
        span(i) == ParseCronRange(i, range)
        first(i) == CHOOSE v \in span(i) : \A w \in span(i) : v <= w
        values(i) == {v \in span(i) : (v - first(i)) % i.step = 0}
    IN  IF \E i \in items : i.step <= 0 \/ span(i) = {} THEN NoField
        ELSE [values |-> UNION {values(i) : i \in items}, wildcard |-> text.plain]

(* Day 7 of the week is day 0.                                             *)
ParseCron(expression) ==
    [f \in DOMAIN FieldRange |->
        LET field == ParseCronField(expression[f], FieldRange[f])
        IN  IF f = 5 /\ 7 \in field.values
            THEN [field EXCEPT !.values = (@ \ {7}) \cup {0}] ELSE field]

ValidCron(expression) == NoField \notin Range(ParseCron(expression))

Matches(s, t) ==
    LET day == t.day \in s[3].values
        weekday == t.weekday \in s[5].values
    IN  /\ t.minute \in s[1].values /\ t.hour \in s[2].values /\ t.month \in s[4].values
        /\ IF ~s[3].wildcard /\ ~s[5].wildcard THEN day \/ weekday ELSE day /\ weekday

(* The expressions a deployment may have; it may have several, all         *)
(* different.                                                              *)
NormalizeTriggers == {e \in DOMAIN Expressions : ValidCron(Expressions[e])}

DueMinutes ==
    [e \in DOMAIN Expressions |->
        {m \in DOMAIN Calendar : Matches(ParseCron(Expressions[e]), Calendar[m])}]

---------------------------------------------------------------------------
(* Runners.                                                                *)

NoRunner == [st |-> "none", jobs |-> {}, aim |-> 0, fired |-> {}]
Active == SUBSET NormalizeTriggers
\* Mutant: the timer is set for the minute that is running.
ThisMinute(m) == m
NextMinute(m) == m + 1

StartCronRunner(r, active) ==
    /\ cron[r].st = "none" /\ active # {} /\ updates > 0 /\ updates' = updates - 1
    /\ cron' = [cron EXCEPT ![r] = [NoRunner EXCEPT !.st = "waiting", !.jobs = active,
                                                   !.aim = NextMinute(wallMinute)]]
    /\ UNCHANGED <<wallMinute, invocations, triggered, considered>>

(* Future triggers are replaced; what runs goes on.                        *)
UpdateRunner(r, active) ==
    /\ cron[r].st \in {"waiting", "stopping"} /\ updates > 0 /\ updates' = updates - 1
    /\ cron' = [cron EXCEPT ![r].jobs = active]
    /\ UNCHANGED <<wallMinute, invocations, triggered, considered>>

TimerFires(r) ==
    /\ cron[r].st \in {"waiting", "stopping"} /\ cron[r].aim # 0 /\ wallMinute >= cron[r].aim
    /\ cron' = [cron EXCEPT ![r].fired = {wallMinute}, ![r].aim = 0]
    /\ UNCHANGED <<wallMinute, invocations, updates, triggered, considered>>

(* The time at which the timer fired decides what is due.                  *)
RunDue(r) ==
    /\ cron[r].st \in {"waiting", "stopping"}
    /\ \E m \in cron[r].fired :
          LET due == {<<r, e, m>> : e \in {j \in cron[r].jobs : m \in DueMinutes[j]}}
          IN  /\ invocations' = invocations \cup due
              /\ triggered' = [i \in DOMAIN triggered |->
                                  IF i \in due THEN triggered[i] + 1 ELSE triggered[i]]
              /\ considered' = considered \cup {<<r, e, m>> : e \in cron[r].jobs}
    /\ cron' = [cron EXCEPT ![r].fired = {}, ![r].aim = NextMinute(wallMinute)]
    /\ UNCHANGED <<wallMinute, updates>>

(* The worker answers, or there is none, or time or the runner is over.    *)
Invoke(i) ==
    /\ invocations' = invocations \ {i}
    /\ UNCHANGED <<wallMinute, cron, updates, triggered, considered>>

StopRunner(r) ==
    /\ cron[r].st = "waiting"
    /\ cron' = [cron EXCEPT ![r].st = "stopping"]
    /\ UNCHANGED <<wallMinute, invocations, updates, triggered, considered>>
RunReturns(r) ==
    /\ cron[r].st = "stopping" /\ cron' = [cron EXCEPT ![r].st = "returned"]
    /\ UNCHANGED <<wallMinute, invocations, updates, triggered, considered>>
WorkDone(r) == \A i \in invocations : i[1] # r
StopReturns(r) ==
    /\ cron[r].st = "returned" /\ WorkDone(r)
    /\ cron' = [cron EXCEPT ![r] = [NoRunner EXCEPT !.st = "stopped"]]
    /\ UNCHANGED <<wallMinute, invocations, updates, triggered, considered>>

MinutePasses ==
    /\ wallMinute + 1 \in DOMAIN Calendar /\ wallMinute' = wallMinute + 1
    /\ UNCHANGED <<cron, invocations, updates, triggered, considered>>

SchedulerInit ==
    /\ wallMinute = 1 /\ cron = [r \in Runners |-> NoRunner] /\ invocations = {}
    /\ triggered = [i \in Runners \X (DOMAIN Expressions) \X (DOMAIN Calendar) |-> 0]
    /\ considered = {} /\ updates = MaxUpdates

SchedulerNext ==
    \/ MinutePasses
    \/ \E i \in invocations : Invoke(i)
    \/ \E r \in Runners :
          \/ TimerFires(r) \/ RunDue(r) \/ StopRunner(r) \/ RunReturns(r) \/ StopReturns(r)
          \/ \E active \in Active : StartCronRunner(r, active) \/ UpdateRunner(r, active)

---------------------------------------------------------------------------
(* When an expression asks for a minute: the reference for ParseCron and   *)
(* Matches, with Sunday 0 and 7 alike.                                     *)
Asked(e, t) ==
    LET low(i, f) == IF i.all THEN (IF f \in {3, 4} THEN 1 ELSE 0) ELSE i.from
        within(v, f) == \E i \in e[f].items : /\ i.all \/ v \in i.from..i.to
                                              /\ (v - low(i, f)) % i.step = 0
        weekday == within(t.weekday, 5) \/ (t.weekday = 0 /\ within(7, 5))
    IN  /\ within(t.minute, 1) /\ within(t.hour, 2) /\ within(t.month, 4)
        /\ IF e[3].plain THEN weekday
           ELSE IF e[5].plain THEN within(t.day, 3) ELSE within(t.day, 3) \/ weekday

AskedMinutes ==
    [e \in DOMAIN Expressions |-> {m \in DOMAIN Calendar : Asked(Expressions[e], Calendar[m])}]

(* Of the jobs a runner has when it does a minute, it invokes once each    *)
(* job whose expression asks for that minute and no other, however late    *)
(* its timer is read and whatever updates arrive; once Stop has returned   *)
(* nothing it started is still running.                                    *)
TriggersOnce ==
    /\ \A i \in DOMAIN triggered :
          triggered[i] = IF i \in considered /\ i[3] \in AskedMinutes[i[2]] THEN 1 ELSE 0
    /\ \A i \in invocations : cron[i[1]].st # "stopped"
=============================================================================
