---------------------------- MODULE TaskSchedule ----------------------------
(***************************************************************************)
(* When the manager of app/app.go runs a task: cron expressions and        *)
(* intervals, the poll of the scheduler once a second, the goroutines it   *)
(* starts, manual runs, pause, PUT, crashes and restarts, on a clock.      *)
(* One task; what its run does is TaskManager's and WorkflowEngine's.      *)
(*                                                                         *)
(* Time is counted in ticks of the scheduler.  A cron expression is a      *)
(* sequence of fields, a field the items between its commas, and an item   *)
(* says what stands before and after its slash.                            *)
(***************************************************************************)
EXTENDS Integers, Sequences

CONSTANTS
  Limits,         \* the five ranges <<min, max>> of parseCron
  TicksPerMinute, \* 60 in the code
  MinInterval,    \* 30 in the code
  Stored,         \* schedules a task may have at the start, valid or not
  Requested,      \* schedules that PUT requests ask for
  MaxFailed,      \* bound on saves that fail
  MaxTick,        \* bound on the clock
  MaxLag          \* ticks that may pass before a step already owed is taken

\* An item of a cron field: base "star" (also the empty base of "/5"), "value",
\* "range", "junk" or "empty"; step 0 stands for one that is not a positive number.
CronItem == [base : {"star", "value", "range", "junk", "empty"},
             from : Int, to : Int, slashes : Nat, step : Nat]
Schedule == [interval : Int, cron : Seq(Seq(CronItem))]

ASSUME ScheduleAssumption ==
  /\ \A i \in 1..5 : /\ Limits[i][1] \in Nat /\ Limits[i][2] \in Nat
                     /\ Limits[i][1] <= Limits[i][2]
  /\ Stored \subseteq Schedule /\ Requested \subseteq Schedule
  /\ TicksPerMinute \in Nat \ {0}
  /\ MinInterval \in Nat \ {0}
  /\ MaxFailed \in Nat
  /\ MaxTick \in Nat
  /\ MaxLag \in Nat

VARIABLES
  now,     \* the clock
  up,      \* the server serves
  task,    \* schedule, Enabled and LastRunAt of the task in s.state
  saved,   \* the same in the database
  failed,  \* saves that have failed
  polled,  \* the tick in the ticker's channel or in the scheduler's hands, or NoTick
  pending, \* scheduled goroutines that have not taken the lock yet
  manual,  \* a manual run has been accepted and has not taken the lock yet
  running, \* the entry in s.running: "none", "registered" or "begun"
  since,   \* when a run that is registered and not begun took the lock
  put,     \* the copy of LastRunAt a PUT holds and when it was taken, or NoPut
  begun,   \* when the last run began; Never once its stamp is lost (history)
  chance   \* a poll of this minute found the task enabled and idle (history)

vars == <<now, up, task, saved, failed, polled, pending, manual, running, since, put,
          begun, chance>>

Never  == -1
NoTick == 0
NoPut  == [last |-> Never, at |-> Never]

-----------------------------------------------------------------------------
(* Cron expressions *)

Span(item, limits) ==
  CASE item.base = "star"  -> limits
    [] item.base = "value" -> <<item.from, item.from>>
    [] OTHER               -> <<item.from, item.to>>

BadItem(item) ==
  \/ item.base \in {"junk", "empty"}
  \/ item.slashes > 1
  \/ item.slashes = 1 /\ item.step = 0

Stepped(span, step) == {span[1] + k * step : k \in 0..(span[2] - span[1]) \div step}

\* The values of an item, {} for an error.
ParseItem(item, limits) ==
  LET span == Span(item, limits)
  IN  IF BadItem(item) \/ span[1] < limits[1] \/ span[2] > limits[2] \/ span[1] > span[2]
      THEN {}
      ELSE Stepped(span, IF item.slashes = 1 THEN item.step ELSE 1)

ParseCronField(field, limits) ==
  LET values == {ParseItem(field[i], limits) : i \in DOMAIN field}
  IN  IF {} \in values THEN {} ELSE UNION values

\* The value sets of the five fields, <<>> for an error.
ParseCron(expr) ==
  LET fields == [i \in 1..5 |-> ParseCronField(expr[i], Limits[i])]
  IN  IF Len(expr) # 5 \/ {} \in {fields[i] : i \in 1..5} THEN <<>> ELSE fields

CronMatches(expr, clock) ==
  LET fields == ParseCron(expr)
  IN  fields # <<>> /\ \A i \in 1..5 : clock[i] \in fields[i]

\* Minute, Hour, Day, Month and Weekday of a tick (all months equally long).
Size(i) == Limits[i][2] - Limits[i][1] + 1
Minute(t) == t \div TicksPerMinute
Clock(t) ==
  LET hour == Minute(t) \div Size(1)
      day  == hour \div Size(2)
      count == <<Minute(t), hour, day, day \div Size(3), day>>
  IN  [i \in 1..5 |-> Limits[i][1] + (count[i] % Size(i))]

-----------------------------------------------------------------------------
(* taskDue and validateTask *)

Blank == <<>>

\* Bug: the minute of the last run is compared and the hour is not.
BugTaskDue(t, at) ==
  IF t.schedule.interval > 0
  THEN \/ t.last = Never
       \/ t.schedule.interval >= MinInterval /\ at - t.last >= t.schedule.interval
  ELSE /\ t.schedule.cron # Blank
       /\ CronMatches(t.schedule.cron, Clock(at))
       /\ t.last = Never \/ Clock(t.last)[1] # Clock(at)[1]

TaskDue(t, at) ==
  IF t.schedule.interval > 0
  THEN \/ t.last = Never
       \/ t.schedule.interval >= MinInterval /\ at - t.last >= t.schedule.interval
  ELSE /\ t.schedule.cron # Blank
       /\ CronMatches(t.schedule.cron, Clock(at))
       /\ t.last = Never \/ Minute(t.last) # Minute(at)

ValidTask(s) ==
  /\ s.interval >= 0
  /\ s.interval > 0 => s.cron = Blank /\ s.interval >= MinInterval
  /\ s.cron # Blank => ParseCron(s.cron) # <<>>

-----------------------------------------------------------------------------
(* The server *)

Init ==
  /\ now = 0
  /\ up = TRUE
  /\ task \in [schedule : Stored, enabled : BOOLEAN, last : {Never}]
  /\ saved = task
  /\ failed = 0
  /\ polled = NoTick
  /\ pending = {}
  /\ manual = FALSE
  /\ running = "none"
  /\ since = 0
  /\ put = NoPut
  /\ begun = Never
  /\ chance = FALSE

\* saveLocked is one transaction; most callers drop its error and PUT answers it.
Save ==
  \/ saved' = task' /\ UNCHANGED failed
  \/ failed < MaxFailed /\ failed' = failed + 1 /\ UNCHANGED saved

\* The clock goes on while no step is owed for longer than MaxLag.  The ticker
\* drops a tick while its channel holds one.
Tick ==
  /\ now < MaxTick
  /\ \A g \in pending : now - g.at < MaxLag
  /\ polled # NoTick => now - polled < MaxLag
  /\ running = "registered" => now - since < MaxLag
  /\ put # NoPut => now - put.at < MaxLag
  /\ now' = now + 1
  /\ polled' = IF up /\ polled = NoTick THEN now + 1 ELSE polled
  /\ chance' = (chance /\ Minute(now + 1) = Minute(now))
  /\ UNCHANGED <<up, task, saved, failed, pending, manual, running, since, put, begun>>

\* The poll copies the tasks after it has received its tick, which may be older
\* than LastRunAt by then; go s.runTask(...).  A goroutine is fresh until a run
\* or a PUT comes between; one whose tick is older than the last run never is.
Poll ==
  /\ polled # NoTick
  /\ polled' = NoTick
  /\ pending' = pending \cup
       {g \in {[at |-> polled, fresh |-> begun <= polled]} : task.enabled /\ TaskDue(task, polled)}
  /\ chance' = \/ chance
               \/ /\ Minute(polled) = Minute(now)
                  /\ task.enabled /\ running = "none" /\ pending = {} /\ ~manual
  /\ UNCHANGED <<now, up, task, saved, failed, manual, running, since, put, begun>>

\* runTask takes the lock: one run at a time, no second look at the schedule.
Register ==
  /\ \/ \E g \in pending : pending' = pending \ {g} /\ UNCHANGED manual
     \/ manual /\ manual' = FALSE /\ UNCHANGED pending
  /\ running' = IF running = "none" THEN "registered" ELSE running
  /\ since' = IF running = "none" THEN now ELSE since
  /\ UNCHANGED <<now, up, task, saved, failed, polled, put, begun, chance>>

Overtaken == {[g EXCEPT !.fresh = FALSE] : g \in pending}

\* Bug: a run that begins leaves LastRunAt alone until the task has run once.
BugBegin ==
  /\ running = "registered"
  /\ running' = "begun"
  /\ \E started \in since..now :
       /\ task' = IF task.last = Never THEN task ELSE [task EXCEPT !.last = started]
       /\ begun' = started
  /\ Save
  /\ since' = 0
  /\ pending' = Overtaken
  /\ UNCHANGED <<now, up, polled, manual, put, chance>>

\* started is taken outside the lock, after the run has registered;
\* updateTaskState stamps it as LastRunAt later.
Begin ==
  /\ running = "registered"
  /\ running' = "begun"
  /\ \E started \in since..now :
       /\ task' = [task EXCEPT !.last = started]
       /\ begun' = started
  /\ Save
  /\ since' = 0
  /\ pending' = Overtaken
  /\ UNCHANGED <<now, up, polled, manual, put, chance>>

\* The outcome and the record of the run are saved, then the entry is deleted.
Finish ==
  /\ running = "begun"
  /\ running' = "none"
  /\ UNCHANGED task
  /\ Save
  /\ UNCHANGED <<now, up, polled, pending, manual, since, put, begun, chance>>

\* POST run, pause and resume.
RunManually ==
  /\ up
  /\ ~manual
  /\ manual' = TRUE
  /\ UNCHANGED <<now, up, task, saved, failed, polled, pending, running, since, put, begun, chance>>

SetEnabled(b) ==
  /\ up
  /\ task' = [task EXCEPT !.enabled = b]
  /\ Save
  /\ UNCHANGED <<now, up, polled, pending, manual, running, since, put, begun, chance>>

\* PUT copies LastRunAt under the read lock and writes it back later; a copy
\* that is no longer the task's loses the stamp of a run.
ReadForPut ==
  /\ up
  /\ put = NoPut
  /\ put' = [last |-> task.last, at |-> now]
  /\ UNCHANGED <<now, up, task, saved, failed, polled, pending, manual, running, since, begun, chance>>

PutTask(s, b) ==
  /\ put # NoPut
  /\ put' = NoPut
  /\ \/ /\ ValidTask(s)
        /\ task' = [schedule |-> s, enabled |-> b, last |-> put.last]
        /\ begun' = IF put.last = task.last THEN begun ELSE Never
        /\ Save
        /\ pending' = Overtaken
        /\ chance' = FALSE
     \/ ~ValidTask(s) /\ UNCHANGED <<task, saved, failed, pending, begun, chance>>
  /\ UNCHANGED <<now, up, polled, manual, running, since>>

\* What is not in the database is gone: load reads the last save that succeeded,
\* which may not have the stamp of the last run.
Crash ==
  /\ up
  /\ up' = FALSE
  /\ polled' = NoTick
  /\ pending' = {}
  /\ manual' = FALSE
  /\ running' = "none"
  /\ since' = 0
  /\ put' = NoPut
  /\ chance' = FALSE
  /\ UNCHANGED <<now, task, saved, failed, begun>>

Restart ==
  /\ ~up
  /\ up' = TRUE
  /\ task' = saved
  /\ begun' = IF saved.last = task.last THEN begun ELSE Never
  /\ UNCHANGED <<now, saved, failed, polled, pending, manual, running, since, put, chance>>

Next ==
  \/ Tick \/ Poll \/ Register \/ Begin \/ Finish
  \/ RunManually \/ ReadForPut \/ Crash \/ Restart
  \/ \E b \in BOOLEAN : SetEnabled(b) \/ \E s \in Requested : PutTask(s, b)

Spec == Init /\ [][Next]_vars

-----------------------------------------------------------------------------
(* Properties *)

\* What a cron expression means, item by item and without parsing it: a value
\* is that value only, steps count from the start of the range.
ItemMeans(item, limits, v) ==
  LET first == IF item.base = "star" THEN limits[1] ELSE item.from
  IN  /\ item.base = "value" => v = item.from
      /\ item.base = "range" => item.from <= v /\ v <= item.to
      /\ item.slashes = 1 => (v - first) % item.step = 0

CronMeans(expr, clock) ==
  \A i \in 1..5 : \E k \in DOMAIN expr[i] : ItemMeans(expr[i][k], Limits[i], clock[i])

\* parseCron, cronMatches and taskDue: a minute that a valid expression means,
\* and in which a poll found the task enabled and idle, ends with a run stamped
\* in it or one that is on its way.
MatchingMinuteRuns ==
  [][ /\ Minute(now') # Minute(now)
      /\ chance
      /\ task.schedule.cron # Blank
      /\ ValidTask(task.schedule)
      /\ CronMeans(task.schedule.cron, Clock(now))
      => \/ task.last # Never /\ Minute(task.last) = Minute(now)
         \/ pending # {} \/ manual \/ running # "none" ]_vars

\* The schedule of the task has come round again since a run that began at t.
Ripe(t) ==
  \/ t = Never
  \/ task.schedule.interval > 0 /\ MinInterval <= task.schedule.interval
     /\ now - t >= task.schedule.interval
  \/ task.schedule.interval <= 0 /\ Minute(t) # Minute(now)

\* scheduler and runTask: a scheduled goroutine never repeats a run of the same
\* minute or interval, whether that run was manual or scheduled, its stamp late,
\* or the server restarted since.  Three cases in which the code does repeat one
\* are outside: a run or a PUT came between the poll and the lock; the tick was
\* older than the run when the poll used it; the stamp of the run is lost, to a
\* PUT that wrote an older copy back or to a failed save and a crash.
NoEarlyRun ==
  [][ \A g \in pending :
        pending' = pending \ {g} /\ up' /\ running = "none" /\ g.fresh => Ripe(begun) ]_vars

=============================================================================
