----------------------------- MODULE TaskManager -----------------------------
(***************************************************************************)
(* The monitoring server of web_supervisor-manager (app/app.go): the task  *)
(* API, the scheduler, the goroutines of runTask with their retries, and   *)
(* the SQLite file that every change is saved to.                          *)
(*                                                                         *)
(* Every critical section of s.mu is one action.  What a workflow computes *)
(* is not modelled here, only whether an attempt succeeds.  LastRunAt is   *)
(* the run that wrote it; `old' says which runs lie an interval (or a cron *)
(* minute) back, so that comparing times needs no clock.                   *)
(***************************************************************************)
EXTENDS Integers, Sequences, FiniteSets, SequencesExt

CONSTANTS
  Id,           \* task ids
  Runner,       \* the calls of runTask; each is one goroutine
  Putter,       \* clients that send PUT requests, one at a time each
  NoRunner,     \* no entry in s.running, LastRunAt = nil
  MaxAttempts,  \* Retry.MaxAttempts of every task, at least 1
  RunCap,       \* length of the run history (500 in the code)
  Recreate,     \* TRUE: a client may use the id of a deleted task again
  MaxCrash,     \* bound on the number of crashes
  SaveMayFail   \* TRUE: saveLocked may return an error

ASSUME ConstantsAssumption ==
  /\ Id # {}
  /\ IsFiniteSet(Runner)
  /\ NoRunner \notin Runner
  /\ MaxAttempts \in Nat \ {0}
  /\ RunCap \in Nat \ {0}
  /\ Recreate \in BOOLEAN
  /\ MaxCrash \in Nat
  /\ SaveMayFail \in BOOLEAN

\* Task: what of it the manager itself reads or writes.
Task == [state : {"absent", "new", "running", "success", "failed"},
         enabled : BOOLEAN,
         last : Runner \cup {NoRunner},
         runs : Nat, successes : Nat, failures : Nat]

Absent  == [state |-> "absent", enabled |-> FALSE, last |-> NoRunner,
            runs |-> 0, successes |-> 0, failures |-> 0]
NewTask(b) == [Absent EXCEPT !.state = "new", !.enabled = b]

VARIABLES
  up,       \* the server serves
  tasks,    \* s.state.Tasks
  history,  \* s.state.Runs: the runs recorded, oldest first
  running,  \* s.running: the runner whose cancel function is registered
  db,       \* the tables tasks and runs
  run,      \* the goroutine of each runner
  put,      \* the PUT request of each client
  old,      \* runs that started long enough ago for the task to be due
  crashes,  \* crashes so far (history, bounded by MaxCrash)
  saved,    \* the last save of a change succeeded (history)
  made,     \* ids that were ever created (history)
  kept,     \* ids whose creation was answered 201, not deleted since (history)
  gone,     \* ids whose deletion was answered 200, not recreated since (history)
  clobbered \* ids whose status a PUT or a crash set back (history)

server == <<up, tasks, history, running, db>>
ghosts == <<crashes, saved, made, kept, gone, clobbered>>
vars   == <<server, run, put, old, ghosts>>

Unused  == [pc |-> "unused", id |-> CHOOSE i \in Id : TRUE, attempt |-> 0,
            ok |-> FALSE, cancelled |-> FALSE]
Ended   == [Unused EXCEPT !.pc = "done"]
NoPut   == [pc |-> "idle", id |-> CHOOSE i \in Id : TRUE, copy |-> Absent]

Exists(i) == tasks[i].state # "absent"

\* A run between registering itself and unregistering.
Working(r) == run[r].pc \in {"begin", "attempt", "exec", "backoff", "finish",
                             "record", "unregister"}

\* A run that has set its task to "running" and not yet set the outcome.
Counted(r) == run[r].pc \in {"attempt", "exec", "backoff", "finish"}

Init ==
  /\ up = TRUE
  /\ tasks = [i \in Id |-> Absent]
  /\ history = <<>>
  /\ running = [i \in Id |-> NoRunner]
  /\ db = [tasks |-> [i \in Id |-> Absent], runs |-> {}]
  /\ run = [r \in Runner |-> Unused]
  /\ put = [p \in Putter |-> NoPut]
  /\ old = {}
  /\ crashes = 0
  /\ saved = TRUE
  /\ made = {}
  /\ kept = {}
  /\ gone = {}
  /\ clobbered = {}

(* Definitions named Bug... are slips a change could make; each stands next  *)
(* to the definition it would replace and no behaviour of Spec uses it.      *)

-----------------------------------------------------------------------------
(* saveLocked: one transaction that writes all tasks and all runs *)

Saves(ts, rs)  == db' = [tasks |-> ts, runs |-> ToSet(rs)] /\ saved' = TRUE

\* Bug: no transaction, the tables are emptied and the inserts fail.
BugSaveFails   == SaveMayFail /\ saved' = FALSE
                  /\ db' = [db EXCEPT !.tasks = [i \in Id |-> Absent]]
SaveFails      == SaveMayFail /\ UNCHANGED db /\ saved' = FALSE

\* Most callers ignore the error or answer 500; either way the change stays
\* in memory.
Commit(ts, rs) ==
  /\ tasks' = ts
  /\ history' = rs
  /\ Saves(ts, rs) \/ SaveFails

-----------------------------------------------------------------------------
(* The task API *)

\* Bug: the task is appended before it is saved and stays when that fails.
BugCreateTask(i) ==
  /\ up
  /\ ~Exists(i)
  /\ i \notin made \/ Recreate
  /\ \E b \in BOOLEAN :
       \/ /\ tasks' = [tasks EXCEPT ![i] = NewTask(b)]
          /\ Saves(tasks', history)
          /\ made' = made \cup {i} /\ kept' = kept \cup {i} /\ gone' = gone \ {i}
       \/ /\ SaveMayFail
          /\ tasks' = [tasks EXCEPT ![i] = NewTask(b)]
          /\ UNCHANGED <<db, saved, made, kept, gone>>
  /\ UNCHANGED <<up, history, running, run, put, old, crashes, clobbered>>

\* POST /tasks; a failed save is the one that is rolled back.
CreateTask(i) ==
  /\ up
  /\ ~Exists(i)
  /\ i \notin made \/ Recreate
  /\ \/ /\ \E b \in BOOLEAN : tasks' = [tasks EXCEPT ![i] = NewTask(b)]
        /\ Saves(tasks', history)
        /\ made' = made \cup {i}
        /\ kept' = kept \cup {i}
        /\ gone' = gone \ {i}
     \/ /\ SaveMayFail
        /\ UNCHANGED <<tasks, db, saved, made, kept, gone>>
  /\ UNCHANGED <<up, history, running, run, put, old, crashes, clobbered>>

\* PUT /tasks/{id}: copy the task under the read lock ...
ReadForPut(p, i) ==
  /\ up
  /\ put[p].pc = "idle"
  /\ Exists(i)
  /\ put' = [put EXCEPT ![p] = [pc |-> "read", id |-> i, copy |-> tasks[i]]]
  /\ UNCHANGED <<server, run, old, ghosts>>

\* What PUT writes: the client's fields, and the status of the copy.
Replaced(p, b) == [put[p].copy EXCEPT !.enabled = b]

\* Bug: the task is not looked up again under the write lock.
BugPutTask(p) ==
  LET i == put[p].id
  IN  /\ up
      /\ put[p].pc = "read"
      /\ put' = [put EXCEPT ![p] = NoPut]
      /\ \E b \in BOOLEAN : Commit([tasks EXCEPT ![i] = Replaced(p, b)], history)
      /\ clobbered' = clobbered \cup {i}
      /\ UNCHANGED <<up, running, run, old, crashes, made, kept, gone>>

\* ... and write it back under the write lock, if it is still there.
PutTask(p) ==
  LET i == put[p].id
  IN  /\ up
      /\ put[p].pc = "read"
      /\ put' = [put EXCEPT ![p] = NoPut]
      /\ \/ /\ Exists(i)
            /\ \E b \in BOOLEAN : Commit([tasks EXCEPT ![i] = Replaced(p, b)], history)
            /\ clobbered' = IF tasks[i] = [put[p].copy EXCEPT !.enabled = tasks[i].enabled]
                            THEN clobbered ELSE clobbered \cup {i}
         \/ ~Exists(i) /\ UNCHANGED <<tasks, history, db, saved, clobbered>>
      /\ UNCHANGED <<up, running, run, old, crashes, made, kept, gone>>

\* Bug: the entry is removed from s.running without being cancelled.
BugDeleteTask(i) ==
  /\ up
  /\ Exists(i)
  /\ Commit([tasks EXCEPT ![i] = Absent], history)
  /\ running' = [running EXCEPT ![i] = NoRunner]
  /\ kept' = kept \ {i}
  /\ gone' = IF saved' THEN gone \cup {i} ELSE gone
  /\ UNCHANGED <<up, run, put, old, crashes, made, clobbered>>

\* DELETE /tasks/{id} cancels the run in progress and forgets it.
DeleteTask(i) ==
  /\ up
  /\ Exists(i)
  /\ Commit([tasks EXCEPT ![i] = Absent], history)
  /\ run' = [r \in Runner |-> IF running[i] = r THEN [run[r] EXCEPT !.cancelled = TRUE]
                                                ELSE run[r]]
  /\ running' = [running EXCEPT ![i] = NoRunner]
  /\ kept' = kept \ {i}
  /\ gone' = IF saved' THEN gone \cup {i} ELSE gone
  /\ UNCHANGED <<up, put, old, crashes, made, clobbered>>

\* POST pause and resume.
SetEnabled(i, b) ==
  /\ up
  /\ Exists(i)
  /\ Commit([tasks EXCEPT ![i].enabled = b], history)
  /\ UNCHANGED <<up, running, run, put, old, crashes, made, kept, gone, clobbered>>

\* go s.runTask(...): a goroutine that has not taken the lock yet.
Spawn(r, i) ==
  /\ run[r].pc = "unused"
  /\ run' = [run EXCEPT ![r].pc = "spawned", ![r].id = i]

\* POST run.
RunManually(r, i) ==
  /\ up
  /\ Exists(i)
  /\ Spawn(r, i)
  /\ UNCHANGED <<server, put, old, ghosts>>

-----------------------------------------------------------------------------
(* The scheduler *)

\* An interval (or a minute) passes since run r started.
IntervalElapses(r) ==
  /\ run[r].pc \notin {"unused", "spawned", "begin"}
  /\ r \notin old
  /\ old' = old \cup {r}
  /\ UNCHANGED <<server, run, put, ghosts>>

TaskDue(i) == tasks[i].last \in old \cup {NoRunner}

\* One enabled and due task of a tick.  The list of tasks is a copy; that it
\* may be stale shows in the steps that come before Register.  A cron task
\* need not be started although TaskDue holds: its expression must match.
SchedulerStarts(r, i) ==
  /\ up
  /\ Exists(i)
  /\ tasks[i].enabled
  /\ TaskDue(i)
  /\ Spawn(r, i)
  /\ UNCHANGED <<server, put, old, ghosts>>

-----------------------------------------------------------------------------
(* runTask *)

Goto(r, pc) == run' = [run EXCEPT ![r].pc = pc]
End(r) == run' = [run EXCEPT ![r] = Ended]

\* Bug: no check for an entry of another goroutine.
BugRegister(r) ==
  LET i == run[r].id
  IN  /\ run[r].pc = "spawned"
      /\ \/ Exists(i) /\ running' = [running EXCEPT ![i] = r] /\ Goto(r, "begin")
         \/ ~Exists(i) /\ UNCHANGED running /\ End(r)
      /\ UNCHANGED <<up, tasks, history, db, put, old, ghosts>>

Register(r) ==
  LET i == run[r].id
      may == running[i] = NoRunner /\ Exists(i)
  IN  /\ run[r].pc = "spawned"
      /\ \/ may /\ running' = [running EXCEPT ![i] = r] /\ Goto(r, "begin")
         \/ ~may /\ UNCHANGED running /\ End(r)
      /\ UNCHANGED <<up, tasks, history, db, put, old, ghosts>>

\* updateTaskState: change the task of that id, if there is one, and save.
UpdateTask(i, t) ==
  \/ Exists(i) /\ Commit([tasks EXCEPT ![i] = t], history)
  \/ ~Exists(i) /\ UNCHANGED <<tasks, history, db, saved>>

\* Bug: the run is not counted.
BugBegin(r) ==
  LET i == run[r].id
      t == tasks[i]
  IN  /\ run[r].pc = "begin"
      /\ UpdateTask(i, [t EXCEPT !.state = "running", !.last = r])
      /\ run' = [run EXCEPT ![r].pc = "attempt", ![r].attempt = 1]
      /\ UNCHANGED <<up, running, put, old, crashes, made, kept, gone, clobbered>>

Begin(r) ==
  LET i == run[r].id
      t == tasks[i]
  IN  /\ run[r].pc = "begin"
      /\ UpdateTask(i, [t EXCEPT !.state = "running", !.last = r, !.runs = @ + 1])
      /\ run' = [run EXCEPT ![r].pc = "attempt", ![r].attempt = 1]
      /\ UNCHANGED <<up, running, put, old, crashes, made, kept, gone, clobbered>>

RunOnly == UNCHANGED <<server, put, old, ghosts>>

\* The head of the retry loop.
StartAttempt(r) ==
  /\ run[r].pc = "attempt"
  /\ Goto(r, IF run[r].cancelled THEN "finish" ELSE "exec")
  /\ RunOnly

\* Execute and persistDocument succeed, cancelled or not.
AttemptSucceeds(r) ==
  /\ run[r].pc = "exec"
  /\ run' = [run EXCEPT ![r].pc = "finish", ![r].ok = TRUE]
  /\ RunOnly

AttemptFails(r) ==
  /\ run[r].pc = "exec"
  /\ Goto(r, IF run[r].attempt < MaxAttempts THEN "backoff" ELSE "finish")
  /\ RunOnly

\* The timer of the back-off or the cancellation ends it; the head of the
\* loop tells them apart.
EndBackoff(r) ==
  /\ run[r].pc = "backoff"
  /\ run' = [run EXCEPT ![r].pc = "attempt", ![r].attempt = @ + 1]
  /\ RunOnly

Finish(r) ==
  LET i == run[r].id
      t == tasks[i]
  IN  /\ run[r].pc = "finish"
      /\ UpdateTask(i, IF run[r].ok
                       THEN [t EXCEPT !.state = "success", !.successes = @ + 1]
                       ELSE [t EXCEPT !.state = "failed", !.failures = @ + 1])
      /\ Goto(r, "record")
      /\ UNCHANGED <<up, running, put, old, crashes, made, kept, gone, clobbered>>

\* Bug: off by one.
BugCapped(rs) == IF Len(rs) > RunCap + 1 THEN SubSeq(rs, Len(rs) - RunCap + 1, Len(rs)) ELSE rs

\* The last RunCap of the runs.
Capped(rs) == IF Len(rs) > RunCap THEN SubSeq(rs, Len(rs) - RunCap + 1, Len(rs)) ELSE rs

Record(r) ==
  /\ run[r].pc = "record"
  /\ Commit(tasks, Capped(Append(history, r)))
  /\ Goto(r, "unregister")
  /\ UNCHANGED <<up, running, put, old, crashes, made, kept, gone, clobbered>>

\* Bug: a run that was cancelled returns before its entry is deleted.
BugUnregister(r) ==
  /\ run[r].pc = "unregister"
  /\ running' = IF run[r].ok THEN [running EXCEPT ![run[r].id] = NoRunner] ELSE running
  /\ End(r)
  /\ UNCHANGED <<up, tasks, history, db, put, old, ghosts>>

\* The deferred delete(s.running, id), whoever the entry belongs to.
Unregister(r) ==
  /\ run[r].pc = "unregister"
  /\ running' = [running EXCEPT ![run[r].id] = NoRunner]
  /\ End(r)
  /\ UNCHANGED <<up, tasks, history, db, put, old, ghosts>>

-----------------------------------------------------------------------------
(* The end of the process, by a crash or by Serve returning, and its restart *)

Crash ==
  /\ up
  /\ crashes < MaxCrash
  /\ crashes' = crashes + 1
  /\ up' = FALSE
  /\ tasks' = [i \in Id |-> Absent]
  /\ history' = <<>>
  /\ running' = [i \in Id |-> NoRunner]
  /\ run' = [r \in Runner |-> IF run[r].pc = "unused" THEN Unused ELSE Ended]
  /\ put' = [p \in Putter |-> NoPut]
  /\ clobbered' = clobbered \cup {run[r].id : r \in {r \in Runner : Working(r)}}
                            \cup (IF saved THEN {} ELSE Id)
  /\ UNCHANGED <<db, old, saved, made, kept, gone>>

\* load: the runs come back ordered by the text of started_at, which is not
\* the order in which they finished.
Restart ==
  /\ ~up
  /\ up' = TRUE
  /\ tasks' = db.tasks
  /\ history' \in SetToSeqs(db.runs)
  /\ saved' = TRUE
  /\ UNCHANGED <<running, db, run, put, old, crashes, made, kept, gone, clobbered>>

-----------------------------------------------------------------------------
RunStep(r) == \/ Register(r) \/ Begin(r) \/ StartAttempt(r) \/ AttemptSucceeds(r)
              \/ AttemptFails(r) \/ EndBackoff(r) \/ Finish(r) \/ Record(r) \/ Unregister(r)

Next ==
  \/ \E i \in Id : CreateTask(i) \/ DeleteTask(i) \/ \E b \in BOOLEAN : SetEnabled(i, b)
  \/ \E p \in Putter : PutTask(p) \/ \E i \in Id : ReadForPut(p, i)
  \/ \E r \in Runner, i \in Id : RunManually(r, i) \/ SchedulerStarts(r, i)
  \/ \E r \in Runner : IntervalElapses(r) \/ RunStep(r)
  \/ Crash \/ Restart

\* Goroutines are scheduled, attempts and back-offs end (services are called
\* with a timeout), and a stopped server is started again.
Fairness == WF_vars(Restart) /\ \A r \in Runner : WF_vars(RunStep(r))

Spec     == Init /\ [][Next]_vars
FairSpec == Spec /\ Fairness

-----------------------------------------------------------------------------
(* Properties *)

TypeOK ==
  /\ up \in BOOLEAN
  /\ tasks \in [Id -> Task]
  /\ history \in Seq(Runner) /\ Len(history) <= RunCap
  /\ running \in [Id -> Runner \cup {NoRunner}]
  /\ db \in [tasks : [Id -> Task], runs : SUBSET Runner]
  /\ run \in [Runner -> [pc : {"unused", "spawned", "begin", "attempt", "exec", "backoff",
                               "finish", "record", "unregister", "done"},
                         id : Id, attempt : 0 .. MaxAttempts,
                         ok : BOOLEAN, cancelled : BOOLEAN]]
  /\ put \in [Putter -> [pc : {"idle", "read"}, id : Id, copy : Task]]
  /\ old \subseteq Runner
  /\ crashes \in 0 .. MaxCrash
  /\ saved \in BOOLEAN
  /\ made \subseteq Id /\ kept \subseteq Id /\ gone \subseteq Id /\ clobbered \subseteq Id

\* "A task runs only once at a time" (WORKFLOW_GUIDE.md:59), whatever the
\* scheduler, manual runs, pauses, deletions and restarts do: runTask
\* (app.go:852-870) never has two runs of one task between lock and unlock.
OneRunPerTask ==
  \A r, q \in Runner : Working(r) /\ Working(q) /\ run[r].id = run[q].id => r = q

\* The same promise for the workflows alone: a client that uses an id again
\* does not make two of them execute at once (app.go:560-562, 866-870).
OneExecution ==
  \A r, q \in Runner :
    run[r].pc = "exec" /\ run[q].pc = "exec" /\ run[r].id = run[q].id => r = q

\* An entry of s.running belongs to a run that will delete it; otherwise the
\* task would be refused for ever (app.go:853-856).
RegisteredIsWorking ==
  \A i \in Id, r \in Runner : running[i] = r => Working(r) /\ run[r].id = i

\* The run of a deleted task has been cancelled, in whatever step it was
\* (app.go:551-563): it starts no further attempt.
DeletedIsCancelled ==
  \A r \in Runner : Working(r) /\ ~Exists(run[r].id) => run[r].cancelled

\* A task whose creation was answered 201 is in the file and, while the server
\* runs, in memory, through failed saves, crashes and PUT requests, until it
\* is deleted (app.go:458-476; TestSQLiteStateSurvivesRestart).
CreatedSurvives == \A i \in kept : db.tasks[i].state # "absent" /\ (up => Exists(i))

\* A task whose deletion was answered 200 never comes back by itself: not by a
\* PUT that read it before, a run that updates it, or a restart.
DeletedStaysDeleted == \A i \in gone : db.tasks[i].state = "absent" /\ ~Exists(i)

\* Whatever changes the tasks or the runs saves them before it unlocks: only a
\* save that failed makes the file differ from memory.
FileMatchesMemory ==
  up /\ saved => db = [tasks |-> tasks, runs |-> ToSet(history)]

\* Status.Runs is successes plus failures plus the run in progress, and State
\* is "running" just while there is one, unless a PUT or a crash set the status
\* back (app.go:875-881, 931-946).
StatusAddsUp ==
  \A i \in Id \ clobbered :
    LET t == tasks[i]
        open == {r \in Runner : Counted(r) /\ run[r].id = i}
    IN  Exists(i) => /\ t.runs = t.successes + t.failures + Cardinality(open)
                     /\ t.state = "running" <=> open # {}

\* Every run ends and gives its entry back, also when it is cancelled, fails
\* or its task is deleted (app.go:866-870): again and again no run of the task
\* is registered.
RunEnds == \A i \in Id : []<>(running[i] = NoRunner)
=============================================================================
