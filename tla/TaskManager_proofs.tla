-------------------------- MODULE TaskManager_proofs --------------------------
(* Theorems about TaskManager, for every set of tasks, runs and clients.     *)
EXTENDS TaskManager, FiniteSetTheorems, SequenceTheorems, TLAPS

(***************************************************************************)
(* Type correctness                                                        *)
(***************************************************************************)

RunType == [pc : {"unused", "spawned", "begin", "attempt", "exec", "backoff",
                  "finish", "record", "unregister", "done"},
            id : Id, attempt : 0 .. MaxAttempts, ok : BOOLEAN, cancelled : BOOLEAN]
PutType == [pc : {"idle", "read"}, id : Id, copy : Task]
History == {h \in Seq(Runner) : Len(h) <= RunCap}

\* The types are inductive together with these two: a run that backs off has
\* attempts left, and the file holds no more runs than memory may.
RetryBound == \A r \in Runner : run[r].pc = "backoff" => run[r].attempt < MaxAttempts
FileBound  == Cardinality(db.runs) <= RunCap
TypeInv    == TypeOK /\ RetryBound /\ FileBound

\* A sequence has at most as many elements as places.
LEMMA ToSetBound ==
  ASSUME NEW h \in Seq(Runner)
  PROVE  /\ ToSet(h) \subseteq Runner
         /\ Cardinality(ToSet(h)) <= Len(h)
<1>1. DOMAIN h = 1 .. Len(h) /\ Len(h) \in Nat /\ \A k \in 1 .. Len(h) : h[k] \in Runner
  OBVIOUS
<1>2. ToSet(h) = {h[k] : k \in 1 .. Len(h)}
  BY <1>1 DEF ToSet
<1>3. h \in [1 .. Len(h) -> ToSet(h)]
  BY <1>1, <1>2
<1>4. h \in Surjection(1 .. Len(h), ToSet(h))
  BY <1>2, <1>3 DEF Surjection, Range
<1>5. ExistsSurjection(1 .. Len(h), ToSet(h))
  BY <1>4 DEF ExistsSurjection
<1> QED BY <1>1, <1>2, <1>5, FS_SurjCardinalityBound

\* The sequences of a finite set's elements list exactly that set.
LEMMA SetToSeqsFact ==
  ASSUME NEW S \in SUBSET Runner, NEW h \in SetToSeqs(S)
  PROVE  h \in Seq(Runner) /\ Len(h) = Cardinality(S) /\ ToSet(h) = S
<1> DEFINE D == 1 .. Cardinality(S)
<1>1. IsFiniteSet(S) /\ Cardinality(S) \in Nat
  BY ConstantsAssumption, FS_Subset, FS_CardinalityType
<1>2. h \in [D -> S] /\ \A j, k \in D : j # k => h[j] # h[k]
  BY DEF SetToSeqs
<1>3. h \in Seq(S) /\ Len(h) = Cardinality(S) /\ DOMAIN h = D
  BY <1>1, <1>2
<1>4. IsFiniteSet(D) /\ Cardinality(D) = Cardinality(S)
  BY <1>1, FS_Interval
<1>5. h \in Injection(D, S)
  BY <1>2 DEF Injection, IsInjective
<1>6. h \in Surjection(D, S)
  BY <1>1, <1>4, <1>5, FS_Injection
<1>7. ToSet(h) = S
  BY <1>3, <1>6 DEF Surjection, ToSet, Range
<1>8. h \in Seq(Runner)
  BY <1>1, <1>2
<1> QED BY <1>3, <1>7, <1>8

\* A longer history is cut to the bound.
LEMMA CappedType ==
  ASSUME NEW h \in Seq(Runner)
  PROVE  Capped(h) \in History
<1> DEFINE m == Len(h) - RunCap + 1
<1>1. RunCap \in Nat \ {0} /\ Len(h) \in Nat
  BY ConstantsAssumption
<1>2. CASE Len(h) <= RunCap
  BY <1>1, <1>2 DEF Capped, History
<1>3. CASE Len(h) > RunCap
  <2>1. m \in Int /\ m \in 1 .. Len(h) /\ Len(h) - m + 1 = RunCap
    BY <1>1, <1>3
  <2>2. \A k \in m .. Len(h) : h[k] \in Runner
    BY <2>1
  <2>3. SubSeq(h, m, Len(h)) \in Seq(Runner) /\ Len(SubSeq(h, m, Len(h))) = RunCap
    <3> HIDE DEF m
    <3> QED BY <1>1, <2>1, <2>2, SubSeqProperties
  <2> QED BY <1>1, <1>3, <2>3 DEF Capped, History
<1> QED BY <1>1, <1>2, <1>3

\* What a save leaves of types.
LEMMA CommitType ==
  ASSUME TypeInv, NEW ts \in [Id -> Task], NEW rs \in History, Commit(ts, rs)
  PROVE  /\ tasks' \in [Id -> Task]
         /\ history' \in Seq(Runner) /\ Len(history') <= RunCap
         /\ db' \in [tasks : [Id -> Task], runs : SUBSET Runner]
         /\ saved' \in BOOLEAN
         /\ FileBound'
<1>1. ToSet(rs) \in SUBSET Runner /\ Cardinality(ToSet(rs)) <= RunCap
  <2>1. rs \in Seq(Runner) /\ Len(rs) <= RunCap /\ Len(rs) \in Nat
    BY DEF History
  <2>2. ToSet(rs) \subseteq Runner /\ Cardinality(ToSet(rs)) <= Len(rs)
    BY <2>1, ToSetBound
  <2>3. Cardinality(ToSet(rs)) \in Nat
    BY <2>2, ConstantsAssumption, FS_Subset, FS_CardinalityType
  <2> QED BY <2>1, <2>2, <2>3, ConstantsAssumption
<1>2. CASE Saves(ts, rs)
  BY <1>1, <1>2 DEF Commit, Saves, History, FileBound
<1>3. CASE SaveFails
  BY <1>3 DEF Commit, SaveFails, History, FileBound, TypeInv, TypeOK
<1> QED BY <1>2, <1>3 DEF Commit

LEMMA UpdateType ==
  ASSUME TypeInv, NEW i \in Id, NEW t \in Task, UpdateTask(i, t)
  PROVE  /\ tasks' \in [Id -> Task]
         /\ history' \in Seq(Runner) /\ Len(history') <= RunCap
         /\ db' \in [tasks : [Id -> Task], runs : SUBSET Runner]
         /\ saved' \in BOOLEAN
         /\ FileBound'
<1>1. tasks \in [Id -> Task] /\ history \in History
  BY DEF TypeInv, TypeOK, History
<1>2. CASE Commit([tasks EXCEPT ![i] = t], history)
  <2>1. [tasks EXCEPT ![i] = t] \in [Id -> Task]
    BY <1>1
  <2> QED BY <1>1, <1>2, <2>1, CommitType
<1>3. CASE UNCHANGED <<tasks, history, db, saved>>
  BY <1>3 DEF TypeInv, TypeOK, FileBound
<1> QED BY <1>2, <1>3 DEF UpdateTask

\* The records the actions write.
LEMMA TaskUpdates ==
  ASSUME NEW t \in Task
  PROVE  /\ \A r \in Runner : [t EXCEPT !.state = "running", !.last = r, !.runs = @ + 1] \in Task
         /\ [t EXCEPT !.state = "success", !.successes = @ + 1] \in Task
         /\ [t EXCEPT !.state = "failed", !.failures = @ + 1] \in Task
<1>1. t.runs + 1 \in Nat /\ t.successes + 1 \in Nat /\ t.failures + 1 \in Nat
  BY DEF Task
<1>2. ASSUME NEW r \in Runner
      PROVE  [t EXCEPT !.state = "running", !.last = r, !.runs = @ + 1] \in Task
  BY <1>1 DEF Task
<1>3. [t EXCEPT !.state = "success", !.successes = @ + 1] \in Task
  BY <1>1 DEF Task
<1>4. [t EXCEPT !.state = "failed", !.failures = @ + 1] \in Task
  BY <1>1 DEF Task
<1> QED BY <1>2, <1>3, <1>4

LEMMA Defaults ==
  /\ Absent \in Task
  /\ \A b \in BOOLEAN : NewTask(b) \in Task
  /\ Unused \in RunType
  /\ Ended \in RunType
  /\ NoPut \in PutType
<1>1. Absent \in Task
  BY DEF Absent, Task
<1>2. ASSUME NEW b \in BOOLEAN PROVE NewTask(b) \in Task
  BY <1>1 DEF NewTask, Task
<1>3. (CHOOSE i \in Id : TRUE) \in Id /\ 0 \in 0 .. MaxAttempts
  BY ConstantsAssumption
<1>4. Unused \in RunType
  BY <1>3 DEF Unused, RunType
<1>5. Ended \in RunType
  BY <1>4 DEF Ended, RunType
<1>6. NoPut \in PutType
  BY <1>1, <1>3 DEF NoPut, PutType
<1> QED BY <1>1, <1>2, <1>4, <1>5, <1>6

LEMMA TypeInit == Init => TypeInv
<1> SUFFICES ASSUME Init PROVE TypeInv
  OBVIOUS
<1>1. Absent \in Task /\ Unused \in RunType /\ NoPut \in PutType
  BY Defaults
<1>2. Cardinality({}) = 0 /\ <<>> \in Seq(Runner) /\ Len(<<>>) = 0
  BY FS_EmptySet
<1>3. TypeOK
  BY <1>1, <1>2, ConstantsAssumption DEF Init, TypeOK, RunType, PutType
<1>4. RetryBound /\ FileBound
  BY <1>2, ConstantsAssumption DEF Init, RetryBound, FileBound, Unused
<1> QED BY <1>3, <1>4 DEF TypeInv

\* Setting the attempt keeps the record of a goroutine well typed.
LEMMA AttemptType ==
  ASSUME NEW q \in RunType, NEW n \in 0 .. MaxAttempts
  PROVE  [q EXCEPT !.pc = "attempt", !.attempt = n] \in RunType
  BY DEF RunType

\* The fields of a goroutine stay in their sets.
LEMMA RunUpdates ==
  ASSUME NEW q \in RunType, NEW pc \in {"unused", "spawned", "begin", "attempt", "exec",
           "backoff", "finish", "record", "unregister", "done"}
  PROVE  /\ [q EXCEPT !.pc = pc] \in RunType
         /\ \A i \in Id : [q EXCEPT !.pc = pc, !.id = i] \in RunType
         /\ [q EXCEPT !.pc = pc, !.ok = TRUE] \in RunType
         /\ [q EXCEPT !.cancelled = TRUE] \in RunType
  BY DEF RunType

LEMMA TypeNext == TypeInv /\ [Next]_vars => TypeInv'
<1> SUFFICES ASSUME TypeInv, [Next]_vars PROVE TypeInv'
  OBVIOUS
<1> DEFINE Rest == /\ up \in BOOLEAN
                   /\ running \in [Id -> Runner \cup {NoRunner}]
                   /\ put \in [Putter -> PutType]
                   /\ old \subseteq Runner
                   /\ crashes \in 0 .. MaxCrash
                   /\ made \subseteq Id /\ kept \subseteq Id
                   /\ gone \subseteq Id /\ clobbered \subseteq Id
           Store == /\ tasks \in [Id -> Task]
                    /\ history \in Seq(Runner) /\ Len(history) <= RunCap
                    /\ db \in [tasks : [Id -> Task], runs : SUBSET Runner]
                    /\ saved \in BOOLEAN
                    /\ FileBound
           Runs  == run \in [Runner -> RunType] /\ RetryBound
<1>1. TypeInv <=> Rest /\ Store /\ Runs
  BY DEF TypeInv, TypeOK, RunType, PutType
<1>2. TypeInv' <=> Rest' /\ Store' /\ Runs'
  BY DEF TypeInv, TypeOK, RunType, PutType
<1>3. Rest /\ Store /\ Runs
  BY <1>1
<1>4. history \in History /\ MaxAttempts \in Nat \ {0} /\ MaxCrash \in Nat
  BY <1>3, ConstantsAssumption DEF History
<1>5. Absent \in Task /\ \A b \in BOOLEAN : NewTask(b) \in Task
  BY Defaults
<1>6. Unused \in RunType /\ Ended \in RunType /\ NoPut \in PutType
  BY Defaults
<1>7. ASSUME UNCHANGED <<tasks, history, db, saved>> PROVE Store'
  BY <1>3, <1>7 DEF FileBound
<1>8. ASSUME NEW ts \in [Id -> Task], NEW rs \in History, Commit(ts, rs) PROVE Store'
  BY <1>8, CommitType
<1>9. ASSUME NEW i \in Id, NEW t \in Task, UpdateTask(i, t) PROVE Store'
  BY <1>9, UpdateType
<1>10. ASSUME UNCHANGED run PROVE Runs'
  BY <1>3, <1>10 DEF RetryBound
<1>11. ASSUME NEW r \in Runner, NEW q \in RunType, run' = [run EXCEPT ![r] = q],
              q.pc = "backoff" => q.attempt < MaxAttempts
       PROVE  Runs'
  BY <1>3, <1>11 DEF RetryBound
<1>12. ASSUME NEW r \in Runner, NEW pc, Goto(r, pc),
              pc \in {"begin", "attempt", "exec", "finish", "record", "unregister", "done"}
       PROVE  Runs'
  <2>1. [run[r] EXCEPT !.pc = pc] \in RunType
    BY <1>3, <1>12, RunUpdates
  <2>2. [run[r] EXCEPT !.pc = pc].pc # "backoff"
    BY <1>3, <1>12 DEF RunType
  <2> QED BY <1>11, <1>12, <2>1, <2>2 DEF Goto
<1>13. ASSUME NEW r \in Runner, End(r) PROVE Runs'
  BY <1>6, <1>11, <1>13 DEF End, Ended, Unused
<1> HIDE DEF Runs, Store, Rest
<1>20. ASSUME NEW i \in Id, CreateTask(i) PROVE TypeInv'
  <2>1. Store'
    <3>1. CASE \E b \in BOOLEAN : tasks' = [tasks EXCEPT ![i] = NewTask(b)]
               /\ Saves(tasks', history)
      <4>1. PICK b \in BOOLEAN : tasks' = [tasks EXCEPT ![i] = NewTask(b)]
        BY <3>1
      <4>2. tasks' \in [Id -> Task]
        BY <1>3, <1>5, <4>1 DEF Store
      <4>3. Commit(tasks', history)
        BY <1>20, <3>1 DEF Commit, CreateTask
      <4> QED BY <1>4, <1>8, <4>2, <4>3
    <3>2. CASE UNCHANGED <<tasks, db, saved>>
      BY <1>7, <1>20, <3>2 DEF CreateTask
    <3> QED BY <1>20, <3>1, <3>2 DEF CreateTask
  <2>2. Rest' /\ Runs'
    BY <1>3, <1>10, <1>20 DEF CreateTask, Rest
  <2> QED BY <1>2, <2>1, <2>2
<1>21. ASSUME NEW p \in Putter, NEW i \in Id, ReadForPut(p, i) PROVE TypeInv'
  <2>1. [pc |-> "read", id |-> i, copy |-> tasks[i]] \in PutType
    BY <1>3 DEF Store, PutType
  <2>2. Rest'
    BY <1>3, <1>21, <2>1 DEF ReadForPut, Rest, server, ghosts
  <2> QED BY <1>2, <1>7, <1>10, <1>21, <2>2 DEF ReadForPut, server, ghosts
<1>22. ASSUME NEW p \in Putter, PutTask(p) PROVE TypeInv'
  <2>1. put[p] \in PutType
    BY <1>3 DEF Rest
  <2>2. put[p].id \in Id /\ put[p].copy \in Task
    BY <2>1 DEF PutType
  <2>3. Store'
    <3>1. CASE Exists(put[p].id)
      <4>1. PICK b \in BOOLEAN : Commit([tasks EXCEPT ![put[p].id] = Replaced(p, b)], history)
        BY <1>22, <3>1 DEF PutTask
      <4>2. Replaced(p, b) \in Task
        BY <2>2 DEF Replaced, Task
      <4>3. [tasks EXCEPT ![put[p].id] = Replaced(p, b)] \in [Id -> Task]
        BY <1>3, <4>2 DEF Store
      <4> QED BY <1>4, <1>8, <4>1, <4>3
    <3>2. CASE ~Exists(put[p].id)
      BY <1>7, <1>22, <3>2 DEF PutTask
    <3> QED BY <3>1, <3>2
  <2>4. put' \in [Putter -> PutType]
    BY <1>3, <1>6, <1>22 DEF PutTask, Rest
  <2>5. clobbered' \subseteq Id
    BY <1>3, <1>22, <2>2 DEF PutTask, Rest
  <2>6. Rest'
    BY <1>3, <1>22, <2>4, <2>5 DEF PutTask, Rest
  <2> QED BY <1>2, <1>10, <1>22, <2>3, <2>6 DEF PutTask
<1>23. ASSUME NEW i \in Id, DeleteTask(i) PROVE TypeInv'
  <2>1. [tasks EXCEPT ![i] = Absent] \in [Id -> Task]
    BY <1>3, <1>5 DEF Store
  <2>2. Store'
    BY <1>4, <1>8, <1>23, <2>1 DEF DeleteTask
  <2>3. Runs'
    <3>1. run \in [Runner -> RunType] /\ RetryBound
      BY <1>3 DEF Runs
    <3>2. \A r \in Runner : /\ [run[r] EXCEPT !.cancelled = TRUE] \in RunType
                            /\ [run[r] EXCEPT !.cancelled = TRUE].pc = run[r].pc
                            /\ [run[r] EXCEPT !.cancelled = TRUE].attempt = run[r].attempt
      BY <3>1 DEF RunType
    <3>3. run' = [r \in Runner |-> IF running[i] = r THEN [run[r] EXCEPT !.cancelled = TRUE]
                                                     ELSE run[r]]
      BY <1>23 DEF DeleteTask
    <3>4. run' \in [Runner -> RunType]
      BY <3>1, <3>2, <3>3
    <3>5. RetryBound'
      BY <3>1, <3>2, <3>3 DEF RetryBound
    <3> QED BY <3>4, <3>5 DEF Runs
  <2>4. Rest'
    BY <1>3, <1>23 DEF DeleteTask, Rest
  <2> QED BY <1>2, <2>2, <2>3, <2>4
<1>24. ASSUME NEW i \in Id, NEW b \in BOOLEAN, SetEnabled(i, b) PROVE TypeInv'
  <2>1. [tasks[i] EXCEPT !.enabled = b] \in Task
    BY <1>3 DEF Store, Task
  <2>2. [tasks EXCEPT ![i].enabled = b] \in [Id -> Task]
    BY <1>3, <2>1 DEF Store
  <2>3. Rest'
    BY <1>3, <1>24 DEF SetEnabled, Rest
  <2> QED BY <1>2, <1>4, <1>8, <1>10, <1>24, <2>2, <2>3 DEF SetEnabled
<1>25. ASSUME NEW r \in Runner, NEW i \in Id, RunManually(r, i) \/ SchedulerStarts(r, i)
       PROVE  TypeInv'
  <2>1. Spawn(r, i) /\ UNCHANGED <<server, put, old, ghosts>>
    BY <1>25 DEF RunManually, SchedulerStarts
  <2>2. run[r] \in RunType
    BY <1>3 DEF Runs
  <2>3. [run[r] EXCEPT !.pc = "spawned", !.id = i] \in RunType
    BY <2>2, RunUpdates
  <2>4. [run[r] EXCEPT !.pc = "spawned", !.id = i].pc # "backoff"
    BY <2>2 DEF RunType
  <2>5. Runs'
    BY <1>11, <2>1, <2>3, <2>4 DEF Spawn
  <2>6. Rest'
    BY <1>3, <2>1 DEF Rest, server, ghosts
  <2> QED BY <1>2, <1>7, <2>1, <2>5, <2>6 DEF server, ghosts
<1>26. ASSUME NEW r \in Runner, IntervalElapses(r) PROVE TypeInv'
  <2>1. Rest'
    BY <1>3, <1>26 DEF IntervalElapses, Rest, server, ghosts
  <2> QED BY <1>2, <1>7, <1>10, <1>26, <2>1 DEF IntervalElapses, server, ghosts
<1>27. ASSUME NEW r \in Runner, Register(r) PROVE TypeInv'
  <2>1. Runs'
    BY <1>12, <1>13, <1>27 DEF Register
  <2>2. Rest'
    BY <1>3, <1>27 DEF Register, Rest, ghosts
  <2> QED BY <1>2, <1>7, <1>27, <2>1, <2>2 DEF Register, ghosts
<1>28. ASSUME NEW r \in Runner, Begin(r) \/ Finish(r) PROVE TypeInv'
  <2>1. run[r] \in RunType /\ tasks[run[r].id] \in Task /\ run[r].id \in Id
    BY <1>3 DEF Runs, Store, RunType
  <2>2. Store'
    <3>1. PICK t \in Task : UpdateTask(run[r].id, t)
      BY <1>28, <2>1, TaskUpdates DEF Begin, Finish
    <3> QED BY <1>9, <2>1, <3>1
  <2>3. Runs'
    <3>1. CASE Begin(r)
      <4>1. [run[r] EXCEPT !.pc = "attempt", !.attempt = 1] \in RunType
        <5>1. 1 \in 0 .. MaxAttempts
          BY <1>4
        <5> QED BY <2>1, <5>1, AttemptType
      <4>2. [run[r] EXCEPT !.pc = "attempt", !.attempt = 1].pc # "backoff"
        BY <2>1 DEF RunType
      <4> QED BY <1>11, <3>1, <4>1, <4>2 DEF Begin
    <3>2. CASE Finish(r)
      BY <1>12, <3>2 DEF Finish
    <3> QED BY <1>28, <3>1, <3>2
  <2>4. Rest'
    BY <1>3, <1>28 DEF Begin, Finish, Rest
  <2> QED BY <1>2, <2>2, <2>3, <2>4
<1>29. ASSUME NEW r \in Runner,
              StartAttempt(r) \/ AttemptSucceeds(r) \/ AttemptFails(r) \/ EndBackoff(r)
       PROVE  TypeInv'
  <2>1. run[r] \in RunType /\ RetryBound
    BY <1>3 DEF Runs
  <2>2. Runs'
    <3>1. CASE StartAttempt(r)
      BY <1>12, <3>1 DEF StartAttempt
    <3>2. CASE AttemptSucceeds(r)
      <4>1. [run[r] EXCEPT !.pc = "finish", !.ok = TRUE] \in RunType
        BY <2>1, RunUpdates
      <4>2. [run[r] EXCEPT !.pc = "finish", !.ok = TRUE].pc # "backoff"
        BY <2>1 DEF RunType
      <4> QED BY <1>11, <3>2, <4>1, <4>2 DEF AttemptSucceeds
    <3>3. CASE AttemptFails(r) /\ run[r].attempt < MaxAttempts
      <4>1. [run[r] EXCEPT !.pc = "backoff"] \in RunType
        BY <2>1, RunUpdates
      <4>2. [run[r] EXCEPT !.pc = "backoff"].attempt < MaxAttempts
        BY <2>1, <3>3 DEF RunType
      <4> QED BY <1>11, <3>3, <4>1, <4>2 DEF AttemptFails, Goto
    <3>4. CASE AttemptFails(r) /\ ~(run[r].attempt < MaxAttempts)
      BY <1>12, <3>4 DEF AttemptFails
    <3>5. CASE EndBackoff(r)
      <4>1. run[r].attempt + 1 \in 0 .. MaxAttempts
        BY <1>4, <2>1, <3>5 DEF EndBackoff, RetryBound, RunType
      <4>2. [run[r] EXCEPT !.pc = "attempt", !.attempt = run[r].attempt + 1] \in RunType
        BY <2>1, <4>1, AttemptType
      <4>3. [run[r] EXCEPT !.pc = "attempt", !.attempt = run[r].attempt + 1].pc # "backoff"
        BY <2>1 DEF RunType
      <4> QED BY <1>11, <3>5, <4>2, <4>3 DEF EndBackoff
    <3> QED BY <1>29, <3>1, <3>2, <3>3, <3>4, <3>5
  <2>3. UNCHANGED <<server, put, old, ghosts>>
    BY <1>29 DEF StartAttempt, AttemptSucceeds, AttemptFails, EndBackoff, RunOnly
  <2>4. Rest'
    BY <1>3, <2>3 DEF Rest, server, ghosts
  <2> QED BY <1>2, <1>7, <2>2, <2>3, <2>4 DEF server, ghosts
<1>30. ASSUME NEW r \in Runner, Record(r) PROVE TypeInv'
  <2>1. Append(history, r) \in Seq(Runner)
    BY <1>3 DEF Store
  <2>2. Capped(Append(history, r)) \in History
    BY <2>1, CappedType
  <2>3. Store'
    BY <1>3, <1>8, <1>30, <2>2 DEF Record, Store
  <2>4. Rest'
    BY <1>3, <1>30 DEF Record, Rest
  <2> QED BY <1>2, <1>12, <1>30, <2>3, <2>4 DEF Record
<1>31. ASSUME NEW r \in Runner, Unregister(r) PROVE TypeInv'
  <2>1. Rest'
    BY <1>3, <1>31 DEF Unregister, Rest, ghosts
  <2> QED BY <1>2, <1>7, <1>13, <1>31, <2>1 DEF Unregister, ghosts
<1>32. CASE Crash
  <2>1. Store'
    <3>1. tasks' \in [Id -> Task] /\ history' \in Seq(Runner) /\ Len(history') <= RunCap
      BY <1>5, <1>32, ConstantsAssumption DEF Crash
    <3> QED BY <1>3, <1>32, <3>1 DEF Crash, Store, FileBound
  <2>2. Runs'
    <3>1. \A r \in Runner : run'[r] \in {Unused, Ended}
      BY <1>32 DEF Crash
    <3>2. run' \in [Runner -> RunType]
      BY <1>6, <1>32 DEF Crash
    <3>3. RetryBound'
      BY <3>1 DEF RetryBound, Unused, Ended
    <3> QED BY <3>2, <3>3 DEF Runs
  <2>3. Rest'
    <3>1. \A r \in Runner : run[r].id \in Id
      BY <1>3 DEF Runs, RunType
    <3>2. clobbered' \subseteq Id
      BY <1>3, <1>32, <3>1 DEF Crash, Rest
    <3>3. crashes' \in 0 .. MaxCrash
      BY <1>3, <1>4, <1>32 DEF Crash, Rest
    <3>4. put' \in [Putter -> PutType]
      BY <1>6, <1>32 DEF Crash
    <3> QED BY <1>3, <1>32, <3>2, <3>3, <3>4 DEF Crash, Rest
  <2> QED BY <1>2, <2>1, <2>2, <2>3
<1>33. CASE Restart
  <2>1. db.runs \in SUBSET Runner /\ Cardinality(db.runs) <= RunCap
    BY <1>3 DEF Store, FileBound
  <2>2. history' \in Seq(Runner) /\ Len(history') <= RunCap
    BY <1>33, <2>1, SetToSeqsFact DEF Restart
  <2>3. Store'
    BY <1>3, <1>33, <2>2 DEF Restart, Store, FileBound
  <2>4. Rest'
    BY <1>3, <1>33 DEF Restart, Rest
  <2> QED BY <1>2, <1>10, <1>33, <2>3, <2>4 DEF Restart
<1>34. CASE UNCHANGED vars
  <2>1. Rest'
    BY <1>3, <1>34 DEF vars, server, ghosts, Rest
  <2> QED BY <1>2, <1>7, <1>10, <1>34, <2>1 DEF vars, server, ghosts
<1> QED
  BY <1>20, <1>21, <1>22, <1>23, <1>24, <1>25, <1>26, <1>27, <1>28, <1>29, <1>30, <1>31,
     <1>32, <1>33, <1>34 DEF Next, RunStep

LEMMA TypeInvariant == Spec => []TypeInv
  BY TypeInit, TypeNext, PTL DEF Spec

\* Every variable keeps its type in every behaviour, and the history and the
\* retries their bounds.
THEOREM TypeCorrect == Spec => []TypeOK
  BY TypeInvariant, PTL DEF TypeInv

(***************************************************************************)
(* The file                                                                *)
(***************************************************************************)

\* While the server is down it has no tasks and no goroutines, and what a
\* PUT has copied is a task.
DownInv  == ~up => /\ \A i \in Id : ~Exists(i)
                   /\ \A r \in Runner : run[r].pc \in {"unused", "done"}
CopyInv  == \A p \in Putter : put[p].pc = "read" => put[p].copy.state # "absent"
Base     == TypeInv /\ DownInv /\ CopyInv
StoreInv == Base /\ CreatedSurvives /\ DeletedStaysDeleted /\ FileMatchesMemory

\* A save that neither adds nor removes a task.
Rewrites(ts, rs) ==
  /\ \A i \in Id : ts[i].state = "absent" <=> ~Exists(i)
  /\ Commit(ts, rs)
  /\ up /\ UNCHANGED <<up, kept, gone, made>>

StoreKept == UNCHANGED <<up, tasks, history, db, saved, kept, gone, made>>

\* What one step can do to memory and file.
LEMMA StoreStep ==
  ASSUME Base, [Next]_vars
  PROVE  \/ \E i \in Id : CreateTask(i) \/ DeleteTask(i)
         \/ \E ts \in [Id -> Task], rs \in History : Rewrites(ts, rs)
         \/ Crash
         \/ Restart
         \/ StoreKept
<1> DEFINE Goal == \/ \E i \in Id : CreateTask(i) \/ DeleteTask(i)
                   \/ \E ts \in [Id -> Task], rs \in History : Rewrites(ts, rs)
                   \/ Crash
                   \/ Restart
                   \/ StoreKept
<1>1. /\ tasks \in [Id -> Task] /\ history \in History
      /\ run \in [Runner -> RunType] /\ put \in [Putter -> PutType]
  BY DEF Base, TypeInv, TypeOK, History, RunType, PutType
<1>2. ASSUME NEW i \in Id, NEW t \in Task, t.state # "absent", Exists(i),
             Commit([tasks EXCEPT ![i] = t], history), up, UNCHANGED <<up, kept, gone, made>>
      PROVE  Goal
  <2>1. [tasks EXCEPT ![i] = t] \in [Id -> Task]
    BY <1>1
  <2>2. \A j \in Id : [tasks EXCEPT ![i] = t][j].state = "absent" <=> ~Exists(j)
    BY <1>1, <1>2 DEF Exists
  <2>3. Rewrites([tasks EXCEPT ![i] = t], history)
    BY <1>2, <2>2 DEF Rewrites
  <2> QED BY <1>1, <2>1, <2>3
<1>3. \A i \in Id : Exists(i) => up
  BY DEF Base, DownInv
<1>4. ASSUME NEW i \in Id, NEW b \in BOOLEAN, SetEnabled(i, b) PROVE Goal
  <2>1. [tasks[i] EXCEPT !.enabled = b] \in Task
        /\ [tasks[i] EXCEPT !.enabled = b].state # "absent"
    BY <1>1, <1>4 DEF SetEnabled, Exists, Task
  <2>2. Commit([tasks EXCEPT ![i] = [tasks[i] EXCEPT !.enabled = b]], history)
    BY <1>4 DEF SetEnabled
  <2> QED BY <1>2, <1>4, <2>1, <2>2 DEF SetEnabled
<1>5. ASSUME NEW p \in Putter, PutTask(p) PROVE Goal
  <2>1. put[p].id \in Id /\ put[p].copy \in Task /\ put[p].copy.state # "absent"
    BY <1>1, <1>5 DEF PutTask, PutType, Base, CopyInv
  <2>2. CASE Exists(put[p].id)
    <3>1. PICK b \in BOOLEAN : Commit([tasks EXCEPT ![put[p].id] = Replaced(p, b)], history)
      BY <1>5, <2>2 DEF PutTask
    <3>2. Replaced(p, b) \in Task /\ Replaced(p, b).state # "absent"
      BY <2>1 DEF Replaced, Task
    <3> QED BY <1>2, <1>5, <2>1, <2>2, <3>1, <3>2 DEF PutTask
  <2>3. CASE ~Exists(put[p].id)
    BY <1>5, <2>3 DEF PutTask, StoreKept
  <2> QED BY <2>2, <2>3
<1>6. ASSUME NEW r \in Runner, Begin(r) \/ Finish(r) PROVE Goal
  <2>1. run[r].id \in Id /\ tasks[run[r].id] \in Task
    BY <1>1 DEF RunType
  <2>2. PICK t \in Task : t.state # "absent" /\ UpdateTask(run[r].id, t)
    <3> DEFINE u == tasks[run[r].id]
               t1 == [u EXCEPT !.state = "running", !.last = r, !.runs = @ + 1]
               t2 == [u EXCEPT !.state = "success", !.successes = @ + 1]
               t3 == [u EXCEPT !.state = "failed", !.failures = @ + 1]
    <3>1. t1 \in Task /\ t2 \in Task /\ t3 \in Task
      BY <2>1, TaskUpdates
    <3>2. t1.state # "absent" /\ t2.state # "absent" /\ t3.state # "absent"
      BY <2>1 DEF Task
    <3>3. \/ UpdateTask(run[r].id, t1) \/ UpdateTask(run[r].id, t2)
          \/ UpdateTask(run[r].id, t3)
      BY <1>6 DEF Begin, Finish
    <3> QED BY <3>1, <3>2, <3>3
  <2>3. UNCHANGED <<up, kept, gone, made>>
    BY <1>6 DEF Begin, Finish
  <2>4. CASE Exists(run[r].id) /\ Commit([tasks EXCEPT ![run[r].id] = t], history)
    BY <1>2, <1>3, <2>1, <2>2, <2>3, <2>4
  <2>5. CASE UNCHANGED <<tasks, history, db, saved>>
    BY <2>3, <2>5 DEF StoreKept
  <2> QED BY <2>2, <2>4, <2>5 DEF UpdateTask
<1>7. ASSUME NEW r \in Runner, Record(r) PROVE Goal
  <2>1. Append(history, r) \in Seq(Runner)
    BY <1>1 DEF History
  <2>2. Capped(Append(history, r)) \in History
    BY <2>1, CappedType
  <2>3. Rewrites(tasks, Capped(Append(history, r)))
    BY <1>1, <1>7 DEF Record, Rewrites, Exists, Base, DownInv
  <2> QED BY <1>1, <2>2, <2>3
<1>8. ASSUME NEW r \in Runner, Register(r) \/ Unregister(r) PROVE Goal
  BY <1>8 DEF Register, Unregister, StoreKept, ghosts
<1>9. ASSUME NEW r \in Runner, \/ StartAttempt(r) \/ AttemptSucceeds(r)
                               \/ AttemptFails(r) \/ EndBackoff(r)
      PROVE  Goal
  BY <1>9 DEF StartAttempt, AttemptSucceeds, AttemptFails, EndBackoff, RunOnly, StoreKept,
              server, ghosts
<1>10. ASSUME NEW r \in Runner, NEW i \in Id, RunManually(r, i) \/ SchedulerStarts(r, i)
       PROVE  Goal
  BY <1>10 DEF RunManually, SchedulerStarts, StoreKept, server, ghosts
<1>11. ASSUME NEW r \in Runner, IntervalElapses(r) PROVE Goal
  BY <1>11 DEF IntervalElapses, StoreKept, server, ghosts
<1>12. ASSUME NEW p \in Putter, NEW i \in Id, ReadForPut(p, i) PROVE Goal
  BY <1>12 DEF ReadForPut, StoreKept, server, ghosts
<1>13. CASE UNCHANGED vars
  BY <1>13 DEF vars, server, ghosts, StoreKept
<1> QED
  BY <1>4, <1>5, <1>6, <1>7, <1>8, <1>9, <1>10, <1>11, <1>12, <1>13 DEF Next, RunStep

\* Only a running server has goroutines that act.
LEMMA BaseNext == Base /\ [Next]_vars => Base'
<1> SUFFICES ASSUME Base, [Next]_vars PROVE Base'
  OBVIOUS
<1>1. TypeInv /\ TypeInv'
  BY TypeNext DEF Base
<1>2. /\ tasks \in [Id -> Task] /\ tasks' \in [Id -> Task]
      /\ run \in [Runner -> RunType] /\ put \in [Putter -> PutType]
  BY <1>1 DEF TypeInv, TypeOK, RunType, PutType
<1>3. CopyInv'
  <2>1. CopyInv
    BY DEF Base
  <2>2. CASE \E p \in Putter, i \in Id : ReadForPut(p, i)
    BY <1>2, <2>1, <2>2 DEF ReadForPut, CopyInv, Exists
  <2>3. CASE \E p \in Putter : PutTask(p)
    BY <1>2, <2>1, <2>3 DEF PutTask, CopyInv, NoPut
  <2>4. CASE Crash
    BY <2>4 DEF Crash, CopyInv, NoPut
  <2>5. CASE UNCHANGED put
    BY <2>1, <2>5 DEF CopyInv
  <2> QED
    BY <2>2, <2>3, <2>4, <2>5 DEF Next, RunStep, vars, CreateTask, DeleteTask, SetEnabled,
       RunManually, SchedulerStarts, IntervalElapses, Register, Begin, StartAttempt,
       AttemptSucceeds, AttemptFails, EndBackoff, RunOnly, Finish, Record, Unregister, Restart
<1>4. DownInv'
  <2>1. CASE Crash
    BY <2>1 DEF Crash, DownInv, Exists, Absent, Unused, Ended
  <2>2. CASE up'
    BY <2>2 DEF DownInv
  <2>3. CASE ~up /\ ~up'
    <3>1. /\ \A i \in Id : ~Exists(i)
          /\ \A r \in Runner : run[r].pc \in {"unused", "done"}
      BY <2>3 DEF Base, DownInv
    <3>2. UNCHANGED <<tasks, run>>
      BY <2>3, <3>1 DEF Next, RunStep, vars, server, CreateTask, DeleteTask, SetEnabled,
         ReadForPut, PutTask, RunManually, SchedulerStarts, IntervalElapses, Register, Begin,
         StartAttempt, AttemptSucceeds, AttemptFails, EndBackoff, Finish, Record, Unregister,
         Restart, Crash
    <3> QED BY <3>1, <3>2 DEF DownInv, Exists
  <2>4. CASE up /\ ~up' /\ ~Crash
    BY <2>4, StoreStep DEF CreateTask, DeleteTask, Rewrites, Restart, StoreKept
  <2> QED BY <1>1, <2>1, <2>2, <2>3, <2>4 DEF TypeInv, TypeOK
<1> QED BY <1>1, <1>3, <1>4 DEF Base

LEMMA StoreInit == Init => StoreInv
<1> SUFFICES ASSUME Init PROVE StoreInv
  OBVIOUS
<1>1. TypeInv
  BY TypeInit
<1>2. DownInv /\ CopyInv
  BY DEF Init, DownInv, CopyInv, NoPut
<1>3. CreatedSurvives /\ DeletedStaysDeleted
  BY DEF Init, CreatedSurvives, DeletedStaysDeleted
<1>4. FileMatchesMemory
  <2>1. ToSet(<<>>) = {}
    BY DEF ToSet
  <2> QED BY <2>1 DEF Init, FileMatchesMemory
<1> QED BY <1>1, <1>2, <1>3, <1>4 DEF StoreInv, Base

LEMMA StoreNext == StoreInv /\ [Next]_vars => StoreInv'
<1> SUFFICES ASSUME StoreInv, [Next]_vars PROVE StoreInv'
  OBVIOUS
<1>1. Base /\ Base' /\ CreatedSurvives /\ DeletedStaysDeleted /\ FileMatchesMemory
  BY BaseNext DEF StoreInv
<1>2. /\ tasks \in [Id -> Task] /\ db \in [tasks : [Id -> Task], runs : SUBSET Runner]
      /\ kept \subseteq Id /\ gone \subseteq Id
  BY <1>1 DEF Base, TypeInv, TypeOK
<1> DEFINE Goal == CreatedSurvives' /\ DeletedStaysDeleted' /\ FileMatchesMemory'
<1>3. ASSUME NEW i \in Id, CreateTask(i) PROVE Goal
  <2>1. \A b \in BOOLEAN : NewTask(b).state # "absent"
    BY DEF NewTask, Absent
  <2>2. CASE /\ \E b \in BOOLEAN : tasks' = [tasks EXCEPT ![i] = NewTask(b)]
             /\ Saves(tasks', history) /\ kept' = kept \cup {i} /\ gone' = gone \ {i}
    <3>1. PICK b \in BOOLEAN : tasks' = [tasks EXCEPT ![i] = NewTask(b)]
      BY <2>2
    <3>2. db' = [tasks |-> tasks', runs |-> ToSet(history)] /\ history' = history
      BY <1>3, <2>2 DEF Saves, CreateTask
    <3>3. CreatedSurvives'
      <4>1. db'.tasks = tasks' /\ up' = up /\ up
        BY <1>3, <3>2 DEF CreateTask
      <4>2. \A j \in kept' : tasks'[j].state # "absent"
        <5>1. \A j \in kept : tasks[j].state # "absent" /\ j \in Id
          BY <1>1, <1>2, <4>1 DEF CreatedSurvives, Exists
        <5> HIDE DEF NewTask
        <5> QED BY <1>2, <2>1, <2>2, <3>1, <5>1
      <4> QED BY <4>1, <4>2 DEF CreatedSurvives, Exists
    <3>4. DeletedStaysDeleted'
      BY <1>1, <1>2, <2>2, <3>1, <3>2 DEF DeletedStaysDeleted, Exists
    <3> QED BY <3>2, <3>3, <3>4 DEF FileMatchesMemory
  <2>3. CASE UNCHANGED <<tasks, db, saved, made, kept, gone>>
    BY <1>1, <1>3, <2>3 DEF CreateTask, CreatedSurvives, DeletedStaysDeleted,
                            FileMatchesMemory, Exists
  <2> QED BY <1>3, <2>2, <2>3 DEF CreateTask
<1>4. ASSUME NEW i \in Id, DeleteTask(i) PROVE Goal
  <2>1. /\ tasks' = [tasks EXCEPT ![i] = Absent] /\ history' = history
        /\ kept' = kept \ {i} /\ gone' = (IF saved' THEN gone \cup {i} ELSE gone)
        /\ Exists(i) /\ up' = up /\ up
    BY <1>4 DEF DeleteTask, Commit
  <2>2. Absent.state = "absent"
    BY DEF Absent
  <2>3. CASE Saves([tasks EXCEPT ![i] = Absent], history)
    <3>1. db' = [tasks |-> tasks', runs |-> ToSet(history')] /\ saved' = TRUE
      BY <2>1, <2>3 DEF Saves
    <3>2. CreatedSurvives'
      BY <1>1, <1>2, <2>1, <3>1 DEF CreatedSurvives, Exists
    <3>3. DeletedStaysDeleted'
      BY <1>1, <1>2, <2>1, <2>2, <3>1 DEF DeletedStaysDeleted, Exists
    <3> QED BY <3>1, <3>2, <3>3 DEF FileMatchesMemory
  <2>4. CASE SaveFails
    <3>1. db' = db /\ saved' = FALSE
      BY <2>4 DEF SaveFails
    <3>2. CreatedSurvives'
      BY <1>1, <1>2, <2>1, <3>1 DEF CreatedSurvives, Exists
    <3>3. DeletedStaysDeleted'
      BY <1>1, <1>2, <2>1, <2>2, <3>1 DEF DeletedStaysDeleted, Exists
    <3> QED BY <3>1, <3>2, <3>3 DEF FileMatchesMemory
  <2> QED BY <1>4, <2>3, <2>4 DEF DeleteTask, Commit
<1>5. ASSUME NEW ts \in [Id -> Task], NEW rs \in History, Rewrites(ts, rs) PROVE Goal
  <2>1. /\ tasks' = ts /\ history' = rs /\ up /\ up' /\ kept' = kept /\ gone' = gone
        /\ \A i \in Id : ts[i].state = "absent" <=> ~Exists(i)
    BY <1>5 DEF Rewrites, Commit
  <2>2. \/ db' = [tasks |-> ts, runs |-> ToSet(rs)]
        \/ db' = db /\ saved' = FALSE
    BY <1>5 DEF Rewrites, Commit, Saves, SaveFails
  <2>3. CreatedSurvives'
    BY <1>1, <1>2, <2>1, <2>2 DEF CreatedSurvives, Exists
  <2>4. DeletedStaysDeleted'
    BY <1>1, <1>2, <2>1, <2>2 DEF DeletedStaysDeleted, Exists
  <2>5. FileMatchesMemory'
    BY <2>1, <2>2 DEF FileMatchesMemory
  <2> QED BY <2>3, <2>4, <2>5
<1>6. ASSUME Crash PROVE Goal
  BY <1>1, <1>2, <1>6 DEF Crash, CreatedSurvives, DeletedStaysDeleted, FileMatchesMemory,
                          Exists, Absent
<1>7. ASSUME Restart PROVE Goal
  <2>1. ToSet(history') = db.runs
    BY <1>2, <1>7, SetToSeqsFact DEF Restart
  <2>2. tasks' = db.tasks /\ db' = db /\ kept' = kept /\ gone' = gone
    BY <1>7 DEF Restart
  <2>3. CreatedSurvives' /\ DeletedStaysDeleted'
    BY <1>1, <1>2, <2>2 DEF CreatedSurvives, DeletedStaysDeleted, Exists
  <2>4. db = [tasks |-> db.tasks, runs |-> db.runs]
    BY <1>2
  <2> QED BY <2>1, <2>2, <2>3, <2>4 DEF FileMatchesMemory
<1>8. ASSUME StoreKept PROVE Goal
  BY <1>1, <1>8 DEF StoreKept, CreatedSurvives, DeletedStaysDeleted, FileMatchesMemory, Exists
<1>9. Goal
  BY <1>1, <1>3, <1>4, <1>5, <1>6, <1>7, <1>8, StoreStep
<1> QED BY <1>1, <1>9 DEF StoreInv

LEMMA StoreInvariant == Spec => []StoreInv
  BY StoreInit, StoreNext, PTL DEF Spec

\* A task whose creation was confirmed survives until it is deleted, whatever
\* saves fail and whenever the process ends.
THEOREM CreatedTasksSurvive == Spec => []CreatedSurvives
  BY StoreInvariant, PTL DEF StoreInv

\* A task whose deletion was confirmed stays deleted, in memory and in the
\* file, whatever requests and runs were under way.
THEOREM DeletedTasksStayDeleted == Spec => []DeletedStaysDeleted
  BY StoreInvariant, PTL DEF StoreInv

\* The file is what is in memory whenever the last save succeeded.
THEOREM FileIsMemory == Spec => []FileMatchesMemory
  BY StoreInvariant, PTL DEF StoreInv

(***************************************************************************)
(* One run at a time, when ids are not used again                          *)
(***************************************************************************)

\* A run that works either holds the entry of its existing task, or its task
\* is gone and it was cancelled.  Without the ids' history the first case
\* could come back: that is what using an id again does.
Holds   == \A r \in Runner : Working(r) =>
             /\ run[r].id \in made
             /\ \/ running[run[r].id] = r /\ Exists(run[r].id)
                \/ ~Exists(run[r].id) /\ run[r].cancelled
MadeInv == \A i \in Id : Exists(i) \/ db.tasks[i].state # "absent" => i \in made
LockInv == Base /\ MadeInv /\ Holds /\ RegisteredIsWorking /\ OneRunPerTask

\* A step that leaves alone who works on what.
Quiet ==
  /\ UNCHANGED running
  /\ made \subseteq made'
  /\ \A i \in Id : Exists(i)' <=> Exists(i)
  /\ \A r \in Runner :
       /\ Working(r)' <=> Working(r)
       /\ Working(r) => run'[r].id = run[r].id /\ run'[r].cancelled = run[r].cancelled

LEMMA LockStep ==
  ASSUME Base, [Next]_vars
  PROVE  \/ \E i \in Id : CreateTask(i) \/ DeleteTask(i)
         \/ \E r \in Runner : Register(r) \/ Unregister(r)
         \/ Crash
         \/ Restart
         \/ Quiet
<1> DEFINE Goal == \/ \E i \in Id : CreateTask(i) \/ DeleteTask(i)
                   \/ \E r \in Runner : Register(r) \/ Unregister(r)
                   \/ Crash
                   \/ Restart
                   \/ Quiet
<1> SUFFICES ASSUME ~(\E i \in Id : CreateTask(i) \/ DeleteTask(i)),
                    ~(\E r \in Runner : Register(r) \/ Unregister(r)), ~Crash, ~Restart
             PROVE  Quiet
  OBVIOUS
<1>1. run \in [Runner -> RunType]
  BY DEF Base, TypeInv, TypeOK, RunType
<1>2. made' = made /\ \A i \in Id : Exists(i)' <=> Exists(i)
  <2>1. StoreKept \/ \E ts \in [Id -> Task], rs \in History : Rewrites(ts, rs)
    BY StoreStep
  <2>2. CASE StoreKept
    BY <2>2 DEF StoreKept, Exists
  <2>3. ASSUME NEW ts \in [Id -> Task], NEW rs \in History, Rewrites(ts, rs)
        PROVE  made' = made /\ \A i \in Id : Exists(i)' <=> Exists(i)
    BY <2>3 DEF Rewrites, Commit, Exists
  <2> QED BY <2>1, <2>2, <2>3
<1>3. UNCHANGED running
  BY DEF Next, RunStep, vars, server, SetEnabled, ReadForPut, PutTask, RunManually,
     SchedulerStarts, IntervalElapses, Begin, StartAttempt, AttemptSucceeds, AttemptFails,
     EndBackoff, RunOnly, Finish, Record
<1> DEFINE Same(q) == /\ Working(q)' <=> Working(q)
                      /\ Working(q) => /\ run'[q].id = run[q].id
                                       /\ run'[q].cancelled = run[q].cancelled
<1>4. ASSUME UNCHANGED run, NEW q \in Runner PROVE Same(q)
  BY <1>4 DEF Working
<1>5. ASSUME NEW r \in Runner, NEW i \in Id, Spawn(r, i), NEW q \in Runner PROVE Same(q)
  BY <1>1, <1>5 DEF Spawn, Working, RunType
<1>6. ASSUME NEW r \in Runner, NEW q \in Runner,
             \/ Begin(r) \/ StartAttempt(r) \/ AttemptSucceeds(r) \/ AttemptFails(r)
             \/ EndBackoff(r) \/ Finish(r) \/ Record(r)
      PROVE  Same(q)
  <2>1. run[r].pc \in {"begin", "attempt", "exec", "backoff", "finish", "record"}
    BY <1>6 DEF Begin, StartAttempt, AttemptSucceeds, AttemptFails, EndBackoff, Finish, Record
  <2>2. /\ run'[r].pc \in {"attempt", "exec", "backoff", "finish", "record", "unregister"}
        /\ run'[r].id = run[r].id /\ run'[r].cancelled = run[r].cancelled
    <3>1. CASE Begin(r) \/ EndBackoff(r)
      BY <1>1, <3>1 DEF Begin, EndBackoff, RunType
    <3>2. CASE AttemptSucceeds(r)
      BY <1>1, <3>2 DEF AttemptSucceeds, RunType
    <3>3. CASE StartAttempt(r) \/ AttemptFails(r) \/ Finish(r) \/ Record(r)
      BY <1>1, <3>3 DEF StartAttempt, AttemptFails, Finish, Record, Goto, RunType
    <3> QED BY <1>6, <3>1, <3>2, <3>3
  <2>3. \A p \in Runner : p # r => run'[p] = run[p]
    BY <1>1, <1>6 DEF Begin, StartAttempt, AttemptSucceeds, AttemptFails, EndBackoff, Finish,
       Record, Goto
  <2> QED BY <2>1, <2>2, <2>3 DEF Working
<1>7. \A q \in Runner : Same(q)
  <2>1. \/ UNCHANGED run
        \/ \E r \in Runner, i \in Id : Spawn(r, i)
        \/ \E r \in Runner : \/ Begin(r) \/ StartAttempt(r) \/ AttemptSucceeds(r)
                             \/ AttemptFails(r) \/ EndBackoff(r) \/ Finish(r) \/ Record(r)
    BY DEF Next, RunStep, vars, SetEnabled, ReadForPut, PutTask, RunManually,
       SchedulerStarts, IntervalElapses
  <2> QED BY <1>4, <1>5, <1>6, <2>1
<1> QED BY <1>2, <1>3, <1>7 DEF Quiet

LEMMA LockInit == Init => LockInv
<1> SUFFICES ASSUME Init PROVE LockInv
  OBVIOUS
<1>1. Base
  BY StoreInit DEF StoreInv
<1>2. \A r \in Runner : ~Working(r)
  BY DEF Init, Working, Unused
<1>3. MadeInv
  BY DEF Init, MadeInv, Exists, Absent
<1>4. RegisteredIsWorking
  BY ConstantsAssumption DEF Init, RegisteredIsWorking
<1> QED BY <1>1, <1>2, <1>3, <1>4 DEF LockInv, Holds, OneRunPerTask

LEMMA LockNext ==
  ASSUME Recreate = FALSE, LockInv, [Next]_vars
  PROVE  LockInv'
<1>1. Base /\ Base' /\ MadeInv /\ Holds /\ RegisteredIsWorking /\ OneRunPerTask
  BY BaseNext DEF LockInv
<1>2. /\ tasks \in [Id -> Task] /\ db \in [tasks : [Id -> Task], runs : SUBSET Runner]
      /\ run \in [Runner -> RunType] /\ running \in [Id -> Runner \cup {NoRunner}]
      /\ made \subseteq Id /\ NoRunner \notin Runner
  BY <1>1, ConstantsAssumption DEF Base, TypeInv, TypeOK, RunType
<1> DEFINE Goal == MadeInv' /\ Holds' /\ RegisteredIsWorking' /\ OneRunPerTask'
<1>3. \A r \in Runner : run[r].id \in Id
  BY <1>2 DEF RunType
<1>4. MadeInv'
  <2>1. ASSUME NEW i \in Id, CreateTask(i) PROVE MadeInv'
    <3>1. CASE /\ \E b \in BOOLEAN : tasks' = [tasks EXCEPT ![i] = NewTask(b)]
               /\ Saves(tasks', history) /\ made' = made \cup {i}
      <4>1. db'.tasks = tasks'
        BY <3>1 DEF Saves
      <4>2. \A j \in Id : j # i => tasks'[j] = tasks[j]
        BY <1>2, <3>1
      <4> QED BY <1>1, <3>1, <4>1, <4>2 DEF MadeInv, Exists
    <3>2. CASE UNCHANGED <<tasks, db, made>>
      BY <1>1, <3>2 DEF MadeInv, Exists
    <3> QED BY <2>1, <3>1, <3>2 DEF CreateTask
  <2>2. ASSUME NEW ts \in [Id -> Task], NEW rs \in History, Commit(ts, rs), made' = made,
               \A i \in Id : ts[i].state # "absent" => Exists(i)
        PROVE  MadeInv'
    <3>1. tasks' = ts /\ (db'.tasks = ts \/ db' = db)
      BY <2>2 DEF Commit, Saves, SaveFails
    <3> QED BY <1>1, <2>2, <3>1 DEF MadeInv, Exists
  <2>3. ASSUME NEW i \in Id, DeleteTask(i) PROVE MadeInv'
    <3>1. [tasks EXCEPT ![i] = Absent] \in [Id -> Task]
      BY <1>2, Defaults
    <3>2. \A j \in Id : [tasks EXCEPT ![i] = Absent][j].state # "absent" => Exists(j)
      BY <1>2 DEF Exists, Absent
    <3>3. history \in History
      BY <1>1 DEF Base, TypeInv, TypeOK, History
    <3> QED BY <2>2, <2>3, <3>1, <3>2, <3>3 DEF DeleteTask
  <2>4. ASSUME NEW ts \in [Id -> Task], NEW rs \in History, Rewrites(ts, rs) PROVE MadeInv'
    BY <2>2, <2>4 DEF Rewrites
  <2>5. ASSUME Crash PROVE MadeInv'
    BY <1>1, <2>5 DEF Crash, MadeInv, Exists, Absent
  <2>6. ASSUME Restart \/ StoreKept PROVE MadeInv'
    BY <1>1, <2>6 DEF Restart, StoreKept, MadeInv, Exists
  <2> QED BY <1>1, <2>1, <2>3, <2>4, <2>5, <2>6, StoreStep
<1>5. ASSUME Quiet PROVE Holds' /\ RegisteredIsWorking' /\ OneRunPerTask'
  BY <1>1, <1>2, <1>3, <1>5 DEF Quiet, Holds, RegisteredIsWorking, OneRunPerTask
<1>6. ASSUME NEW i \in Id, CreateTask(i)
      PROVE  Holds' /\ RegisteredIsWorking' /\ OneRunPerTask'
  <2>1. UNCHANGED <<run, running>> /\ made \subseteq made' /\ i \notin made
    BY <1>6 DEF CreateTask
  <2>2. \A j \in Id : j # i => tasks'[j] = tasks[j]
    BY <1>2, <1>6 DEF CreateTask
  <2>3. \A r \in Runner : Working(r)' <=> Working(r)
    BY <2>1 DEF Working
  <2>4. \A r \in Runner : Working(r) => run[r].id # i
    BY <1>1, <2>1 DEF Holds
  <2> QED BY <1>1, <1>3, <2>1, <2>2, <2>3, <2>4
          DEF Holds, RegisteredIsWorking, OneRunPerTask, Exists
<1>7. ASSUME NEW i \in Id, DeleteTask(i)
      PROVE  Holds' /\ RegisteredIsWorking' /\ OneRunPerTask'
  <2>1. /\ made' = made /\ running' = [running EXCEPT ![i] = NoRunner]
        /\ tasks' = [tasks EXCEPT ![i] = Absent] /\ Exists(i)
    BY <1>7 DEF DeleteTask, Commit
  <2>2. \A r \in Runner : /\ run'[r].pc = run[r].pc /\ run'[r].id = run[r].id
                          /\ run'[r].cancelled = (run[r].cancelled \/ running[i] = r)
    BY <1>2, <1>7 DEF DeleteTask, RunType
  <2>3. \A r \in Runner : Working(r)' <=> Working(r)
    BY <2>2 DEF Working
  <2>4. \A j \in Id : /\ Exists(j)' <=> Exists(j) /\ j # i
                      /\ j # i => running'[j] = running[j]
    BY <1>2, <2>1 DEF Exists, Absent
  <2>5. Holds'
    <3> SUFFICES ASSUME NEW r \in Runner, Working(r)
                 PROVE  /\ run[r].id \in made
                        /\ \/ running'[run[r].id] = r /\ Exists(run[r].id)'
                           \/ ~Exists(run[r].id)' /\ run'[r].cancelled
      BY <2>1, <2>2, <2>3 DEF Holds, Exists
    <3>1. CASE run[r].id = i
      <4>1. running[i] = r
        BY <1>1, <2>1, <3>1 DEF Holds
      <4> QED BY <1>1, <1>3, <2>2, <2>4, <3>1, <4>1 DEF Holds
    <3>2. CASE run[r].id # i
      BY <1>1, <1>3, <2>2, <2>4, <3>2 DEF Holds
    <3> QED BY <3>1, <3>2
  <2>6. RegisteredIsWorking'
    BY <1>1, <1>2, <2>1, <2>2, <2>3, <2>4 DEF RegisteredIsWorking
  <2> QED BY <1>1, <2>2, <2>3, <2>5, <2>6 DEF OneRunPerTask
<1>8. ASSUME NEW r \in Runner, Register(r)
      PROVE  Holds' /\ RegisteredIsWorking' /\ OneRunPerTask'
  <2>1. UNCHANGED <<tasks, made>> /\ run[r].pc = "spawned" /\ ~Working(r)
    BY <1>8 DEF Register, ghosts, Working
  <2>2. \A q \in Runner : q # r => run'[q] = run[q]
    BY <1>2, <1>8 DEF Register, Goto, End
  <2>3. \A q \in Runner : q # r => (Working(q)' <=> Working(q))
    BY <2>2 DEF Working
  <2>4. \A j \in Id : running[j] # r
    BY <1>1, <2>1 DEF RegisteredIsWorking
  <2>5. CASE running[run[r].id] = NoRunner /\ Exists(run[r].id)
    <3>1. /\ running' = [running EXCEPT ![run[r].id] = r]
          /\ run'[r].pc = "begin" /\ run'[r].id = run[r].id
      BY <1>2, <1>8, <2>5 DEF Register, Goto, RunType
    <3>2. Working(r)'
      BY <3>1 DEF Working
    <3>3. \A q \in Runner : Working(q) => run[q].id # run[r].id
      BY <1>1, <1>2, <2>5 DEF Holds
    <3>4. Holds'
      <4> SUFFICES ASSUME NEW q \in Runner, Working(q)'
                   PROVE  /\ run'[q].id \in made
                          /\ \/ running'[run'[q].id] = q /\ Exists(run'[q].id)
                             \/ ~Exists(run'[q].id) /\ run'[q].cancelled
        BY <2>1 DEF Holds, Exists
      <4>1. CASE q = r
        BY <1>1, <1>2, <1>3, <2>5, <3>1, <4>1 DEF MadeInv
      <4>2. CASE q # r
        <5>1. Working(q) /\ run'[q] = run[q] /\ run[q].id # run[r].id
          BY <2>2, <2>3, <3>3, <4>2
        <5> QED BY <1>1, <1>2, <1>3, <3>1, <5>1 DEF Holds
      <4> QED BY <4>1, <4>2
    <3>5. RegisteredIsWorking'
      BY <1>1, <1>2, <1>3, <2>2, <2>3, <2>4, <3>1, <3>2 DEF RegisteredIsWorking
    <3>6. OneRunPerTask'
      BY <1>1, <2>2, <2>3, <3>1, <3>3 DEF OneRunPerTask
    <3> QED BY <3>4, <3>5, <3>6
  <2>6. CASE ~(running[run[r].id] = NoRunner /\ Exists(run[r].id))
    <3>1. UNCHANGED running /\ run'[r].pc = "done"
      BY <1>2, <1>8, <2>6 DEF Register, End, Ended, Unused
    <3>2. ~Working(r)'
      BY <3>1 DEF Working
    <3> QED BY <1>1, <2>1, <2>2, <2>3, <2>4, <3>1, <3>2
            DEF Holds, RegisteredIsWorking, OneRunPerTask, Exists
  <2> QED BY <2>5, <2>6
<1>9. ASSUME NEW r \in Runner, Unregister(r)
      PROVE  Holds' /\ RegisteredIsWorking' /\ OneRunPerTask'
  <2>1. /\ UNCHANGED <<tasks, made>> /\ Working(r)
        /\ running' = [running EXCEPT ![run[r].id] = NoRunner]
    BY <1>9 DEF Unregister, ghosts, Working
  <2>2. \A q \in Runner : q # r => run'[q] = run[q]
    BY <1>2, <1>9 DEF Unregister, End
  <2>3. run'[r].pc = "done"
    BY <1>2, <1>9 DEF Unregister, End, Ended, Unused
  <2>4. \A q \in Runner : Working(q)' <=> Working(q) /\ q # r
    BY <2>2, <2>3 DEF Working
  <2>5. \A q \in Runner : Working(q) /\ q # r => run[q].id # run[r].id
    BY <1>1, <2>1 DEF OneRunPerTask
  <2>6. \A j \in Id : j # run[r].id => running'[j] = running[j]
    BY <1>2, <2>1
  <2>7. Holds'
    <3> SUFFICES ASSUME NEW q \in Runner, Working(q), q # r
                 PROVE  /\ run[q].id \in made
                        /\ \/ running'[run[q].id] = q /\ Exists(run[q].id)
                           \/ ~Exists(run[q].id) /\ run[q].cancelled
      BY <2>1, <2>2, <2>4 DEF Holds, Exists
    <3> QED BY <1>1, <1>3, <2>5, <2>6 DEF Holds
  <2>8. RegisteredIsWorking'
    BY <1>1, <1>2, <1>3, <2>1, <2>2, <2>4, <2>6 DEF RegisteredIsWorking
  <2>9. OneRunPerTask'
    BY <1>1, <2>2, <2>4 DEF OneRunPerTask
  <2> QED BY <2>7, <2>8, <2>9
<1>10. ASSUME Crash PROVE Holds' /\ RegisteredIsWorking' /\ OneRunPerTask'
  <2>1. \A r \in Runner : ~Working(r)'
    BY <1>10 DEF Crash, Working, Unused, Ended
  <2>2. \A i \in Id : running'[i] = NoRunner
    BY <1>10 DEF Crash
  <2> QED BY <1>2, <2>1, <2>2 DEF Holds, RegisteredIsWorking, OneRunPerTask
<1>11. ASSUME Restart PROVE Holds' /\ RegisteredIsWorking' /\ OneRunPerTask'
  <2>1. UNCHANGED <<run, running>>
    BY <1>11 DEF Restart
  <2>2. \A r \in Runner : ~Working(r) /\ ~Working(r)'
    BY <1>1, <1>11, <2>1 DEF Restart, Base, DownInv, Working
  <2> QED BY <1>1, <2>1, <2>2 DEF Holds, RegisteredIsWorking, OneRunPerTask
<1>12. Holds' /\ RegisteredIsWorking' /\ OneRunPerTask'
  BY <1>1, <1>5, <1>6, <1>7, <1>8, <1>9, <1>10, <1>11, LockStep
<1> QED BY <1>1, <1>4, <1>12 DEF LockInv

LEMMA LockInvariant == Recreate = FALSE => (Spec => []LockInv)
<1> SUFFICES ASSUME Recreate = FALSE PROVE Spec => []LockInv
  OBVIOUS
<1>1. LockInv /\ [Next]_vars => LockInv'
  BY LockNext
<1> QED BY <1>1, LockInit, PTL DEF Spec

\* When no id is used again, a task never has two runs, whatever the
\* scheduler, the clients, failed saves and restarts do.
THEOREM OneRunAtATime == Recreate = FALSE => (Spec => []OneRunPerTask)
  BY LockInvariant, PTL DEF LockInv

\* An entry of s.running always belongs to a run that is going to remove it.
THEOREM NoStaleEntry == Recreate = FALSE => (Spec => []RegisteredIsWorking)
  BY LockInvariant, PTL DEF LockInv

\* Deleting a task cancels its run, whatever step that run is in.
THEOREM DeletionCancels == Recreate = FALSE => (Spec => []DeletedIsCancelled)
<1>1. LockInv => DeletedIsCancelled
  BY DEF LockInv, Holds, DeletedIsCancelled
<1> QED BY <1>1, LockInvariant, PTL

(***************************************************************************)
(* The counters and the state of a task                                    *)
(***************************************************************************)

Open(i) == {r \in Runner : Counted(r) /\ run[r].id = i}

\* A status that adds up when the runs S are in progress.
Adds(t, S) == /\ t.runs = t.successes + t.failures + Cardinality(S)
              /\ t.state = "running" <=> S # {}

\* StatusAddsUp does not survive a restart by itself: what a restart loads is
\* the file, so the file has to add up, without a run, while the server is down.
UpAdds    == \A i \in Id \ clobbered : Exists(i) => Adds(tasks[i], Open(i))
DownAdds  == ~up => \A i \in Id \ clobbered :
               db.tasks[i].state # "absent" => Adds(db.tasks[i], {})
StatusInv == LockInv /\ FileMatchesMemory /\ UpAdds /\ DownAdds

LEMMA UpAddsIsStatusAddsUp == UpAdds <=> StatusAddsUp
  BY DEF UpAdds, StatusAddsUp, Adds, Open

\* The enabled flag is no part of what adds up.
LEMMA AddsFields ==
  ASSUME NEW t, NEW u, NEW S, Adds(t, S), u.runs = t.runs, u.successes = t.successes,
         u.failures = t.failures, u.state = t.state
  PROVE  Adds(u, S)
  BY DEF Adds

\* Of the run that works on a task no other is in progress.
LEMMA OpenOfRun ==
  ASSUME OneRunPerTask, NEW r \in Runner, Working(r)
  PROVE  Open(run[r].id) = IF Counted(r) THEN {r} ELSE {}
<1>1. \A q \in Runner : Counted(q) => Working(q)
  BY DEF Counted, Working
<1>2. \A q \in Runner : q \in Open(run[r].id) <=> q = r /\ Counted(r)
  BY <1>1 DEF Open, OneRunPerTask
<1>3. Open(run[r].id) \subseteq Runner
  BY DEF Open
<1> QED BY <1>2, <1>3

\* Steps that leave every run in progress as it is.
LEMMA OpenKept ==
  ASSUME \A q \in Runner : /\ Counted(q)' <=> Counted(q)
                           /\ Counted(q) => run'[q].id = run[q].id
  PROVE  \A i \in Id : Open(i)' = Open(i)
<1> SUFFICES ASSUME NEW i \in Id PROVE Open(i)' = Open(i)
  OBVIOUS
<1>1. \A q \in Runner : q \in Open(i)' <=> q \in Open(i)
  BY DEF Open, Counted
<1>2. Open(i) \subseteq Runner /\ Open(i)' \subseteq Runner
  BY DEF Open
<1> QED BY <1>1, <1>2

LEMMA StatusInit == Init => StatusInv
<1> SUFFICES ASSUME Init PROVE StatusInv
  OBVIOUS
<1>1. LockInv /\ FileMatchesMemory
  BY LockInit, StoreInit DEF StoreInv
<1>2. UpAdds /\ DownAdds
  BY DEF Init, UpAdds, DownAdds, Exists, Absent
<1> QED BY <1>1, <1>2 DEF StatusInv

LEMMA StatusNext ==
  ASSUME Recreate = FALSE, StatusInv, [Next]_vars
  PROVE  UpAdds' /\ DownAdds'
<1>1. LockInv /\ FileMatchesMemory /\ UpAdds /\ DownAdds
  BY DEF StatusInv
<1>2. Base /\ Base' /\ Holds /\ OneRunPerTask
  BY <1>1, BaseNext DEF LockInv
<1>3. /\ tasks \in [Id -> Task] /\ db \in [tasks : [Id -> Task], runs : SUBSET Runner]
      /\ run \in [Runner -> RunType] /\ put \in [Putter -> PutType] /\ clobbered \subseteq Id
      /\ up \in BOOLEAN
  BY <1>2 DEF Base, TypeInv, TypeOK, RunType, PutType
<1>4. \A r \in Runner : run[r].id \in Id
  BY <1>3 DEF RunType
<1>5. Cardinality({}) = 0 /\ \A r \in Runner : Cardinality({r}) = 1
  BY FS_EmptySet, FS_Singleton
<1> DEFINE Goal == UpAdds' /\ DownAdds'
           Still == \A q \in Runner : /\ Counted(q)' <=> Counted(q)
                                      /\ Counted(q) => run'[q].id = run[q].id
<1>6. ASSUME UNCHANGED run PROVE Still
  BY <1>6 DEF Counted
<1>7. ASSUME Still PROVE \A i \in Id : Open(i)' = Open(i)
  BY <1>7, OpenKept
<1> HIDE DEF Still
\* A running server that stays up, and one task whose status may change.
<1>8. ASSUME up', NEW i \in Id,
             \A j \in Id : j # i => tasks'[j] = tasks[j] /\ Open(j)' = Open(j),
             clobbered \subseteq clobbered',
             i \notin clobbered' /\ Exists(i)' => Adds(tasks'[i], Open(i)')
      PROVE  Goal
  <2>1. ASSUME NEW j \in Id \ clobbered', Exists(j)' PROVE Adds(tasks'[j], Open(j)')
    <3>1. CASE j = i
      BY <1>8, <2>1, <3>1
    <3>2. CASE j # i
      <4>1. tasks'[j] = tasks[j] /\ Open(j)' = Open(j) /\ j \in Id \ clobbered
        BY <1>8, <2>1, <3>2
      <4>2. Exists(j)
        BY <2>1, <4>1 DEF Exists
      <4> QED BY <1>1, <4>1, <4>2 DEF UpAdds
    <3> QED BY <3>1, <3>2
  <2>2. UpAdds'
    BY <2>1 DEF UpAdds, Adds
  <2> QED BY <1>8, <2>2 DEF DownAdds
<1>9. ASSUME up', UNCHANGED <<tasks, clobbered>>, Still PROVE Goal
  <2>1. \A i \in Id : Open(i)' = Open(i) /\ (Exists(i)' <=> Exists(i))
    BY <1>7, <1>9 DEF Exists
  <2>2. UpAdds'
    BY <1>1, <1>9, <2>1 DEF UpAdds, Adds
  <2> QED BY <1>9, <2>2 DEF DownAdds
<1>10. ASSUME ~up, ~up', UNCHANGED <<tasks, db, clobbered>>, Still PROVE Goal
  <2>1. \A i \in Id : ~Exists(i)'
    BY <1>2, <1>10 DEF Base, DownInv, Exists
  <2> QED BY <1>1, <1>10, <2>1 DEF UpAdds, DownAdds, Adds
<1>11. ASSUME UNCHANGED <<up, tasks, db, clobbered>>, Still PROVE Goal
  BY <1>3, <1>9, <1>10, <1>11
<1>20. ASSUME NEW i \in Id, CreateTask(i) PROVE Goal
  <2>1. up' /\ run' = run /\ clobbered' = clobbered /\ i \notin made
    BY <1>20 DEF CreateTask
  <2>2. \A j \in Id : Open(j)' = Open(j)
    BY <1>6, <1>7, <2>1
  <2>3. CASE \E b \in BOOLEAN : tasks' = [tasks EXCEPT ![i] = NewTask(b)]
    <3>1. PICK b \in BOOLEAN : tasks' = [tasks EXCEPT ![i] = NewTask(b)]
      BY <2>3
    <3>2. Open(i) = {}
      BY <1>2, <2>1 DEF Open, Holds, Counted, Working
    <3>3. /\ NewTask(b).runs = 0 /\ NewTask(b).successes = 0 /\ NewTask(b).failures = 0
          /\ NewTask(b).state = "new"
      BY DEF NewTask, Absent
    <3>4. Adds(NewTask(b), {})
      BY <1>5, <3>3 DEF Adds
    <3>5. tasks'[i] = NewTask(b) /\ \A j \in Id : j # i => tasks'[j] = tasks[j]
      BY <1>3, <3>1
    <3> QED BY <1>8, <2>1, <2>2, <3>2, <3>4, <3>5
  <2>4. CASE UNCHANGED tasks
    BY <1>6, <1>9, <2>1, <2>4
  <2> QED BY <1>20, <2>3, <2>4 DEF CreateTask
<1>21. ASSUME NEW i \in Id, DeleteTask(i) PROVE Goal
  <2>1. up' /\ clobbered' = clobbered /\ tasks' = [tasks EXCEPT ![i] = Absent]
    BY <1>21 DEF DeleteTask, Commit
  <2>2. \A r \in Runner : run'[r].pc = run[r].pc /\ run'[r].id = run[r].id
    BY <1>3, <1>21 DEF DeleteTask, RunType
  <2>3. Still
    BY <2>2 DEF Counted, Still
  <2>4. ~Exists(i)' /\ \A j \in Id : j # i => tasks'[j] = tasks[j]
    BY <1>3, <2>1 DEF Exists, Absent
  <2> QED BY <1>7, <1>8, <2>1, <2>3, <2>4
<1>22. ASSUME NEW i \in Id, NEW b \in BOOLEAN, SetEnabled(i, b) PROVE Goal
  <2>1. /\ up' /\ run' = run /\ clobbered' = clobbered /\ Exists(i)
        /\ tasks' = [tasks EXCEPT ![i].enabled = b]
    BY <1>22 DEF SetEnabled, Commit
  <2>2. /\ \A j \in Id : j # i => tasks'[j] = tasks[j]
        /\ tasks'[i].runs = tasks[i].runs /\ tasks'[i].state = tasks[i].state
        /\ tasks'[i].successes = tasks[i].successes /\ tasks'[i].failures = tasks[i].failures
    BY <1>3, <2>1 DEF Task
  <2>3. i \notin clobbered => Adds(tasks'[i], Open(i))
    BY <1>1, <2>1, <2>2, AddsFields DEF UpAdds
  <2> QED BY <1>6, <1>7, <1>8, <2>1, <2>2, <2>3
<1>23. ASSUME NEW p \in Putter, PutTask(p) PROVE Goal
  <2> DEFINE i == put[p].id
             c == put[p].copy
  <2>1. i \in Id /\ c \in Task /\ up' /\ run' = run
    BY <1>3, <1>23 DEF PutTask, PutType
  <2>2. CASE Exists(i) /\ \E b \in BOOLEAN : Commit([tasks EXCEPT ![i] = Replaced(p, b)], history)
    <3>1. PICK b \in BOOLEAN : tasks' = [tasks EXCEPT ![i] = Replaced(p, b)]
      BY <2>2 DEF Commit
    <3>2. /\ clobbered \subseteq clobbered'
          /\ i \notin clobbered' => tasks[i] = [c EXCEPT !.enabled = tasks[i].enabled]
      BY <1>23, <2>2 DEF PutTask
    <3>3. tasks'[i] = [c EXCEPT !.enabled = b] /\ \A j \in Id : j # i => tasks'[j] = tasks[j]
      BY <1>3, <2>1, <3>1 DEF Replaced
    <3>4. ASSUME i \notin clobbered' PROVE Adds(tasks'[i], Open(i))
      <4>1. /\ tasks[i].runs = c.runs /\ tasks[i].state = c.state
            /\ tasks[i].successes = c.successes /\ tasks[i].failures = c.failures
        BY <2>1, <3>2, <3>4 DEF Task
      <4>2. /\ tasks'[i].runs = c.runs /\ tasks'[i].state = c.state
            /\ tasks'[i].successes = c.successes /\ tasks'[i].failures = c.failures
        BY <2>1, <3>3 DEF Task
      <4>3. Adds(tasks[i], Open(i))
        BY <1>1, <2>1, <2>2, <3>2, <3>4 DEF UpAdds
      <4> QED BY <4>1, <4>2, <4>3, AddsFields
    <3>5. PICK k \in Id : k = i
      BY <2>1
    <3>6. \A j \in Id : Open(j)' = Open(j)
      BY <1>6, <1>7, <2>1
    <3>7. k \notin clobbered' /\ Exists(k)' => Adds(tasks'[k], Open(k)')
      BY <3>4, <3>5, <3>6
    <3> QED BY <1>8, <2>1, <3>2, <3>3, <3>5, <3>6, <3>7
  <2>3. CASE UNCHANGED <<tasks, clobbered>>
    BY <1>6, <1>9, <2>1, <2>3
  <2> QED BY <1>23, <2>2, <2>3 DEF PutTask
<1>24. ASSUME NEW r \in Runner, Begin(r) \/ Finish(r) PROVE Goal
  <2>1. PICK i \in Id : i = run[r].id
    BY <1>4
  <2>2. /\ Working(r) /\ clobbered' = clobbered /\ up' = up
        /\ Counted(r) <=> Finish(r)
        /\ ~(Begin(r) /\ Finish(r))
    BY <1>24 DEF Begin, Finish, Working, Counted
  <2>3. up
    BY <1>2, <2>2 DEF Base, DownInv, Working
  <2>4. Open(i) = IF Counted(r) THEN {r} ELSE {}
    BY <1>2, <2>1, <2>2, OpenOfRun
  <2>5. /\ run'[r].pc = (IF Begin(r) THEN "attempt" ELSE "record") /\ run'[r].id = i
        /\ \A q \in Runner : q # r => run'[q] = run[q]
    BY <1>3, <1>24, <2>1, <2>2 DEF Begin, Finish, Goto, RunType
  <2>6. Counted(r)' <=> Begin(r)
    BY <1>24, <2>5 DEF Counted
  <2>7. \A q \in Runner : q # r => (Counted(q)' <=> Counted(q))
    BY <2>5 DEF Counted
  <2>8. \A j \in Id : j # i => Open(j)' = Open(j)
    <3> SUFFICES ASSUME NEW j \in Id, j # i PROVE Open(j)' = Open(j)
      OBVIOUS
    <3>1. \A q \in Runner : q \in Open(j)' <=> q \in Open(j)
      BY <2>1, <2>5, <2>7 DEF Open
    <3> QED BY <3>1 DEF Open
  <2>9. Open(i)' = IF Begin(r) THEN {r} ELSE {}
    <3>1. \A q \in Runner : q # r => (q \in Open(i)' <=> q \in Open(i))
      BY <2>5, <2>7 DEF Open
    <3>2. r \in Open(i)' <=> Begin(r)
      BY <2>5, <2>6 DEF Open
    <3>3. \A q \in Runner : q \in Open(i) => q = r
      BY <2>4
    <3>4. Open(i)' \subseteq Runner
      BY DEF Open
    <3> QED BY <3>1, <3>2, <3>3, <3>4
  <2>10. CASE Exists(i)
    <3> DEFINE t == tasks[i]
    <3>1. t \in Task
      BY <1>3
    <3>2. CASE Begin(r)
      <4>1. tasks' = [tasks EXCEPT ![i] = [t EXCEPT !.state = "running", !.last = r, !.runs = @ + 1]]
        BY <2>1, <2>10, <3>2 DEF Begin, UpdateTask, Commit
      <4>2. /\ tasks'[i].runs = t.runs + 1 /\ tasks'[i].state = "running"
            /\ tasks'[i].successes = t.successes /\ tasks'[i].failures = t.failures
            /\ \A j \in Id : j # i => tasks'[j] = tasks[j]
        BY <1>3, <3>1, <4>1 DEF Task
      <4>3. i \notin clobbered => t.runs = t.successes + t.failures
        <5>1. Open(i) = {}
          BY <2>2, <2>4, <3>2
        <5>2. i \notin clobbered => Adds(t, {})
          BY <1>1, <2>10, <5>1 DEF UpAdds
        <5> QED BY <1>5, <3>1, <5>2 DEF Adds, Task
      <4>4. i \notin clobbered => Adds(tasks'[i], {r})
        BY <1>5, <3>1, <4>2, <4>3 DEF Adds, Task
      <4>5. Open(i)' = {r}
        BY <2>9, <3>2
      <4> HIDE DEF t
      <4> QED BY <1>8, <2>2, <2>3, <2>8, <4>2, <4>4, <4>5
    <3>3. CASE Finish(r)
      <4>1. /\ tasks'[i].runs = t.runs /\ tasks'[i].state # "running"
            /\ tasks'[i].successes + tasks'[i].failures = t.successes + t.failures + 1
            /\ \A j \in Id : j # i => tasks'[j] = tasks[j]
        <5>1. CASE run[r].ok
          <6>1. tasks' = [tasks EXCEPT ![i] = [t EXCEPT !.state = "success", !.successes = @ + 1]]
            BY <2>1, <2>10, <3>3, <5>1 DEF Finish, UpdateTask, Commit
          <6> QED BY <1>3, <3>1, <6>1 DEF Task
        <5>2. CASE ~run[r].ok
          <6>1. tasks' = [tasks EXCEPT ![i] = [t EXCEPT !.state = "failed", !.failures = @ + 1]]
            BY <2>1, <2>10, <3>3, <5>2 DEF Finish, UpdateTask, Commit
          <6> QED BY <1>3, <3>1, <6>1 DEF Task
        <5> QED BY <5>1, <5>2
      <4>2. i \notin clobbered => t.runs = t.successes + t.failures + 1
        <5>1. Open(i) = {r}
          BY <2>2, <2>4, <3>3
        <5>2. i \notin clobbered => Adds(t, {r})
          BY <1>1, <2>10, <5>1 DEF UpAdds
        <5> QED BY <1>5, <3>1, <5>2 DEF Adds, Task
      <4>3. tasks'[i] \in Task
        BY <1>2 DEF Base, TypeInv, TypeOK
      <4>4. i \notin clobbered => Adds(tasks'[i], {})
        BY <1>5, <3>1, <4>1, <4>2, <4>3 DEF Adds, Task
      <4>5. Open(i)' = {}
        BY <2>2, <2>9, <3>3
      <4> HIDE DEF t
      <4> QED BY <1>8, <2>2, <2>3, <2>8, <4>1, <4>4, <4>5
    <3> QED BY <1>24, <3>2, <3>3
  <2>11. CASE ~Exists(i)
    <3>1. tasks' = tasks
      BY <1>24, <2>1, <2>11 DEF Begin, Finish, UpdateTask
    <3>2. ~Exists(i)'
      BY <2>11, <3>1 DEF Exists
    <3> QED BY <1>8, <2>2, <2>3, <2>8, <3>1, <3>2
  <2> QED BY <2>10, <2>11
<1>25. ASSUME NEW r \in Runner,
              \/ StartAttempt(r) \/ AttemptSucceeds(r) \/ AttemptFails(r) \/ EndBackoff(r)
       PROVE  Goal
  <2>1. run[r].pc \in {"attempt", "exec", "backoff"}
    BY <1>25 DEF StartAttempt, AttemptSucceeds, AttemptFails, EndBackoff
  <2>2. /\ run'[r].pc \in {"attempt", "exec", "backoff", "finish"} /\ run'[r].id = run[r].id
        /\ \A q \in Runner : q # r => run'[q] = run[q]
    BY <1>3, <1>25 DEF StartAttempt, AttemptSucceeds, AttemptFails, EndBackoff, Goto, RunType
  <2>3. Still
    BY <2>1, <2>2 DEF Counted, Still
  <2> QED BY <1>11, <1>25, <2>3 DEF StartAttempt, AttemptSucceeds, AttemptFails, EndBackoff,
                                  RunOnly, server, ghosts
<1>26. ASSUME NEW r \in Runner, Record(r) \/ Register(r) \/ Unregister(r) PROVE Goal
  <2>1. run[r].pc \in {"record", "spawned", "unregister"}
    BY <1>26 DEF Record, Register, Unregister
  <2>2. /\ run'[r].pc \in {"unregister", "begin", "done"}
        /\ \A q \in Runner : q # r => run'[q] = run[q]
    BY <1>3, <1>26 DEF Record, Register, Unregister, Goto, End, Ended, Unused, RunType
  <2>3. Still
    BY <2>1, <2>2 DEF Counted, Still
  <2>4. CASE Record(r)
    <3>1. up' = up /\ tasks' = tasks /\ clobbered' = clobbered
      BY <2>4 DEF Record, Commit
    <3>2. up
      BY <1>2, <2>4 DEF Base, DownInv, Record
    <3> QED BY <1>9, <2>3, <3>1, <3>2
  <2>5. CASE Register(r) \/ Unregister(r)
    BY <1>11, <2>3, <2>5 DEF Register, Unregister, ghosts
  <2> QED BY <1>26, <2>4, <2>5
<1>27. ASSUME NEW r \in Runner, NEW i \in Id, RunManually(r, i) \/ SchedulerStarts(r, i)
       PROVE  Goal
  <2>1. Spawn(r, i)
    BY <1>27 DEF RunManually, SchedulerStarts
  <2>2. run[r].pc = "unused" /\ run'[r].pc = "spawned" /\ \A q \in Runner : q # r => run'[q] = run[q]
    BY <1>3, <2>1 DEF Spawn, RunType
  <2>3. Still
    BY <2>2 DEF Counted, Still
  <2> QED BY <1>11, <1>27, <2>3 DEF RunManually, SchedulerStarts, server, ghosts
<1>28. ASSUME NEW p \in Putter, NEW i \in Id, ReadForPut(p, i) PROVE Goal
  BY <1>6, <1>11, <1>28 DEF ReadForPut, server, ghosts
<1>29. ASSUME NEW r \in Runner, IntervalElapses(r) PROVE Goal
  BY <1>6, <1>11, <1>29 DEF IntervalElapses, server, ghosts
<1>30. ASSUME Crash PROVE Goal
  <2>1. /\ up /\ ~up' /\ db' = db
        /\ clobbered' = clobbered \cup {run[r].id : r \in {r \in Runner : Working(r)}}
                                  \cup (IF saved THEN {} ELSE Id)
    BY <1>30 DEF Crash
  <2>2. \A i \in Id : ~Exists(i)'
    BY <1>30 DEF Crash, Exists, Absent
  <2>3. ASSUME NEW i \in Id \ clobbered', db.tasks[i].state # "absent"
        PROVE  Adds(db.tasks[i], {})
    <3>1. saved /\ i \in Id \ clobbered /\ \A r \in Runner : Working(r) => run[r].id # i
      BY <2>1, <2>3
    <3>2. db.tasks[i] = tasks[i]
      BY <1>1, <2>1, <3>1 DEF FileMatchesMemory
    <3>3. Open(i) = {}
      BY <3>1 DEF Open, Counted, Working
    <3> QED BY <1>1, <2>3, <3>1, <3>2, <3>3 DEF UpAdds, Exists
  <2> QED BY <2>1, <2>2, <2>3 DEF UpAdds, DownAdds
<1>31. ASSUME Restart PROVE Goal
  <2>1. ~up /\ up' /\ tasks' = db.tasks /\ run' = run /\ clobbered' = clobbered
    BY <1>31 DEF Restart
  <2>2. \A i \in Id : Open(i)' = {}
    BY <1>2, <2>1 DEF Base, DownInv, Open, Counted
  <2>3. ASSUME NEW i \in Id \ clobbered', Exists(i)' PROVE Adds(tasks'[i], Open(i)')
    BY <1>1, <2>1, <2>2, <2>3 DEF DownAdds, Exists
  <2>4. UpAdds'
    BY <2>3 DEF UpAdds, Adds
  <2> QED BY <2>1, <2>4 DEF DownAdds
<1>32. CASE UNCHANGED vars
  BY <1>6, <1>11, <1>32 DEF vars, server, ghosts
<1> QED
  BY <1>20, <1>21, <1>22, <1>23, <1>24, <1>25, <1>26, <1>27, <1>28, <1>29, <1>30, <1>31, <1>32
  DEF Next, RunStep

LEMMA StatusInvariant == Recreate = FALSE => (Spec => []StatusInv)
<1> SUFFICES ASSUME Recreate = FALSE PROVE Spec => []StatusInv
  OBVIOUS
<1>1. StatusInv /\ [Next]_vars => (UpAdds /\ DownAdds)'
  BY StatusNext
<1>2. LockInv /\ [Next]_vars => LockInv'
  BY LockNext
<1>3. StatusInv <=> LockInv /\ FileMatchesMemory /\ UpAdds /\ DownAdds
  BY DEF StatusInv
<1> QED BY <1>1, <1>2, <1>3, StatusInit, StoreInvariant, PTL DEF Spec, StoreInv

\* When no id is used again, the counters of a task are its runs, also across
\* crashes, failed saves and requests that leave its status alone.
THEOREM StatusIsConsistent == Recreate = FALSE => (Spec => []StatusAddsUp)
  BY StatusInvariant, UpAddsIsStatusAddsUp, PTL DEF StatusInv
=============================================================================
