-------------------------- MODULE TaskSchedule_proofs --------------------------
(* Theorems about TaskSchedule, for every range of the cron fields, every     *)
(* schedule and every length of a minute.                                     *)
EXTENDS TaskSchedule, TLAPS

(***************************************************************************)
(* Arithmetic of minutes and steps                                         *)
(***************************************************************************)

LEMMA DivMonotone ==
  ASSUME NEW a \in Int, NEW b \in Int, NEW k \in Nat \ {0}, a <= b
  PROVE  a \div k <= b \div k
  OBVIOUS

LEMMA DivNat ==
  ASSUME NEW a \in Nat, NEW k \in Nat \ {0}
  PROVE  a \div k \in Nat /\ a % k \in 0 .. k - 1
<1>1. a \div k \in Int /\ 0 \div k <= a \div k
  BY DivMonotone
<1>2. 0 \div k = 0
  OBVIOUS
<1>3. a % k \in Int /\ a % k >= 0 /\ a % k < k
  OBVIOUS
<1> QED BY <1>1, <1>2, <1>3

\* A multiple of the step that lies in a span is reached by counting steps.
LEMMA ExactSteps ==
  ASSUME NEW d \in Nat, NEW n \in Nat, NEW k \in Nat \ {0}, d <= n, d % k = 0
  PROVE  /\ d \div k \in 0 .. n \div k
         /\ d = (d \div k) * k
<1>1. d \div k \in Nat /\ n \div k \in Nat /\ d \div k <= n \div k
  BY DivNat, DivMonotone
<1>2. d = k * (d \div k)
  OBVIOUS
<1>3. k * (d \div k) = (d \div k) * k
  BY <1>1
<1> QED BY <1>1, <1>2, <1>3

(***************************************************************************)
(* The parser accepts every value an expression means                      *)
(***************************************************************************)

LEMMA ItemParsed ==
  ASSUME NEW item \in CronItem, NEW limits, limits[1] \in Nat, limits[2] \in Nat,
         NEW v \in limits[1] .. limits[2],
         ItemMeans(item, limits, v), ParseItem(item, limits) # {}
  PROVE  v \in ParseItem(item, limits)
<1> DEFINE span == Span(item, limits)
           step == IF item.slashes = 1 THEN item.step ELSE 1
<1>1. /\ ~BadItem(item) /\ limits[1] <= span[1] /\ span[2] <= limits[2] /\ span[1] <= span[2]
      /\ ParseItem(item, limits) = Stepped(span, step)
  <2>1. ~(BadItem(item) \/ span[1] < limits[1] \/ span[2] > limits[2] \/ span[1] > span[2])
    BY DEF ParseItem
  <2>2. ParseItem(item, limits) = Stepped(span, step)
    BY <2>1 DEF ParseItem
  <2>3. span[1] \in Int /\ span[2] \in Int
    BY DEF Span, CronItem
  <2> QED BY <2>1, <2>2, <2>3
<1>2. /\ item.base \in {"star", "value", "range"}
      /\ step \in Nat \ {0}
  BY <1>1 DEF BadItem, CronItem
<1>3. span[1] \in Int /\ span[2] \in Int /\ span[1] <= v /\ v <= span[2]
  <2>1. CASE item.base = "star"
    BY <2>1 DEF Span
  <2>2. CASE item.base = "value"
    BY <2>2 DEF Span, ItemMeans, CronItem
  <2>3. CASE item.base = "range"
    BY <2>3 DEF Span, ItemMeans, CronItem
  <2> QED BY <1>2, <2>1, <2>2, <2>3
<1>4. (v - span[1]) % step = 0
  <2>1. CASE item.slashes = 1
    <3>1. span[1] = (IF item.base = "star" THEN limits[1] ELSE item.from)
      BY <1>2 DEF Span
    <3> QED BY <2>1, <3>1 DEF ItemMeans
  <2>2. CASE item.slashes # 1
    <3>1. step = 1 /\ v - span[1] \in Int
      BY <1>3, <2>2
    <3>2. (v - span[1]) % 1 = 0
      BY <3>1
    <3> QED BY <3>1, <3>2
  <2> QED BY <2>1, <2>2
<1> HIDE DEF span, step
<1>5. /\ (v - span[1]) \div step \in 0 .. (span[2] - span[1]) \div step
      /\ v - span[1] = ((v - span[1]) \div step) * step
  <2>1. v - span[1] \in Nat /\ span[2] - span[1] \in Nat /\ v - span[1] <= span[2] - span[1]
    BY <1>3
  <2> QED BY <1>2, <1>4, <2>1, ExactSteps
<1>6. v = span[1] + ((v - span[1]) \div step) * step
  <2>1. PICK q \in Int : q = (v - span[1]) \div step
    BY <1>5
  <2>2. q * step \in Int /\ v - span[1] = q * step
    BY <1>2, <1>5, <2>1
  <2> QED BY <1>3, <2>1, <2>2
<1> QED BY <1>1, <1>5, <1>6 DEF Stepped

\* Counting steps stays inside the span and on its multiples.
LEMMA StepsInSpan ==
  ASSUME NEW n \in Nat, NEW k \in Nat \ {0}, NEW m \in 0 .. n \div k
  PROVE  m * k \in 0 .. n /\ (m * k) % k = 0
<1>1. n \div k \in Nat /\ k * (n \div k) <= n
  BY DivNat
<1>2. m \in Nat /\ k * m <= k * (n \div k)
  BY <1>1
<1>3. m * k = k * m /\ m * k \in Nat /\ m * k <= n
  BY <1>1, <1>2
<1>4. m = (m * k) \div k
  BY <1>2, <1>3
<1>5. (m * k) % k = m * k - k * ((m * k) \div k)
  BY <1>3
<1> QED BY <1>2, <1>3, <1>4, <1>5

LEMMA ItemSound ==
  ASSUME NEW item \in CronItem, NEW limits, limits[1] \in Nat, limits[2] \in Nat,
         NEW v \in ParseItem(item, limits)
  PROVE  ItemMeans(item, limits, v)
<1> DEFINE span == Span(item, limits)
           step == IF item.slashes = 1 THEN item.step ELSE 1
<1>1. /\ ~BadItem(item) /\ ~(span[1] > span[2])
      /\ ParseItem(item, limits) = Stepped(span, step)
  BY DEF ParseItem
<1>2. /\ item.base \in {"star", "value", "range"}
      /\ step \in Nat \ {0}
  BY <1>1 DEF BadItem, CronItem
<1>3. span[1] \in Int /\ span[2] \in Int /\ span[2] - span[1] \in Nat
  BY <1>1 DEF Span, CronItem
<1>4. span[1] = IF item.base = "star" THEN limits[1] ELSE item.from
  BY <1>2 DEF Span
<1>5. PICK m \in 0 .. (span[2] - span[1]) \div step : v = span[1] + m * step
  BY <1>1 DEF Stepped
<1>6. m * step \in 0 .. span[2] - span[1] /\ (m * step) % step = 0
  <2> HIDE DEF span, step
  <2>1. PICK n \in Nat : n = span[2] - span[1]
    BY <1>3
  <2>2. m \in 0 .. n \div step
    BY <1>5, <2>1
  <2> QED BY <1>2, <2>1, <2>2, StepsInSpan
<1>7. PICK d \in Nat : d = m * step
  BY <1>3, <1>6
<1>8. v - span[1] = d /\ d % step = 0 /\ d <= span[2] - span[1] /\ v \in Int
  <2> HIDE DEF span, step
  <2> QED BY <1>3, <1>5, <1>6, <1>7
<1>9. item.slashes = 1 => (v - (IF item.base = "star" THEN limits[1] ELSE item.from)) % item.step = 0
  <2> SUFFICES ASSUME item.slashes = 1
               PROVE  (v - (IF item.base = "star" THEN limits[1] ELSE item.from)) % item.step = 0
    OBVIOUS
  <2>1. step = item.step
    OBVIOUS
  <2> QED BY <1>4, <1>8, <2>1
<1>10. item.base = "value" => v = item.from
  <2>1. item.base = "value" => span[2] = span[1] /\ span[1] = item.from
    BY DEF Span
  <2> HIDE DEF span
  <2> QED BY <1>3, <1>8, <2>1
<1>11. item.base = "range" => item.from <= v /\ v <= item.to
  <2>1. item.base = "range" => span[2] = item.to /\ span[1] = item.from
    BY DEF Span
  <2> HIDE DEF span
  <2> QED BY <1>3, <1>8, <2>1
<1> QED BY <1>9, <1>10, <1>11 DEF ItemMeans

LEMMA ClockInLimits ==
  ASSUME NEW t \in Nat, NEW i \in 1 .. 5
  PROVE  Clock(t)[i] \in Limits[i][1] .. Limits[i][2]
<1>1. \A j \in 1 .. 5 : /\ Limits[j][1] \in Nat /\ Limits[j][2] \in Nat
                        /\ Size(j) \in Nat \ {0} /\ Limits[j][1] + Size(j) - 1 = Limits[j][2]
  BY ScheduleAssumption DEF Size
<1> DEFINE hour == Minute(t) \div Size(1)
           day  == hour \div Size(2)
           count == <<Minute(t), hour, day, day \div Size(3), day>>
<1>2. Minute(t) \in Nat
  BY DivNat, ScheduleAssumption DEF Minute
<1>3. Size(1) \in Nat \ {0} /\ Size(2) \in Nat \ {0} /\ Size(3) \in Nat \ {0}
  BY <1>1
<1>4. hour \in Nat
  BY <1>2, <1>3, DivNat
<1> HIDE DEF hour
<1>5. day \in Nat
  BY <1>3, <1>4, DivNat
<1> HIDE DEF day
<1>6. day \div Size(3) \in Nat
  BY <1>3, <1>5, DivNat
<1>7. count[i] \in Nat
  BY <1>2, <1>4, <1>5, <1>6
<1>8. count[i] % Size(i) \in 0 .. Size(i) - 1
  BY <1>1, <1>7, DivNat
<1>9. Clock(t)[i] = Limits[i][1] + (count[i] % Size(i))
  BY DEF Clock, hour, day
<1> HIDE DEF count
<1> QED BY <1>1, <1>8, <1>9

\* The clock shows nothing finer than the minute.
LEMMA ClockOfMinute ==
  ASSUME NEW t, NEW u, Minute(t) = Minute(u)
  PROVE  Clock(t) = Clock(u)
  BY DEF Clock

LEMMA MeansMatches ==
  ASSUME NEW cron \in Seq(Seq(CronItem)), NEW t \in Nat,
         ParseCron(cron) # <<>>, CronMeans(cron, Clock(t))
  PROVE  CronMatches(cron, Clock(t))
<1> DEFINE fields == [i \in 1 .. 5 |-> ParseCronField(cron[i], Limits[i])]
<1>1. Len(cron) = 5 /\ ParseCron(cron) = fields /\ \A i \in 1 .. 5 : fields[i] # {}
  BY DEF ParseCron
<1>2. ASSUME NEW i \in 1 .. 5 PROVE Clock(t)[i] \in fields[i]
  <2> DEFINE values == {ParseItem(cron[i][k], Limits[i]) : k \in DOMAIN cron[i]}
  <2>1. fields[i] = UNION values /\ {} \notin values
    BY <1>1, <1>2 DEF ParseCronField
  <2>2. PICK k \in DOMAIN cron[i] : ItemMeans(cron[i][k], Limits[i], Clock(t)[i])
    BY DEF CronMeans
  <2>3. cron[i][k] \in CronItem
    <3>1. cron[i] \in Seq(CronItem)
      <4>1. \A j \in 1 .. Len(cron) : cron[j] \in Seq(CronItem)
        OBVIOUS
      <4> QED BY <1>1, <4>1
    <3> QED BY <2>2, <3>1
  <2>4. ParseItem(cron[i][k], Limits[i]) # {}
    BY <2>1
  <2>5. Clock(t)[i] \in ParseItem(cron[i][k], Limits[i])
    BY <2>2, <2>3, <2>4, ClockInLimits, ItemParsed, ScheduleAssumption
  <2> QED BY <2>1, <2>5
<1> HIDE DEF fields
<1> QED BY <1>1, <1>2 DEF CronMatches

LEMMA MatchesMeans ==
  ASSUME NEW cron \in Seq(Seq(CronItem)), NEW t \in Nat, CronMatches(cron, Clock(t))
  PROVE  CronMeans(cron, Clock(t))
<1> DEFINE fields == [i \in 1 .. 5 |-> ParseCronField(cron[i], Limits[i])]
<1>1. Len(cron) = 5 /\ ParseCron(cron) = fields
  BY DEF ParseCron, CronMatches
<1>2. ASSUME NEW i \in 1 .. 5
      PROVE  \E k \in DOMAIN cron[i] : ItemMeans(cron[i][k], Limits[i], Clock(t)[i])
  <2>1. Clock(t)[i] \in ParseCronField(cron[i], Limits[i])
    BY <1>1 DEF CronMatches
  <2>2. PICK k \in DOMAIN cron[i] : Clock(t)[i] \in ParseItem(cron[i][k], Limits[i])
    BY <2>1 DEF ParseCronField
  <2>3. cron[i][k] \in CronItem
    <3>1. cron[i] \in Seq(CronItem)
      <4>1. \A j \in 1 .. Len(cron) : cron[j] \in Seq(CronItem)
        OBVIOUS
      <4> QED BY <1>1, <4>1
    <3> QED BY <2>2, <3>1
  <2> QED BY <2>2, <2>3, ItemSound, ScheduleAssumption
<1> QED BY <1>2 DEF CronMeans

\* An expression that parseCron accepts matches exactly the minutes it means,
\* item by item: no value is lost or added by spans, steps and lists.
THEOREM CronIsExact ==
  ASSUME NEW cron \in Seq(Seq(CronItem)), NEW t \in Nat, ParseCron(cron) # <<>>
  PROVE  CronMatches(cron, Clock(t)) <=> CronMeans(cron, Clock(t))
  BY MeansMatches, MatchesMeans

(***************************************************************************)
(* What a run leaves on the clock                                          *)
(***************************************************************************)

TaskType == [schedule : Schedule, enabled : BOOLEAN, last : Nat \cup {Never}]

\* LastRunAt is the beginning of the last run until its stamp is lost, and a
\* server that is down has nothing on its way.
ClockInv ==
  /\ now \in Nat
  /\ task \in TaskType
  /\ saved \in TaskType
  /\ polled \in Nat /\ polled <= now
  /\ since \in Nat /\ since <= now
  /\ pending \subseteq [at : Nat, fresh : BOOLEAN]
  /\ put \in [last : Nat \cup {Never}, at : Nat \cup {Never}]
  /\ begun \in Nat \cup {Never}
  /\ begun # Never => begun <= now /\ task.last = begun
  /\ ~up => pending = {} /\ polled = NoTick /\ ~chance

LEMMA ClockInit == Init => ClockInv
<1> SUFFICES ASSUME Init PROVE ClockInv
  OBVIOUS
<1>1. task \in TaskType /\ saved \in TaskType
  BY ScheduleAssumption DEF Init, TaskType
<1>2. put \in [last : Nat \cup {Never}, at : Nat \cup {Never}]
  BY DEF Init, NoPut
<1> QED BY <1>1, <1>2 DEF Init, ClockInv, NoTick

LEMMA SavedType ==
  ASSUME ClockInv, Save, task' \in TaskType
  PROVE  saved' \in TaskType
  BY DEF ClockInv, Save

LEMMA NoneFresh ==
  ASSUME ClockInv
  PROVE  /\ Overtaken \subseteq [at : Nat, fresh : BOOLEAN]
         /\ \A g \in Overtaken : ~g.fresh
<1> SUFFICES ASSUME NEW h \in pending
             PROVE  /\ [h EXCEPT !.fresh = FALSE] \in [at : Nat, fresh : BOOLEAN]
                    /\ ~[h EXCEPT !.fresh = FALSE].fresh
  BY DEF Overtaken
<1> QED BY DEF ClockInv

LEMMA ClockNext == ClockInv /\ [Next]_vars => ClockInv'
<1> SUFFICES ASSUME ClockInv, [Next]_vars PROVE ClockInv'
  OBVIOUS
<1>1. CASE Tick
  <2>1. /\ now' = now + 1 /\ polled' = (IF up /\ polled = NoTick THEN now + 1 ELSE polled)
        /\ chance' => chance
        /\ UNCHANGED <<up, task, saved, pending, since, put, begun>>
    BY <1>1 DEF Tick
  <2>2. now \in Nat /\ now + 1 \in Nat /\ now <= now + 1
    BY DEF ClockInv
  <2>3. polled' \in Nat /\ polled' <= now'
    BY <2>1, <2>2 DEF ClockInv
  <2>4. since' <= now' /\ (begun # Never => begun <= now')
    BY <2>1, <2>2 DEF ClockInv
  <2> QED BY <2>1, <2>2, <2>3, <2>4 DEF ClockInv
<1>2. CASE Poll
  <2>1. up /\ polled' = NoTick /\ pending' \subseteq [at : Nat, fresh : BOOLEAN]
    <3>1. (begun <= polled) \in BOOLEAN
      OBVIOUS
    <3>2. [at |-> polled, fresh |-> begun <= polled] \in [at : Nat, fresh : BOOLEAN]
      BY <3>1 DEF ClockInv
    <3>3. up /\ polled' = NoTick
      BY <1>2 DEF Poll, ClockInv
    <3>4. \A g \in pending' : g \in pending \/ g = [at |-> polled, fresh |-> begun <= polled]
      BY <1>2 DEF Poll
    <3> QED BY <3>2, <3>3, <3>4 DEF ClockInv
  <2> QED BY <1>2, <2>1 DEF Poll, ClockInv, NoTick
<1>3. CASE Register
  <2>1. pending' \subseteq pending /\ since' \in {since, now} /\ UNCHANGED <<now, up, task, saved, polled, put, begun, chance>>
    BY <1>3 DEF Register
  <2> QED BY <2>1 DEF ClockInv
<1>4. CASE Begin
  <2>1. PICK started \in since..now : task' = [task EXCEPT !.last = started] /\ begun' = started
    BY <1>4 DEF Begin
  <2>2. started \in Nat /\ started <= now
    BY DEF ClockInv
  <2>3. task' \in TaskType /\ task'.last = started
    BY <2>1, <2>2 DEF TaskType, ClockInv
  <2>4. saved' \in TaskType
    BY <1>4, <2>3, SavedType DEF Begin
  <2>5. pending' \subseteq [at : Nat, fresh : BOOLEAN]
    BY <1>4, NoneFresh DEF Begin
  <2>6. ~up => pending' = {}
    BY <1>4 DEF Begin, Overtaken, ClockInv
  <2>7. since' = 0 /\ UNCHANGED <<now, up, polled, put, chance>>
    BY <1>4 DEF Begin
  <2> QED BY <2>1, <2>2, <2>3, <2>4, <2>5, <2>6, <2>7 DEF ClockInv
<1>5. CASE Finish
  <2>1. saved' \in TaskType
    BY <1>5, SavedType DEF Finish, ClockInv
  <2> QED BY <1>5, <2>1 DEF Finish, ClockInv
<1>6. CASE RunManually
  BY <1>6 DEF RunManually, ClockInv
<1>7. CASE ReadForPut
  <2>1. put' \in [last : Nat \cup {Never}, at : Nat \cup {Never}]
    BY <1>7 DEF ReadForPut, ClockInv, TaskType
  <2> QED BY <1>7, <2>1 DEF ReadForPut, ClockInv
<1>8. CASE Crash
  <2>1. put' \in [last : Nat \cup {Never}, at : Nat \cup {Never}]
    BY <1>8 DEF Crash, NoPut
  <2> QED BY <1>8, <2>1 DEF Crash, ClockInv, NoTick
<1>9. CASE Restart
  BY <1>9 DEF Restart, ClockInv
<1>10. ASSUME NEW b \in BOOLEAN, SetEnabled(b) PROVE ClockInv'
  <2>1. task' \in TaskType /\ task'.last = task.last
    BY <1>10 DEF SetEnabled, ClockInv, TaskType
  <2>2. saved' \in TaskType
    BY <1>10, <2>1, SavedType DEF SetEnabled
  <2> QED BY <1>10, <2>1, <2>2 DEF SetEnabled, ClockInv
<1>11. ASSUME NEW s \in Requested, NEW b \in BOOLEAN, PutTask(s, b) PROVE ClockInv'
  <2>1. put' \in [last : Nat \cup {Never}, at : Nat \cup {Never}]
    BY <1>11 DEF PutTask, NoPut
  <2>2. CASE UNCHANGED <<task, saved, failed, pending, begun, chance>>
    BY <1>11, <2>1, <2>2 DEF PutTask, ClockInv
  <2>3. CASE /\ task' = [schedule |-> s, enabled |-> b, last |-> put.last]
             /\ begun' = (IF put.last = task.last THEN begun ELSE Never)
             /\ Save
             /\ pending' = Overtaken
             /\ chance' = FALSE
    <3>1. task' \in TaskType /\ task'.last = put.last
      BY <2>3, ScheduleAssumption DEF ClockInv, TaskType
    <3>2. saved' \in TaskType
      BY <2>3, <3>1, SavedType
    <3>3. pending' \subseteq [at : Nat, fresh : BOOLEAN]
      BY <2>3, NoneFresh
    <3>4. ~up => pending' = {}
      BY <2>3 DEF Overtaken, ClockInv
    <3> QED BY <1>11, <2>1, <2>3, <3>1, <3>2, <3>3, <3>4 DEF PutTask, ClockInv
  <2> QED BY <1>11, <2>2, <2>3 DEF PutTask
<1>12. CASE UNCHANGED vars
  BY <1>12 DEF vars, ClockInv
<1> QED BY <1>1, <1>2, <1>3, <1>4, <1>5, <1>6, <1>7, <1>8, <1>9, <1>10, <1>11, <1>12 DEF Next

(***************************************************************************)
(* No run of the scheduler is early                                        *)
(***************************************************************************)

\* A goroutine that no run has overtaken was right to be started, and time does
\* not make it wrong.
RipeInv == \A g \in pending : g.fresh => Ripe(begun)

LEMMA MinuteMonotone ==
  ASSUME NEW t \in Nat, NEW u \in Nat, t <= u
  PROVE  Minute(t) \in Nat /\ Minute(u) \in Nat /\ Minute(t) <= Minute(u)
<1>1. TicksPerMinute \in Nat \ {0}
  BY ScheduleAssumption
<1>2. t \div TicksPerMinute \in Nat /\ u \div TicksPerMinute \in Nat
  BY <1>1, DivNat
<1>3. t \div TicksPerMinute <= u \div TicksPerMinute
  BY <1>1, DivMonotone
<1> QED BY <1>2, <1>3 DEF Minute


\* A minute or an interval that is over stays over.
LEMMA RipeLater ==
  ASSUME NEW s \in Schedule, NEW c \in Nat, NEW t \in Nat, NEW u \in Nat, c <= t, t <= u
  PROVE  /\ MinInterval <= s.interval /\ t - c >= s.interval => u - c >= s.interval
         /\ Minute(c) # Minute(t) => Minute(c) # Minute(u)
<1>1. s.interval \in Int
  BY DEF Schedule
<1>2. Minute(c) \in Nat /\ Minute(t) \in Nat /\ Minute(u) \in Nat
      /\ Minute(c) <= Minute(t) /\ Minute(t) <= Minute(u)
  BY MinuteMonotone
<1> QED BY <1>1, <1>2

LEMMA RipeNext == ClockInv /\ RipeInv /\ [Next]_vars => RipeInv'
<1> SUFFICES ASSUME ClockInv, RipeInv, [Next]_vars PROVE RipeInv'
  OBVIOUS
<1>1. /\ now \in Nat /\ begun \in Nat \cup {Never}
      /\ task.schedule \in Schedule /\ task.schedule.interval \in Int
      /\ begun # Never => begun <= now /\ task.last = begun
      /\ MinInterval \in Nat
  BY ScheduleAssumption DEF ClockInv, TaskType, Schedule
<1>2. CASE Tick
  <2>1. now' = now + 1 /\ now + 1 \in Nat /\ UNCHANGED <<begun, task, pending>>
    BY <1>1, <1>2 DEF Tick
  <2> SUFFICES ASSUME NEW g \in pending, g.fresh, begun # Never PROVE Ripe(begun)'
    BY <2>1 DEF RipeInv, Ripe
  <2>2. PICK c \in Nat : c = begun
    BY <1>1
  <2>3. Ripe(c)
    BY <2>2 DEF RipeInv
  <2>4. c <= now /\ c # Never /\ now <= now + 1
    BY <1>1, <2>2
  <2>5. CASE task.schedule.interval > 0
    <3>1. MinInterval <= task.schedule.interval /\ now - c >= task.schedule.interval
      BY <1>1, <2>3, <2>4, <2>5 DEF Ripe
    <3>2. (now + 1) - c >= task.schedule.interval
      BY <1>1, <2>1, <2>4, <3>1, RipeLater
    <3> QED BY <2>1, <2>2, <2>5, <3>1, <3>2 DEF Ripe
  <2>6. CASE task.schedule.interval <= 0
    <3>1. Minute(c) # Minute(now)
      BY <1>1, <2>3, <2>4, <2>6 DEF Ripe
    <3>2. Minute(c) # Minute(now + 1)
      BY <1>1, <2>1, <2>4, <3>1, RipeLater
    <3>3. Minute(now') = Minute(now + 1)
      BY <2>1
    <3> QED BY <2>1, <2>2, <2>6, <3>2, <3>3 DEF Ripe
  <2> QED BY <1>1, <2>5, <2>6
<1>3. CASE Poll
  <2>1. UNCHANGED <<now, begun, task>>
    BY <1>3 DEF Poll
  <2> SUFFICES ASSUME NEW g \in pending', g.fresh, begun # Never PROVE Ripe(begun)
    BY <2>1 DEF RipeInv, Ripe
  <2>2. CASE g \in pending
    BY <2>2 DEF RipeInv
  <2>3. CASE g \notin pending
    <3>1. g = [at |-> polled, fresh |-> begun <= polled] /\ TaskDue(task, polled)
      BY <1>3, <2>3 DEF Poll
    <3>2. g.fresh = (begun <= polled)
      BY <3>1, Zenon
    <3>3. begun <= polled
      BY <3>2
    <3>4. PICK c \in Nat : c = begun
      BY <1>1
    <3>5. PICK p \in Nat : p = polled /\ p <= now
      BY DEF ClockInv
    <3>6. c <= p /\ task.last = c /\ c # Never /\ TaskDue(task, p)
      BY <1>1, <3>1, <3>3, <3>4, <3>5
    <3>7. CASE task.schedule.interval > 0
      <4>1. MinInterval <= task.schedule.interval /\ p - c >= task.schedule.interval
        BY <1>1, <3>6, <3>7 DEF TaskDue
      <4>2. now - c >= task.schedule.interval
        BY <1>1, <3>5, <3>6, <4>1, RipeLater
      <4> QED BY <1>1, <3>4, <3>7, <4>1, <4>2 DEF Ripe
    <3>8. CASE task.schedule.interval <= 0
      <4>1. Minute(c) # Minute(p)
        BY <1>1, <3>6, <3>8 DEF TaskDue
      <4>2. Minute(c) # Minute(now)
        BY <1>1, <3>5, <3>6, <4>1, RipeLater
      <4> QED BY <3>4, <3>8, <4>2 DEF Ripe
    <3> QED BY <1>1, <3>7, <3>8
  <2> QED BY <2>2, <2>3
<1>4. CASE Register
  BY <1>4 DEF Register, RipeInv, Ripe
<1>5. CASE Begin
  BY <1>5, NoneFresh DEF Begin, RipeInv
<1>6. CASE Finish
  BY <1>6 DEF Finish, RipeInv, Ripe
<1>7. CASE RunManually \/ ReadForPut
  BY <1>7 DEF RunManually, ReadForPut, RipeInv, Ripe
<1>8. CASE Crash
  BY <1>8 DEF Crash, RipeInv
<1>9. CASE Restart
  BY <1>9 DEF Restart, RipeInv, ClockInv
<1>10. ASSUME NEW b \in BOOLEAN, SetEnabled(b) PROVE RipeInv'
  <2>1. task'.schedule = task.schedule
    BY <1>10 DEF SetEnabled, ClockInv, TaskType
  <2> QED BY <1>10, <2>1 DEF SetEnabled, RipeInv, Ripe
<1>11. ASSUME NEW s \in Requested, NEW b \in BOOLEAN, PutTask(s, b) PROVE RipeInv'
  <2>1. CASE pending' = Overtaken
    BY <2>1, NoneFresh DEF RipeInv
  <2>2. CASE UNCHANGED <<task, saved, failed, pending, begun, chance>>
    BY <1>11, <2>2 DEF PutTask, RipeInv, Ripe
  <2> QED BY <1>11, <2>1, <2>2 DEF PutTask
<1>12. CASE UNCHANGED vars
  BY <1>12 DEF vars, RipeInv, Ripe
<1> QED BY <1>2, <1>3, <1>4, <1>5, <1>6, <1>7, <1>8, <1>9, <1>10, <1>11, <1>12 DEF Next

\* A scheduled goroutine that no run or PUT overtook, started by a tick no older
\* than the last run, does not repeat that run in its minute or interval unless
\* the run's stamp is lost: for every schedule, delay, PUT, failed save and crash.
THEOREM NoRunIsEarly == Spec => NoEarlyRun
<1> DEFINE Step == \A g \in pending : pending' = pending \ {g} /\ up' /\ running = "none"
                                        /\ g.fresh => Ripe(begun)
<1>1. Init => ClockInv /\ RipeInv
  BY ClockInit DEF Init, RipeInv
<1>2. ClockInv /\ RipeInv /\ [Next]_vars => ClockInv' /\ RipeInv'
  BY ClockNext, RipeNext
<1>3. RipeInv => [Step]_vars
  BY DEF RipeInv
<1> QED BY <1>1, <1>2, <1>3, PTL DEF Spec, NoEarlyRun

(***************************************************************************)
(* Every matching minute has its run                                       *)
(***************************************************************************)

RanThisMinute == task.last # Never /\ Minute(task.last) = Minute(now)
OnItsWay      == pending # {} \/ manual \/ running # "none"

\* The schedule is a valid cron expression that means the present minute.
MinuteMeant == /\ task.schedule.cron # Blank
               /\ ValidTask(task.schedule)
               /\ CronMeans(task.schedule.cron, Clock(now))

\* Once a poll of this minute found the task enabled and idle, the run is owed
\* from then on; a run that registered since did so in this minute, and one
\* that has begun since has paid it.
ChanceInv ==
  /\ chance /\ MinuteMeant => RanThisMinute \/ OnItsWay
  /\ chance /\ running = "registered" => Minute(since) = Minute(now)
  /\ chance /\ running = "begun" => RanThisMinute

LEMMA ChanceNext == ClockInv /\ ChanceInv /\ [Next]_vars => ChanceInv'
<1> SUFFICES ASSUME ClockInv, ChanceInv, [Next]_vars PROVE ChanceInv'
  OBVIOUS
<1>1. /\ now \in Nat /\ task.schedule \in Schedule /\ task.schedule.interval \in Int
      /\ task.schedule.cron \in Seq(Seq(CronItem))
      /\ MinInterval \in Nat
  BY ScheduleAssumption DEF ClockInv, TaskType, Schedule
<1>2. CASE Tick
  <2> SUFFICES ASSUME chance' PROVE ChanceInv'
    BY DEF ChanceInv
  <2>1. chance /\ now' = now + 1 /\ Minute(now + 1) = Minute(now)
        /\ UNCHANGED <<up, task, pending, manual, running, since>>
    BY <1>2 DEF Tick
  <2>2. Minute(now') = Minute(now) /\ Clock(now') = Clock(now)
    BY <2>1, ClockOfMinute
  <2>3. MinuteMeant' => MinuteMeant
    BY <2>1, <2>2 DEF MinuteMeant
  <2>4. RanThisMinute => RanThisMinute'
    BY <2>1, <2>2 DEF RanThisMinute
  <2>5. OnItsWay => OnItsWay'
    BY <2>1 DEF OnItsWay
  <2>6. Minute(since)' = Minute(since)
    BY <2>1 DEF Minute
  <2>7. Minute(now)' = Minute(now)
    BY <2>2 DEF Minute
  <2> QED BY <2>1, <2>3, <2>4, <2>5, <2>6, <2>7 DEF ChanceInv
<1>3. CASE Poll
  <2>1. UNCHANGED <<now, task, manual, running, since>> /\ pending \subseteq pending'
    BY <1>3 DEF Poll
  <2>2. CASE chance
    BY <2>1, <2>2 DEF ChanceInv, MinuteMeant, RanThisMinute, OnItsWay
  <2>3. CASE chance' /\ ~chance
    <3>1. Minute(polled) = Minute(now) /\ task.enabled /\ running = "none" /\ pending = {}
      BY <1>3, <2>3 DEF Poll
    <3>2. CASE TaskDue(task, polled)
      <4>1. [at |-> polled, fresh |-> begun <= polled] \in pending'
        BY <1>3, <3>1, <3>2 DEF Poll
      <4> QED BY <2>1, <3>1, <4>1 DEF ChanceInv, OnItsWay
    <3>3. CASE ~TaskDue(task, polled)
      <4>1. ASSUME MinuteMeant PROVE RanThisMinute
        <5>1. /\ task.schedule.cron # Blank /\ ValidTask(task.schedule)
              /\ CronMeans(task.schedule.cron, Clock(now))
          BY <4>1 DEF MinuteMeant
        <5>2. ~(task.schedule.interval > 0) /\ ParseCron(task.schedule.cron) # <<>>
          BY <5>1 DEF ValidTask
        <5>3. CronMatches(task.schedule.cron, Clock(polled))
          <6>1. CronMatches(task.schedule.cron, Clock(now))
            BY <1>1, <5>1, <5>2, MeansMatches
          <6>2. Clock(polled) = Clock(now)
            BY <3>1, ClockOfMinute
          <6> QED BY <6>1, <6>2
        <5>4. task.last # Never /\ Minute(task.last) = Minute(polled)
          BY <3>3, <5>1, <5>2, <5>3 DEF TaskDue
        <5> QED BY <3>1, <5>4 DEF RanThisMinute
      <4> QED BY <2>1, <3>1, <4>1 DEF ChanceInv, MinuteMeant, RanThisMinute
    <3> QED BY <3>2, <3>3
  <2>4. CASE ~chance'
    BY <2>4 DEF ChanceInv
  <2> QED BY <2>2, <2>3, <2>4
<1>4. CASE Register
  <2>1. UNCHANGED <<now, task, chance>> /\ running' = (IF running = "none" THEN "registered" ELSE running)
        /\ since' = (IF running = "none" THEN now ELSE since)
    BY <1>4 DEF Register
  <2>2. OnItsWay'
    BY <2>1 DEF OnItsWay
  <2>3. running' = "begun" => running = "begun"
    BY <2>1
  <2>4. chance' /\ running' = "registered" => Minute(since') = Minute(now')
    BY <2>1 DEF ChanceInv
  <2> QED BY <2>1, <2>2, <2>3, <2>4 DEF ChanceInv, RanThisMinute, Minute
<1>5. CASE Begin
  <2>1. PICK started \in since..now : task' = [task EXCEPT !.last = started]
    BY <1>5 DEF Begin
  <2>2. started \in Nat /\ since \in Nat /\ since <= started /\ started <= now /\ started # Never
    BY DEF ClockInv, Never
  <2>3. task'.last = started
    BY <2>1 DEF ClockInv, TaskType
  <2>4. running = "registered" /\ running' = "begun" /\ UNCHANGED <<now, chance>>
    BY <1>5 DEF Begin
  <2>5. ASSUME chance PROVE RanThisMinute'
    <3>1. Minute(since) = Minute(now)
      BY <2>4, <2>5 DEF ChanceInv
    <3>2. Minute(since) <= Minute(started) /\ Minute(started) <= Minute(now)
          /\ Minute(since) \in Nat /\ Minute(started) \in Nat /\ Minute(now) \in Nat
      BY <1>1, <2>2, MinuteMonotone
    <3>3. Minute(started) = Minute(now)
      BY <3>1, <3>2
    <3> QED BY <2>2, <2>3, <2>4, <3>3 DEF RanThisMinute
  <2> QED BY <2>4, <2>5 DEF ChanceInv
<1>6. CASE Finish
  <2>1. running = "begun" /\ running' = "none" /\ UNCHANGED <<now, task, chance>>
    BY <1>6 DEF Finish
  <2> QED BY <2>1 DEF ChanceInv, RanThisMinute
<1>7. CASE RunManually \/ ReadForPut
  BY <1>7 DEF RunManually, ReadForPut, ChanceInv, MinuteMeant, RanThisMinute, OnItsWay
<1>8. CASE Crash
  BY <1>8 DEF Crash, ChanceInv
<1>9. CASE Restart
  BY <1>9 DEF Restart, ChanceInv, ClockInv
<1>10. ASSUME NEW b \in BOOLEAN, SetEnabled(b) PROVE ChanceInv'
  <2>1. task'.schedule = task.schedule /\ task'.last = task.last
    BY <1>10 DEF SetEnabled, ClockInv, TaskType
  <2> QED BY <1>10, <2>1 DEF SetEnabled, ChanceInv, MinuteMeant, RanThisMinute, OnItsWay
<1>11. ASSUME NEW s \in Requested, NEW b \in BOOLEAN, PutTask(s, b) PROVE ChanceInv'
  <2>1. CASE chance' = FALSE
    BY <2>1 DEF ChanceInv
  <2>2. CASE UNCHANGED <<task, saved, failed, pending, begun, chance>>
    BY <1>11, <2>2 DEF PutTask, ChanceInv, MinuteMeant, RanThisMinute, OnItsWay
  <2> QED BY <1>11, <2>1, <2>2 DEF PutTask
<1>12. CASE UNCHANGED vars
  BY <1>12 DEF vars, ChanceInv, MinuteMeant, RanThisMinute, OnItsWay
<1> QED BY <1>2, <1>3, <1>4, <1>5, <1>6, <1>7, <1>8, <1>9, <1>10, <1>11, <1>12 DEF Next

\* A minute that a valid expression means, and in which a poll found the task
\* enabled and idle, ends with a run stamped in it or on its way: parser, due
\* test and the rest of the server together miss no such minute.
THEOREM NoMinuteMissed == Spec => MatchingMinuteRuns
<1> DEFINE Step == /\ Minute(now') # Minute(now)
                   /\ chance
                   /\ task.schedule.cron # Blank
                   /\ ValidTask(task.schedule)
                   /\ CronMeans(task.schedule.cron, Clock(now))
                   => \/ task.last # Never /\ Minute(task.last) = Minute(now)
                      \/ pending # {} \/ manual \/ running # "none"
<1>1. Init => ClockInv /\ ChanceInv
  BY ClockInit DEF Init, ChanceInv
<1>2. ClockInv /\ ChanceInv /\ [Next]_vars => ClockInv' /\ ChanceInv'
  BY ClockNext, ChanceNext
<1>3. ChanceInv => [Step]_vars
  BY DEF ChanceInv, MinuteMeant, RanThisMinute, OnItsWay
<1> QED BY <1>1, <1>2, <1>3, PTL DEF Spec, MatchingMinuteRuns
=============================================================================
