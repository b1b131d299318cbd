---------------------------- MODULE DispatchProofs ----------------------------
(***************************************************************************)
(* Theorems about Retry and Dispatch, for every set of replicas and rows:  *)
(* the retry times and the types, then what one step means to one row.     *)
(***************************************************************************)
EXTENDS Dispatch, TLAPS

\* The delay before jitter is a natural number, at least the schedule's and at
\* least Retry-After, and one of the two.
LEMMA DelayIsMax ==
    ASSUME NEW attempt \in Int, NEW retry_after \in Nat \cup {NULL},
           NEW schedule \in Seq(Nat)
    PROVE  LET base == BaseDelay(attempt, schedule)
               delay == Delay(attempt, retry_after, schedule)
           IN  /\ base \in Nat /\ delay \in Nat
               /\ delay >= base
               /\ retry_after # NULL => delay >= retry_after
               /\ delay = base \/ delay = retry_after
<1>1. BaseDelay(attempt, schedule) \in Nat
  <2>1. CASE schedule = << >>
    BY <2>1 DEF BaseDelay, DefaultBackoff
  <2>2. CASE schedule # << >>
    <3>1. Len(schedule) \in Nat /\ Len(schedule) # 0
      BY <2>2
    <3>2. ScheduleIndex(attempt) \in Int /\ ScheduleIndex(attempt) >= 1
      BY DEF ScheduleIndex
    <3>3. \A i \in 1..Len(schedule) : schedule[i] \in Nat
      OBVIOUS
    <3> QED BY <2>2, <3>1, <3>2, <3>3 DEF BaseDelay
  <2> QED BY <2>1, <2>2
<1>2. CASE retry_after = NULL
  BY <1>1, <1>2 DEF Delay
<1>3. CASE retry_after \in Nat
  BY <1>1, <1>3, NullAssumption DEF Delay
<1> QED BY <1>2, <1>3

(* The next attempt is put off by at least three quarters of the schedule's  *)
(* entry and of Retry-After, and by less than five quarters of the longer of *)
(* the two (compute_next_available_at).  There is such a time, and no panic, *)
(* when five quarters of the delay from now are still a DateTime; nothing    *)
(* bounds the Retry-After of a receiver.                                     *)
THEOREM WaitBounds ==
    ASSUME NEW clock \in Int, NEW attempt \in Int,
           NEW retry_after \in Nat \cup {NULL}, NEW schedule \in Seq(Nat)
    PROVE  LET base == BaseDelay(attempt, schedule)
               delay == Delay(attempt, retry_after, schedule)
               times == compute_next_available_at(clock, attempt, retry_after, schedule)
           IN  /\ \A t \in times \ {NULL} :
                     /\ t - clock \in Nat /\ t =< LastInstant
                     /\ 4 * (t - clock) >= 3 * base
                     /\ retry_after # NULL => 4 * (t - clock) >= 3 * retry_after
                     /\ t # clock => \/ 4 * (t - clock) < 5 * base
                                     \/ retry_after # NULL /\ 4 * (t - clock) < 5 * retry_after
               /\ 4 * clock + 5 * delay =< 4 * LastInstant => times # {} /\ NULL \notin times
<1> DEFINE base == BaseDelay(attempt, schedule)
           delay == Delay(attempt, retry_after, schedule)
           times == compute_next_available_at(clock, attempt, retry_after, schedule)
<1>1. /\ base \in Nat /\ delay \in Nat
      /\ delay >= base
      /\ retry_after # NULL => delay >= retry_after
      /\ delay = base \/ delay = retry_after
  BY DelayIsMax, Zenon
<1>2. times = {IF clock + w =< LastInstant THEN clock + w ELSE NULL : w \in Jittered(delay)}
  BY DEF compute_next_available_at
<1>3. delay = retry_after /\ delay # base => retry_after # NULL
  BY <1>1, NullAssumption
<1>4. retry_after # NULL => retry_after \in Nat
  OBVIOUS
<1>5. ASSUME NEW w \in Jittered(delay)
      PROVE  w \in Nat /\ w =< 2 * delay /\ 3 * delay =< 4 * w /\ (4 * w < 5 * delay \/ delay = 0)
  BY <1>1 DEF Jittered
<1>6. delay \in Jittered(delay)
  BY <1>1 DEF Jittered
<1> HIDE DEF base, delay, times
<1>7. ASSUME NEW t \in times, t # NULL
      PROVE  /\ t - clock \in Nat /\ t =< LastInstant
             /\ 4 * (t - clock) >= 3 * base
             /\ retry_after # NULL => 4 * (t - clock) >= 3 * retry_after
             /\ t # clock => \/ 4 * (t - clock) < 5 * base
                             \/ retry_after # NULL /\ 4 * (t - clock) < 5 * retry_after
  <2>1. PICK w \in Jittered(delay) : t = clock + w /\ clock + w =< LastInstant
    BY <1>2, <1>7
  <2>2. w \in Nat /\ w =< 2 * delay /\ 3 * delay =< 4 * w /\ (4 * w < 5 * delay \/ delay = 0)
    BY <1>5
  <2>3. t - clock = w /\ (t # clock <=> w # 0)
    BY <2>1, <2>2
  <2>4. 4 * w >= 3 * base /\ (retry_after # NULL => 4 * w >= 3 * retry_after)
    BY <1>1, <1>4, <2>2
  <2>5. w # 0 => 4 * w < 5 * base \/ (retry_after # NULL /\ 4 * w < 5 * retry_after)
    <3>1. CASE delay = base
      BY <1>1, <2>2, <3>1
    <3>2. CASE delay = retry_after /\ delay # base
      BY <1>1, <1>3, <2>2, <3>2
    <3> QED BY <1>1, <3>1, <3>2
  <2> QED BY <2>1, <2>2, <2>3, <2>4, <2>5
<1>8. ASSUME 4 * clock + 5 * delay =< 4 * LastInstant PROVE times # {} /\ NULL \notin times
  <2>1. ASSUME NEW w \in Jittered(delay) PROVE clock + w =< LastInstant /\ clock + w \in Int
    <3>1. w \in Nat /\ (4 * w =< 5 * delay \/ (delay = 0 /\ w = 0))
      BY <1>1, <2>1, <1>5 DEF Jittered
    <3> QED BY <1>1, <1>8, <3>1, InstantAssumption
  <2> QED BY <1>2, <1>6, <2>1, NullAssumption, Zenon
<1> QED BY <1>7, <1>8 DEF base, delay, times

-------------------------------------------------------------------------------
(* compute_next_available_at returns instants: what mark_failure writes to   *)
(* available_at is a time.                                                   *)
LEMMA NextAvailableType ==
    ASSUME NEW clock \in Int, NEW attempt \in Nat,
           NEW retry_after \in Nat \cup {NULL},
           NEW t \in compute_next_available_at(clock, attempt, retry_after, Backoff), t # NULL
    PROVE  t \in Int
<1>1. attempt \in Int /\ Backoff \in Seq(Nat)
  BY DispatchAssumption
<1>2. Delay(attempt, retry_after, Backoff) \in Nat
  BY <1>1, DelayIsMax, Zenon
<1>3. \A j \in Jittered(Delay(attempt, retry_after, Backoff)) : j \in Int
  BY <1>2 DEF Jittered
<1> QED BY <1>3 DEF compute_next_available_at

(* The rows that ensure_deliveries inserts and retry_delivery writes.        *)
LEMMA FreshRowType == ASSUME NEW t \in Int PROVE FreshRow(t) \in Row
  BY DEF FreshRow, Row, Time

(* A dispatch_one that has not started.                                      *)
LEMMA IdleType == Idle \in Task
  BY DEF Idle, Task, Phase

(* The record updates that dispatch_one makes to its own state are typed.    *)
LEMMA TaskUpdateType ==
    ASSUME NEW t \in Task, NEW at \in Int, NEW until \in Int, NEW next \in Int,
           NEW n \in Nat
    PROVE  /\ [t EXCEPT !.pc = "locking", !.at = at, !.until = until] \in Task
           /\ [t EXCEPT !.pc = "locked"] \in Task
           /\ [t EXCEPT !.pc = "calling", !.at = at] \in Task
           /\ [t EXCEPT !.pc = "writing", !.at = at, !.ok = TRUE] \in Task
           /\ [t EXCEPT !.pc = "writing", !.at = at, !.ok = FALSE, !.next = next]
                    \in Task
           /\ \A p \in Phase :
                [t EXCEPT !.pc = p, !.attempts = n, !.at = at] \in Task
  BY Zenon DEF Task, Phase

(* The column updates of the SQL statements are typed.                       *)
LEMMA RowUpdateType ==
    ASSUME NEW x \in Row, NEW t \in Int, NEW b \in BOOLEAN
    PROVE  /\ [x EXCEPT !.dead_letter = TRUE, !.locked_until = NULL] \in Row
           /\ [x EXCEPT !.locked_until = t, !.attempts = @ + 1] \in Row
           /\ [x EXCEPT !.dispatched_at = t, !.processed = b,
                        !.locked_until = NULL] \in Row
           /\ [x EXCEPT !.available_at = t, !.dead_letter = b,
                        !.locked_until = NULL] \in Row
           /\ [x EXCEPT !.processed = TRUE] \in Row
           /\ [x EXCEPT !.dead_letter = TRUE] \in Row
<1>1. [x EXCEPT !.dead_letter = TRUE, !.locked_until = NULL] \in Row
  BY Zenon DEF Row, Time
<1>2. [x EXCEPT !.locked_until = t, !.attempts = @ + 1] \in Row
  <2>1. ASSUME NEW n \in Nat
        PROVE  [x EXCEPT !.locked_until = t, !.attempts = n] \in Row
    BY Zenon DEF Row, Time
  <2>2. x.attempts + 1 \in Nat
    BY DEF Row
  <2> QED BY <2>1, <2>2, Zenon
<1>3. [x EXCEPT !.dispatched_at = t, !.processed = b, !.locked_until = NULL] \in Row
  BY Zenon DEF Row, Time
<1>4. [x EXCEPT !.available_at = t, !.dead_letter = b, !.locked_until = NULL] \in Row
  BY Zenon DEF Row, Time
<1>5. [x EXCEPT !.processed = TRUE] \in Row
  BY Zenon DEF Row
<1>6. [x EXCEPT !.dead_letter = TRUE] \in Row
  BY Zenon DEF Row
<1> QED BY <1>1, <1>2, <1>3, <1>4, <1>5, <1>6

(* Every variable keeps its type under every step of the dispatcher, the     *)
(* sweeper and the admin API.                                                *)
LEMMA TypeStep == TypeOK /\ [Next]_vars => TypeOK'
<1> SUFFICES ASSUME TypeOK, [Next]_vars PROVE TypeOK'
  OBVIOUS
<1>0. /\ now \in Int
      /\ \A r \in Replica : Clock(r) \in Int /\ LockUntil(r) \in Int
  BY DispatchAssumption DEF TypeOK, Clock, LockUntil
<1>r. ASSUME NEW d \in Delivery, NEW x \in Row, SetRow(d, x)
      PROVE  row' \in [Delivery -> Row]
  BY <1>r DEF TypeOK, SetRow
<1>t. ASSUME NEW r \in Replica, NEW d \in Delivery, NEW t \in Task, SetTask(r, d, t)
      PROVE  task' \in [Replica -> [Delivery -> Task]]
  BY <1>t DEF TypeOK, SetTask
<1>1. ASSUME NEW r \in Replica, Fetch(r) PROVE TypeOK'
  <2>1. ASSUME NEW d \in Delivery
        PROVE  [Idle EXCEPT !.pc = IF d \in Poison[r] THEN "poison" ELSE "fetched",
                            !.attempts = row[d].attempts,
                            !.at = row[d].available_at] \in Task
    <3>1. row[d].attempts \in Nat /\ row[d].available_at \in Int
      BY DEF TypeOK, Row
    <3>2. (IF d \in Poison[r] THEN "poison" ELSE "fetched") \in Phase
      BY DEF Phase
    <3> QED BY <3>1, <3>2, IdleType, TaskUpdateType, Zenon
  <2> QED BY <1>1, <2>1, IdleType, Zenon DEF Fetch, TypeOK
<1>2. ASSUME NEW r \in Replica, BeginSweep(r) PROVE TypeOK'
  <2>1. ASSUME NEW d \in Delivery PROVE ResetHung(r, d) \in SweepUpdate
    <3>1. row[d] \in Row
      BY DEF TypeOK
    <3> QED BY <1>0, <3>1 DEF Row, SweepUpdate, ResetHung, Time
  <2> QED BY <1>2, <2>1 DEF BeginSweep, TypeOK
<1>3. ASSUME NEW r \in Replica, EndSweep(r) PROVE TypeOK'
  <2>1. ASSUME NEW d \in Delivery, sweep[r][d] # NULL
        PROVE  Swept(d, sweep[r][d]) \in Row
    <3>1. row[d] \in Row /\ sweep[r][d] \in SweepUpdate
      BY <2>1 DEF TypeOK
    <3> QED BY <3>1, Zenon DEF Swept, Row, SweepUpdate, Time
  <2> QED BY <1>3, <2>1 DEF EndSweep, TypeOK, NoSweep
<1>4. ASSUME NEW r \in Replica, Crash(r) PROVE TypeOK'
  BY <1>4, IdleType DEF Crash, Fault, TypeOK, NoSweep
<1>5. ASSUME NEW r \in Replica, NEW d \in Delivery, DispatchOne(r, d)
      PROVE  TypeOK'
  <2>0. /\ task[r][d] \in Task /\ row[d] \in Row
        /\ task[r][d].attempts \in Nat /\ task[r][d].attempts + 1 \in Nat
        /\ task[r][d].until \in Int /\ task[r][d].next \in Int
    BY DEF TypeOK, Task
  <2>b. ASSUME NEW retry_after \in Nat \cup {NULL}, FailCall(r, d, retry_after)
        PROVE  task' \in [Replica -> [Delivery -> Task]]
    <3>1. PICK t \in compute_next_available_at(Clock(r), task[r][d].attempts + 1,
                                             retry_after, Backoff) :
                /\ t # NULL
                /\ SetTask(r, d, [task[r][d] EXCEPT !.pc = "writing", !.at = now,
                                                    !.ok = FALSE, !.next = t])
      BY <2>b, Zenon DEF FailCall
    <3>2. t \in Int
      BY <1>0, <2>0, <3>1, NextAvailableType
    <3> QED BY <1>0, <2>0, <3>1, <3>2, <1>t, TaskUpdateType, Zenon
  <2>1. CASE DeadLetterPoison(r, d)
    BY <2>0, <2>1, <1>r, <1>t, IdleType, RowUpdateType, Zenon DEF DeadLetterPoison, TypeOK
  <2>2. CASE PoisonError(r, d)
    BY <2>2, <1>t, IdleType DEF PoisonError, Fault, TypeOK
  <2>3. CASE BeginLock(r, d)
    BY <1>0, <2>0, <2>3, <1>t, TaskUpdateType, Zenon DEF BeginLock, TypeOK
  <2>4. CASE LockDelivery(r, d)
    <3>1. row' \in [Delivery -> Row]
      BY <2>0, <2>4, <1>r, RowUpdateType, Zenon DEF LockDelivery
    <3>2. task' \in [Replica -> [Delivery -> Task]]
      BY <1>0, <2>0, <2>4, <1>t, TaskUpdateType, Zenon DEF LockDelivery
    <3> QED BY <2>4, <3>1, <3>2 DEF LockDelivery, TypeOK
  <2>5. CASE LockRefused(r, d)
    BY <2>5, <1>t, IdleType DEF LockRefused, TypeOK
  <2>6. CASE LockError(r, d)
    BY <2>6, <1>t, IdleType DEF LockError, Fault, TypeOK
  <2>7. CASE StartCall(r, d)
    <3>1. lastSent' \in [Delivery -> Nat]
      BY <2>0, <2>7 DEF StartCall, TypeOK
    <3>2. task' \in [Replica -> [Delivery -> Task]]
      BY <1>0, <2>0, <2>7, <1>t, TaskUpdateType, Zenon DEF StartCall
    <3> QED BY <2>7, <3>1, <3>2 DEF StartCall, TypeOK
  <2>8. CASE CallOk(r, d)
    BY <1>0, <2>0, <2>8, <1>t, TaskUpdateType, Zenon DEF CallOk, TypeOK
  <2>9. CASE CallFailed(r, d)
    BY <2>9, <2>b, DispatchAssumption DEF CallFailed, TypeOK
  <2>10. CASE CallTimedOut(r, d)
    BY <2>10, <2>b DEF CallTimedOut, TypeOK
  <2>11. CASE MarkDispatched(r, d)
    <3>1. (row[d].processed \/ Mode[d] = "managed") \in BOOLEAN
      OBVIOUS
    <3>2. row' \in [Delivery -> Row]
      BY <1>0, <2>0, <2>11, <3>1, <1>r, RowUpdateType, Zenon DEF MarkDispatched
    <3>3. acks' \in [Delivery -> Nat]
      BY <2>11 DEF MarkDispatched, TypeOK
    <3>4. task' \in [Replica -> [Delivery -> Task]]
      BY <2>11, <1>t, IdleType DEF MarkDispatched
    <3> QED BY <2>11, <3>2, <3>3, <3>4 DEF MarkDispatched, TypeOK
  <2>12. CASE MarkFailure(r, d)
    <3>1. Exhausted(r, d) \in BOOLEAN
      BY DEF Exhausted
    <3>2. row' \in [Delivery -> Row]
      BY <2>0, <2>12, <3>1, <1>r, RowUpdateType, Zenon DEF MarkFailure
    <3> QED BY <2>12, <3>2, <1>t, IdleType DEF MarkFailure, TypeOK
  <2>13. CASE WriteError(r, d)
    BY <2>13, <1>t, IdleType DEF WriteError, Fault, TypeOK
  <2> QED BY <1>5, <2>1, <2>2, <2>3, <2>4, <2>5, <2>6, <2>7, <2>8, <2>9, <2>10,
            <2>11, <2>12, <2>13 DEF DispatchOne
<1>6. ASSUME NEW d \in Delivery, RetryDelivery(d) PROVE TypeOK'
  BY <1>0, <1>6, <1>r, FreshRowType DEF RetryDelivery, TypeOK
<1>7. ASSUME NEW d \in Delivery, CompleteDelivery(d) PROVE TypeOK'
  <2>1. row[d] \in Row
    BY DEF TypeOK
  <2> QED BY <1>0, <1>7, <2>1, <1>r, RowUpdateType, Zenon DEF CompleteDelivery, TypeOK
<1>8. ASSUME NEW d \in Delivery, AbandonDelivery(d) PROVE TypeOK'
  <2>1. row[d] \in Row
    BY DEF TypeOK
  <2> QED BY <1>0, <1>8, <2>1, <1>r, RowUpdateType, Zenon DEF AbandonDelivery, TypeOK
<1>9. CASE Tick
  BY <1>9 DEF Tick, TypeOK
<1>10. CASE UNCHANGED vars
  BY <1>10 DEF vars, TypeOK
<1> QED BY <1>1, <1>2, <1>3, <1>4, <1>5, <1>6, <1>7, <1>8, <1>9, <1>10
        DEF Next, Horizon

(* TypeOK is an invariant of Dispatch.                                       *)
THEOREM TypeCorrect == Spec => []TypeOK
<1>1. Init => TypeOK
  BY FreshRowType, IdleType DEF Init, TypeOK, NoSweep
<1> QED BY <1>1, TypeStep, PTL DEF Spec

(* dispatch_one for d at r changes no other task.                            *)
LEMMA SetTaskValue ==
    ASSUME TypeOK, NEW r \in Replica, NEW d \in Delivery, NEW t, SetTask(r, d, t),
           NEW s \in Replica, NEW e \in Delivery
    PROVE  task'[s][e] = IF s = r /\ e = d THEN t ELSE task[s][e]
  BY DEF TypeOK, SetTask

(* A statement by id changes no other row.                                   *)
LEMMA SetRowValue ==
    ASSUME TypeOK, NEW d \in Delivery, NEW x, SetRow(d, x), NEW e \in Delivery
    PROVE  row'[e] = IF e = d THEN x ELSE row[e]
  BY DEF TypeOK, SetRow

-------------------------------------------------------------------------------
(* What one step means to the row d and to r's dispatch of it, in terms of   *)
(* the columns that count attempts.                                          *)

\* Row d is not written and no request for it goes out.
RowRests(d) == row'[d] = row[d] /\ lastSent'[d] = lastSent[d]

\* A write to row d that keeps its attempts and its completion cycles.
KeepsCounts(d) ==
    /\ row'[d].attempts = row[d].attempts
    /\ row'[d].cycles = row[d].cycles
    /\ lastSent'[d] = lastSent[d]

Moves(r, d, from, to) ==
    /\ task[r][d].pc = from
    /\ task'[r][d].pc = to
    /\ task'[r][d].attempts = task[r][d].attempts

Ends(r, d) == task'[r][d].pc = "idle"

Poisons(r, d) ==
    /\ task[r][d].pc = "poison" /\ Ends(r, d)
    /\ KeepsCounts(d) /\ row'[d].dead_letter

\* A dispatch that ends after its lock and before its write-back is a fault.
GivesUp(r, d) ==
    /\ Ends(r, d)
    /\ RowRests(d)
    /\ InFlight(r, d) => faults' = faults + 1

Begins(r, d) == Moves(r, d, "fetched", "locking") /\ RowRests(d)

Locks(r, d) ==
    /\ Moves(r, d, "locking", "locked")
    /\ row'[d].attempts = row[d].attempts + 1
    /\ row'[d].cycles = row[d].cycles
    /\ row'[d].dead_letter = row[d].dead_letter
    /\ lastSent'[d] = lastSent[d]

Calls(r, d) ==
    /\ Moves(r, d, "locked", "calling")
    /\ row'[d] = row[d]
    /\ lastSent'[d] = task[r][d].attempts + 1

Returns(r, d) == Moves(r, d, "calling", "writing") /\ RowRests(d)

Succeeds(r, d) ==
    /\ task[r][d].pc = "writing" /\ Ends(r, d)
    /\ KeepsCounts(d)
    /\ row'[d].dispatched_at # NULL
    /\ row'[d].dead_letter = row[d].dead_letter

Fails(r, d) ==
    /\ task[r][d].pc = "writing" /\ Ends(r, d)
    /\ KeepsCounts(d)
    /\ row'[d].dispatched_at = row[d].dispatched_at
    /\ row'[d].dead_letter = Exhausted(r, d)

\* A step of dispatch_one.
OneStep(r, d) ==
    \/ Poisons(r, d) \/ GivesUp(r, d) \/ Begins(r, d) \/ Locks(r, d)
    \/ Calls(r, d) \/ Returns(r, d) \/ Succeeds(r, d) \/ Fails(r, d)

\* Fetch takes d into r's batch, or leaves it out.
Fetches(r, d) ==
    /\ RowRests(d)
    /\ task[r][d].pc = "idle"
    /\ \/ Ends(r, d)
       \/ task'[r][d].pc = "poison" /\ d \in Poison[r]
       \/ task'[r][d].pc = "fetched" /\ task'[r][d].attempts = row[d].attempts /\ Due(d)

\* r's sweep statement writes row d.
Sweeps(r, d) ==
    LET u == sweep[r][d] IN
    /\ u # NULL
    /\ row'[d].attempts = u.attempts
    /\ row'[d].cycles = u.cycles
    /\ row'[d].dead_letter = u.dead_letter
    /\ lastSent'[d] = lastSent[d]

\* complete_delivery and abandon_delivery.
Marks(d) ==
    /\ KeepsCounts(d)
    /\ row'[d].available_at = row[d].available_at
    /\ row'[d].dispatched_at = row[d].dispatched_at
    /\ \/ row'[d].dead_letter = row[d].dead_letter
       \/ "abandon" \in AdminOps /\ row'[d].dead_letter

\* retry_delivery.
Retries(d) ==
    /\ "retry" \in AdminOps
    /\ row'[d] = FreshRow(now)
    /\ lastSent'[d] = 0

Stays(r, d) == task'[r][d] = task[r][d]

\* Whatever happens, (r, d) sees one of these.
LocalStep(r, d) ==
    \/ RowRests(d) /\ (Stays(r, d) \/ GivesUp(r, d))
    \/ OneStep(r, d)
    \/ Fetches(r, d)
    \/ Stays(r, d) /\ (Marks(d) \/ Retries(d))
    \/ Stays(r, d) /\ \E s \in Replica : Sweeps(s, d) \/ (s # r /\ OneStep(s, d))

(* The steps of dispatch_one, column by column.                              *)
LEMMA DispatchOneLocal ==
    ASSUME TypeOK, NEW r \in Replica, NEW d \in Delivery, DispatchOne(r, d)
    PROVE  OneStep(r, d)
<1> DEFINE t == task[r][d]
<1>0. t \in Task /\ row[d] \in Row /\ now # NULL
  BY NullAssumption DEF TypeOK
<1>1. CASE DeadLetterPoison(r, d)
  <2>1. task'[r][d] = Idle /\ row'[d] = [row[d] EXCEPT !.dead_letter = TRUE, !.locked_until = NULL]
    BY <1>1, SetTaskValue, SetRowValue DEF DeadLetterPoison
  <2>2. Poisons(r, d)
    BY <1>0, <1>1, <2>1 DEF Poisons, Ends, KeepsCounts, Row, Idle, DeadLetterPoison
  <2> QED BY <2>2 DEF OneStep
<1>2. CASE PoisonError(r, d) \/ LockRefused(r, d) \/ LockError(r, d) \/ WriteError(r, d)
  <2>1. SetTask(r, d, Idle) /\ row' = row /\ lastSent' = lastSent /\ (InFlight(r, d) => Fault)
    BY <1>2 DEF PoisonError, LockRefused, LockError, WriteError, InFlight
  <2>2. GivesUp(r, d)
    BY <2>1, SetTaskValue DEF GivesUp, Ends, RowRests, Idle, Fault
  <2> QED BY <2>2 DEF OneStep
<1>3. CASE BeginLock(r, d)
  <2>1. task'[r][d] = [t EXCEPT !.pc = "locking", !.at = now, !.until = LockUntil(r)]
    BY <1>3, SetTaskValue DEF BeginLock
  <2>2. Begins(r, d)
    BY <1>0, <1>3, <2>1 DEF Begins, Moves, RowRests, Task, BeginLock
  <2> QED BY <2>2 DEF OneStep
<1>4. CASE LockDelivery(r, d)
  <2>1. /\ task'[r][d] = [t EXCEPT !.pc = "locked"]
        /\ row'[d] = [row[d] EXCEPT !.locked_until = t.until, !.attempts = @ + 1]
    BY <1>4, SetTaskValue, SetRowValue DEF LockDelivery
  <2>2. Locks(r, d)
    BY <1>0, <1>4, <2>1 DEF Locks, Moves, Task, Row, LockDelivery
  <2> QED BY <2>2 DEF OneStep
<1>5. CASE StartCall(r, d)
  <2>1. task'[r][d] = [t EXCEPT !.pc = "calling", !.at = now]
    BY <1>5, SetTaskValue DEF StartCall
  <2>2. lastSent'[d] = t.attempts + 1
    BY <1>5 DEF StartCall, TypeOK
  <2>3. Calls(r, d)
    BY <1>0, <1>5, <2>1, <2>2 DEF Calls, Moves, Task, StartCall
  <2> QED BY <2>3 DEF OneStep
<1>6. CASE CallOk(r, d)
  <2>1. task'[r][d] = [t EXCEPT !.pc = "writing", !.at = now, !.ok = TRUE]
    BY <1>6, SetTaskValue DEF CallOk
  <2>2. Returns(r, d)
    BY <1>0, <1>6, <2>1 DEF Returns, Moves, RowRests, Task, CallOk
  <2> QED BY <2>2 DEF OneStep
<1>7. CASE CallFailed(r, d) \/ CallTimedOut(r, d)
  <2>1. t.pc = "calling" /\ row' = row /\ lastSent' = lastSent
        /\ \E retry_after : FailCall(r, d, retry_after)
    BY <1>7 DEF CallFailed, CallTimedOut
  <2>2. PICK n : SetTask(r, d, [t EXCEPT !.pc = "writing", !.at = now, !.ok = FALSE, !.next = n])
    BY <2>1, Zenon DEF FailCall
  <2>3. task'[r][d] = [t EXCEPT !.pc = "writing", !.at = now, !.ok = FALSE, !.next = n]
    BY <2>2, SetTaskValue
  <2>4. Returns(r, d)
    BY <1>0, <2>1, <2>3 DEF Returns, Moves, RowRests, Task
  <2> QED BY <2>4 DEF OneStep
<1>8. CASE MarkDispatched(r, d)
  <2>1. /\ task'[r][d] = Idle
        /\ row'[d] = [row[d] EXCEPT !.dispatched_at = now,
                                    !.processed = @ \/ Mode[d] = "managed",
                                    !.locked_until = NULL]
    BY <1>8, SetTaskValue, SetRowValue DEF MarkDispatched
  <2>2. Succeeds(r, d)
    BY <1>0, <1>8, <2>1 DEF Succeeds, Ends, KeepsCounts, Row, Idle, MarkDispatched
  <2> QED BY <2>2 DEF OneStep
<1>9. CASE MarkFailure(r, d)
  <2>1. /\ task'[r][d] = Idle
        /\ row'[d] = [row[d] EXCEPT !.available_at = t.next,
                                    !.dead_letter = Exhausted(r, d),
                                    !.locked_until = NULL]
    BY <1>9, SetTaskValue, SetRowValue DEF MarkFailure
  <2>2. row'[d].dead_letter = Exhausted(r, d)
    BY <1>0, <2>1, Zenon DEF Row
  <2>3. Fails(r, d)
    BY <1>0, <1>9, <2>1, <2>2 DEF Fails, Ends, KeepsCounts, Row, Idle, MarkFailure
  <2> QED BY <2>3 DEF OneStep
<1> QED BY <1>1, <1>2, <1>3, <1>4, <1>5, <1>6, <1>7, <1>8, <1>9 DEF DispatchOne

(* Neither the clock nor the count of faults goes back.                      *)
LEMMA Onward ==
    ASSUME TypeOK, [Next]_vars
    PROVE  now' >= now /\ faults' >= faults
<1>1. now \in Nat /\ faults \in Nat
  BY DEF TypeOK
<1>2. ASSUME NEW r \in Replica, NEW d \in Delivery, DispatchOne(r, d)
      PROVE  now' = now /\ (faults' = faults \/ faults' = faults + 1)
  BY <1>2 DEF DispatchOne, DeadLetterPoison, PoisonError, BeginLock, LockDelivery,
      LockRefused, LockError, StartCall, CallOk, CallFailed, CallTimedOut, MarkDispatched,
      MarkFailure, WriteError, Fault
<1>3. \/ now' = now \/ now' = now + 1
  BY <1>2, Zenon DEF Next, Horizon, Fetch, BeginSweep, EndSweep, Crash, Tick, RetryDelivery,
      CompleteDelivery, AbandonDelivery, vars
<1>4. \/ faults' = faults \/ faults' = faults + 1
  BY <1>2, Zenon DEF Next, Horizon, Fetch, BeginSweep, EndSweep, Crash, Tick, RetryDelivery,
      CompleteDelivery, AbandonDelivery, vars, Fault
<1> QED BY <1>1, <1>3, <1>4

(* A step of dispatch_one for one row leaves the other rows and the other    *)
(* replicas' dispatches alone.                                               *)
LEMMA DispatchOneElsewhere ==
    ASSUME TypeOK, NEW r \in Replica, NEW d \in Delivery, DispatchOne(r, d),
           NEW s \in Replica, NEW e \in Delivery
    PROVE  /\ s # r \/ e # d => Stays(s, e)
           /\ e # d => RowRests(e)
           /\ sweep' = sweep
<1>1. \E t : SetTask(r, d, t)
  BY Zenon DEF DispatchOne, DeadLetterPoison, PoisonError, BeginLock, LockDelivery,
      LockRefused, LockError, StartCall, CallOk, CallFailed, CallTimedOut, MarkDispatched,
      MarkFailure, WriteError, FailCall
<1>2. row' = row \/ \E x : SetRow(d, x)
  BY DEF DispatchOne, DeadLetterPoison, PoisonError, BeginLock, LockDelivery,
      LockRefused, LockError, StartCall, CallOk, CallFailed, CallTimedOut, MarkDispatched,
      MarkFailure, WriteError
<1>3. lastSent' = lastSent \/ \E n : lastSent' = [lastSent EXCEPT ![d] = n]
  BY DEF DispatchOne, DeadLetterPoison, PoisonError, BeginLock, LockDelivery,
      LockRefused, LockError, StartCall, CallOk, CallFailed, CallTimedOut, MarkDispatched,
      MarkFailure, WriteError
<1>4. sweep' = sweep
  BY DEF DispatchOne, DeadLetterPoison, PoisonError, BeginLock, LockDelivery,
      LockRefused, LockError, StartCall, CallOk, CallFailed, CallTimedOut, MarkDispatched,
      MarkFailure, WriteError
<1>5. s # r \/ e # d => Stays(s, e)
  BY <1>1, SetTaskValue DEF Stays
<1>6. e # d => row'[e] = row[e]
  BY <1>2, SetRowValue
<1>7. e # d => lastSent'[e] = lastSent[e]
  BY <1>3 DEF TypeOK
<1> QED BY <1>4, <1>5, <1>6, <1>7 DEF RowRests

(* Every step of the system is a LocalStep to every row and replica.         *)
LEMMA Localize ==
    ASSUME TypeOK, [Next]_vars, NEW r \in Replica, NEW d \in Delivery
    PROVE  LocalStep(r, d)
<1>1. ASSUME NEW s \in Replica, Fetch(s) PROVE LocalStep(r, d)
  <2>1. RowRests(d)
    BY <1>1, Zenon DEF Fetch, RowRests
  <2>2. CASE s # r
    BY <1>1, <2>1, <2>2, Zenon DEF Fetch, TypeOK, Stays, LocalStep
  <2>3. CASE s = r
    <3>1. task[r][d].pc = "idle"
      BY <1>1, <2>3, Zenon DEF Fetch, Quiet
    <3>2. task'[r][d] =
            IF d \notin DueBatch THEN Idle
            ELSE [Idle EXCEPT !.pc = IF d \in Poison[r] THEN "poison" ELSE "fetched",
                              !.attempts = row[d].attempts,
                              !.at = row[d].available_at]
      BY <1>1, <2>3, Zenon DEF Fetch, TypeOK
    <3>3. d \in DueBatch => Due(d)
      BY DEF DueBatch
    <3>4. Fetches(r, d)
      BY <2>1, <3>1, <3>2, <3>3 DEF Fetches, Ends, Idle
    <3> QED BY <3>4 DEF LocalStep
  <2> QED BY <2>2, <2>3
<1>2. ASSUME NEW s \in Replica, BeginSweep(s) PROVE LocalStep(r, d)
  BY <1>2 DEF BeginSweep, LocalStep, RowRests, Stays
<1>3. ASSUME NEW s \in Replica, EndSweep(s) PROVE LocalStep(r, d)
  <2>0. Stays(r, d) /\ lastSent'[d] = lastSent[d]
    BY <1>3 DEF EndSweep, Stays
  <2>1. CASE sweep[s][d] = NULL
    BY <1>3, <2>0, <2>1 DEF EndSweep, LocalStep, RowRests
  <2>2. CASE sweep[s][d] # NULL
    <3>1. row'[d] = Swept(d, sweep[s][d]) /\ row[d] \in Row
      BY <1>3, <2>2 DEF EndSweep, TypeOK
    <3>2. Sweeps(s, d)
      BY <2>0, <2>2, <3>1 DEF Sweeps, Swept, Row
    <3> QED BY <2>0, <3>2 DEF LocalStep
  <2> QED BY <2>1, <2>2
<1>4. ASSUME NEW s \in Replica, Crash(s) PROVE LocalStep(r, d)
  <2>1. RowRests(d)
    BY <1>4 DEF Crash, RowRests
  <2>2. CASE s # r
    BY <1>4, <2>1, <2>2 DEF Crash, TypeOK, Stays, LocalStep
  <2>3. CASE s = r
    <3>1. task'[r][d] = Idle /\ faults' = faults + 1
      BY <1>4, <2>3 DEF Crash, TypeOK, Fault
    <3> QED BY <2>1, <3>1 DEF LocalStep, GivesUp, Ends, Idle
  <2> QED BY <2>2, <2>3
<1>5. ASSUME NEW s \in Replica, NEW e \in Delivery, DispatchOne(s, e) PROVE LocalStep(r, d)
  <2>1. CASE e # d
    BY <1>5, <2>1, DispatchOneElsewhere DEF LocalStep
  <2>2. CASE e = d /\ s = r
    BY <1>5, <2>2, DispatchOneLocal DEF LocalStep
  <2>3. CASE e = d /\ s # r
    BY <1>5, <2>3, DispatchOneLocal, DispatchOneElsewhere DEF LocalStep
  <2> QED BY <2>1, <2>2, <2>3
<1>6. ASSUME NEW e \in Delivery, RetryDelivery(e) PROVE LocalStep(r, d)
  <2>1. Stays(r, d)
    BY <1>6 DEF RetryDelivery, Stays
  <2>2. CASE e # d
    BY <1>6, <2>1, <2>2, SetRowValue DEF RetryDelivery, LocalStep, RowRests, TypeOK
  <2>3. CASE e = d
    <3>1. lastSent'[d] = 0
      BY <1>6, <2>3 DEF RetryDelivery, TypeOK
    <3> QED BY <1>6, <2>1, <2>3, <3>1, SetRowValue DEF RetryDelivery, LocalStep, Retries
  <2> QED BY <2>2, <2>3
<1>7. ASSUME NEW e \in Delivery, CompleteDelivery(e) PROVE LocalStep(r, d)
  <2>1. Stays(r, d) /\ lastSent'[d] = lastSent[d]
    BY <1>7 DEF CompleteDelivery, Stays
  <2>2. CASE e # d
    BY <1>7, <2>1, <2>2, SetRowValue DEF CompleteDelivery, LocalStep, RowRests
  <2>3. CASE e = d
    <3>1. row'[d] = [row[d] EXCEPT !.processed = TRUE] /\ row[d] \in Row
      BY <1>7, <2>3, SetRowValue DEF CompleteDelivery, TypeOK
    <3>2. Marks(d)
      BY <2>1, <3>1 DEF Marks, KeepsCounts, Row
    <3> QED BY <2>1, <3>2 DEF LocalStep
  <2> QED BY <2>2, <2>3
<1>8. ASSUME NEW e \in Delivery, AbandonDelivery(e) PROVE LocalStep(r, d)
  <2>1. Stays(r, d) /\ lastSent'[d] = lastSent[d]
    BY <1>8 DEF AbandonDelivery, Stays
  <2>2. CASE e # d
    BY <1>8, <2>1, <2>2, SetRowValue DEF AbandonDelivery, LocalStep, RowRests
  <2>3. CASE e = d
    <3>1. row'[d] = [row[d] EXCEPT !.dead_letter = TRUE] /\ row[d] \in Row
      BY <1>8, <2>3, SetRowValue DEF AbandonDelivery, TypeOK
    <3>2. Marks(d)
      BY <1>8, <2>1, <3>1, Zenon DEF Marks, KeepsCounts, Row, AbandonDelivery
    <3> QED BY <2>1, <3>2 DEF LocalStep
  <2> QED BY <2>2, <2>3
<1>9. CASE Tick \/ UNCHANGED vars
  BY <1>9 DEF Tick, vars, LocalStep, RowRests, Stays
<1> QED BY <1>1, <1>2, <1>3, <1>4, <1>5, <1>6, <1>7, <1>8, <1>9 DEF Next, Horizon

-------------------------------------------------------------------------------
\* A sweep waits for r to finish its batch, takes external rows only, and
\* dead-letters a row only after its last completion cycle; a row it does not
\* dead-letter starts again from no attempt.
SweepWaits(r, d) ==
    LET u == sweep[r][d] IN
    u # NULL =>
        /\ task[r][d].pc = "idle" /\ Mode[d] = "external"
        /\ u.dead_letter => u.cycles >= MaxCycles
        /\ ~u.dead_letter => u.attempts = 0

SweepInv ==
    \A r \in Replica, d \in Delivery :
        SweepWaits(r, d) /\ (task[r][d].pc = "poison" => d \in Poison[r])

(* reset_hung_external's SET clause, by its two cases.                       *)
LEMMA ResetHungCases ==
    ASSUME NEW r \in Replica, NEW d \in Delivery, TypeOK
    PROVE  LET u == ResetHung(r, d) IN
           /\ u.cycles = row[d].cycles + 1
           /\ u.dead_letter => u.cycles >= MaxCycles
           /\ ~u.dead_letter => u.attempts = 0
           /\ u.attempts = row[d].attempts \/ u.attempts = 0
<1>1. row[d].cycles \in Nat /\ MaxCycles \in Nat
  BY DispatchAssumption DEF TypeOK, Row
<1>2. ResetHung(r, d).dead_letter = (row[d].cycles + 1 >= MaxCycles)
  BY Zenon DEF ResetHung
<1>3. ResetHung(r, d).cycles = row[d].cycles + 1
  BY DEF ResetHung
<1>4. CASE row[d].cycles + 1 >= MaxCycles
  <2>1. ResetHung(r, d).attempts = row[d].attempts
    BY <1>4 DEF ResetHung
  <2> QED BY <1>2, <1>3, <1>4, <2>1, Zenon
<1>5. CASE ~(row[d].cycles + 1 >= MaxCycles)
  <2>1. ResetHung(r, d).attempts = 0
    BY <1>5 DEF ResetHung
  <2> QED BY <1>2, <1>3, <1>5, <2>1, Zenon
<1> QED BY <1>4, <1>5

(* Every step keeps SweepInv.                                                *)
LEMMA SweepStep ==
    ASSUME TypeOK, SweepInv, [Next]_vars
    PROVE  SweepInv'
<1> SUFFICES ASSUME NEW r \in Replica, NEW d \in Delivery
             PROVE  SweepWaits(r, d)' /\ (task'[r][d].pc = "poison" => d \in Poison[r])
  BY DEF SweepInv
<1>0. SweepWaits(r, d) /\ (task[r][d].pc = "poison" => d \in Poison[r])
  BY DEF SweepInv
<1>1. task'[r][d].pc = "poison" => d \in Poison[r]
  <2>1. LocalStep(r, d)
    BY Localize
  <2> QED BY <1>0, <2>1, Zenon DEF LocalStep, OneStep, Stays, GivesUp, Ends, Fetches, Poisons,
              Begins, Locks, Calls, Returns, Succeeds, Fails, Moves
<1>2. ASSUME sweep'[r][d] = NULL \/ (sweep'[r][d] = sweep[r][d] /\ task'[r][d] = task[r][d])
      PROVE  SweepWaits(r, d)'
  BY <1>0, <1>2 DEF SweepWaits
<1>3. ASSUME NEW s \in Replica, Fetch(s) PROVE SweepWaits(r, d)'
  <2>1. s = r => sweep'[r][d] = NULL
    BY <1>3, Zenon DEF Fetch, Quiet, NoSweep
  <2>2. s # r => task'[r][d] = task[r][d] /\ sweep'[r][d] = sweep[r][d]
    BY <1>3, Zenon DEF Fetch, TypeOK
  <2> QED BY <1>2, <2>1, <2>2
<1>4. ASSUME NEW s \in Replica, BeginSweep(s) PROVE SweepWaits(r, d)'
  <2>1. CASE s = r /\ Hung(r, d)
    <3>1. PICK u \in {ResetHung(r, d)} : u = ResetHung(r, d)
      OBVIOUS
    <3>2. sweep'[r][d] = u
      BY <1>4, <2>1, <3>1 DEF BeginSweep, TypeOK
    <3>3. task'[r][d].pc = "idle" /\ Mode[d] = "external"
      BY <1>4, <2>1 DEF BeginSweep, Quiet, Hung
    <3>4. (u.dead_letter => u.cycles >= MaxCycles) /\ (~u.dead_letter => u.attempts = 0)
      BY <3>1, ResetHungCases, Zenon
    <3> QED BY <3>2, <3>3, <3>4 DEF SweepWaits
  <2>2. CASE s = r /\ ~Hung(r, d)
    BY <1>2, <1>4, <2>2 DEF BeginSweep, TypeOK
  <2>3. CASE s # r
    BY <1>2, <1>4, <2>3 DEF BeginSweep, TypeOK
  <2> QED BY <2>1, <2>2, <2>3
<1>5. ASSUME NEW s \in Replica, EndSweep(s) PROVE SweepWaits(r, d)'
  BY <1>2, <1>5 DEF EndSweep, TypeOK, NoSweep
<1>6. ASSUME NEW s \in Replica, Crash(s) PROVE SweepWaits(r, d)'
  BY <1>2, <1>6 DEF Crash, TypeOK, NoSweep
<1>7. ASSUME NEW s \in Replica, NEW e \in Delivery, DispatchOne(s, e) PROVE SweepWaits(r, d)'
  <2>1. CASE s = r /\ e = d
    <3>1. task[r][d].pc # "idle"
      BY <1>7, <2>1 DEF DispatchOne, DeadLetterPoison, PoisonError, BeginLock, LockDelivery,
        LockRefused, LockError, StartCall, CallOk, CallFailed, CallTimedOut, MarkDispatched,
        MarkFailure, WriteError
    <3> QED BY <1>0, <1>2, <1>7, <3>1, DispatchOneElsewhere DEF SweepWaits
  <2>2. CASE s # r \/ e # d
    BY <1>2, <1>7, <2>2, DispatchOneElsewhere DEF Stays
  <2> QED BY <2>1, <2>2
<1>8. CASE UNCHANGED <<task, sweep>>
  BY <1>1, <1>2, <1>8
<1> QED BY <1>1, <1>3, <1>4, <1>5, <1>6, <1>7, <1>8, Zenon
        DEF Next, Horizon, RetryDelivery, CompleteDelivery, AbandonDelivery, Tick, vars

(* SweepInv holds in every reachable state.                                  *)
LEMMA SweepInductive == Spec => []SweepInv
<1>1. Init => SweepInv
  BY DEF Init, SweepInv, SweepWaits, Idle, NoSweep
<1>2. TypeOK /\ SweepInv /\ [Next]_vars => SweepInv'
  BY SweepStep
<1> QED BY <1>1, <1>2, TypeCorrect, PTL DEF Spec
===============================================================================
