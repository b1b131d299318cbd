---------------------------- MODULE LifecycleProofs ----------------------------
(***************************************************************************)
(* The lease protects a dispatch from its lock to its write-back; how many *)
(* successes a row can record between two operator retries; and Dispatch   *)
(* implements Lifecycle.                                                   *)
(***************************************************************************)
EXTENDS DispatchProofs

(* The configured durations and the latencies are numbers of ticks.          *)
LEMMA Durations ==
    /\ Timeout \in Nat /\ LockBuffer \in Nat
    /\ LockLatency \in Nat /\ WriteLatency \in Nat
  BY DispatchAssumption

(* A dispatch in flight has an unexpired lease, so lock_delivery and         *)
(* retry_delivery refuse the row.                                            *)
LEMMA InFlightLocked ==
    ASSUME TypeOK, LeaseInv, NEW r \in Replica, NEW d \in Delivery, InFlight(r, d)
    PROVE  ~Unlocked(d) /\ now =< task[r][d].until
<1>1. /\ task[r][d].until \in Int /\ task[r][d].at \in Int /\ now \in Int
      /\ task[r][d].pc \in {"locked", "calling", "writing"}
  BY DEF TypeOK, Task, InFlight
<1>2. now =< task[r][d].until
  <2>1. LeaseOK(r, d)
    BY DEF LeaseInv
  <2> QED BY <1>1, <2>1, Durations DEF LeaseOK
<1>3. row[d].locked_until = task[r][d].until
  BY DEF LeaseInv, LeaseOK
<1> QED BY <1>1, <1>2, <1>3, NullAssumption DEF Unlocked

(* A step that leaves now, row d, r's state for d and r's sweep alone keeps  *)
(* LeaseOK(r, d).                                                            *)
LEMMA LeaseFrame ==
    ASSUME NEW r \in Replica, NEW d \in Delivery, LeaseOK(r, d),
           task'[r][d] = task[r][d], row'[d] = row[d], now' = now,
           sweep'[r][d] = sweep[r][d]
    PROVE  LeaseOK(r, d)'
  BY DEF LeaseOK, InFlight

(* A dispatch that is over, or has not begun, needs nothing.                 *)
LEMMA LeaseIdle ==
    ASSUME NEW r \in Replica, NEW d \in Delivery,
           task'[r][d] = Idle, sweep'[r][d] = NULL
    PROVE  LeaseOK(r, d)' /\ ~InFlight(r, d)'
  BY DEF LeaseOK, InFlight, Idle

(* A step of (r, d) that leaves its row alone, or changes it while no other  *)
(* replica is in flight on it, keeps LeaseInv if it keeps LeaseOK(r, d).     *)
LEMMA LeaseLocal ==
    ASSUME TypeOK, LeaseInv, NEW r \in Replica, NEW d \in Delivery,
           NEW t, SetTask(r, d, t), now' = now, sweep' = sweep,
           \A e \in Delivery \ {d} : row'[e] = row[e],
           row'[d] = row[d] \/ \A s \in Replica \ {r} : ~InFlight(s, d),
           LeaseOK(r, d)',
           InFlight(r, d)' => InFlight(r, d) \/ Unlocked(d)
    PROVE  LeaseInv'
<1>1. ASSUME NEW s \in Replica, NEW e \in Delivery, s # r \/ e # d
      PROVE  task'[s][e] = task[s][e]
  BY <1>1, SetTaskValue
<1>2. ASSUME NEW s \in Replica, NEW e \in Delivery, s # r \/ e # d
      PROVE  LeaseOK(s, e)' /\ (InFlight(s, e)' <=> InFlight(s, e))
  <2>1. InFlight(s, e)' <=> InFlight(s, e)
    BY <1>1, <1>2 DEF InFlight
  <2>2. LeaseOK(s, e)
    BY DEF LeaseInv
  <2>3. CASE row'[e] = row[e]
    BY <1>1, <1>2, <2>1, <2>2, <2>3, LeaseFrame
  <2>4. CASE e = d /\ ~InFlight(s, d)
    BY <1>1, <1>2, <2>1, <2>2, <2>4 DEF LeaseOK
  <2> QED BY <1>2, <2>1, <2>3, <2>4
<1>3. ASSUME NEW s \in Replica, s # r, InFlight(s, d), InFlight(r, d)' PROVE FALSE
  <2>1. ~Unlocked(d)
    BY <1>3, InFlightLocked
  <2> QED BY <1>3, <2>1 DEF LeaseInv, OneCallAtATime
<1>4. OneCallAtATime'
  BY <1>2, <1>3 DEF LeaseInv, OneCallAtATime
<1> QED BY <1>2, <1>4 DEF LeaseInv

(* Every step of dispatch_one keeps LeaseInv.                                *)
LEMMA LeaseDispatchOne ==
    ASSUME LeaseCovered, SameConfig, TypeOK, LeaseInv,
           NEW r \in Replica, NEW d \in Delivery, DispatchOne(r, d)
    PROVE  LeaseInv'
<1> DEFINE t == task[r][d]
<1>0. /\ t \in Task /\ now \in Int /\ t.at \in Int /\ t.until \in Int
      /\ LeaseOK(r, d)
  BY DEF TypeOK, Task, LeaseInv
<1>1. ASSUME t.pc # "idle" PROVE sweep[r][d] = NULL
  BY <1>0, <1>1 DEF LeaseOK
<1>2. ASSUME InFlight(r, d), NEW s \in Replica \ {r} PROVE ~InFlight(s, d)
  BY <1>2 DEF LeaseInv, OneCallAtATime
<1>3. ASSUME SetTask(r, d, Idle), t.pc # "idle", now' = now, sweep' = sweep,
             \A e \in Delivery \ {d} : row'[e] = row[e],
             row'[d] = row[d] \/ \A s \in Replica \ {r} : ~InFlight(s, d)
      PROVE  LeaseInv'
  <2>1. task'[r][d] = Idle /\ sweep'[r][d] = NULL
    BY <1>1, <1>3, SetTaskValue
  <2> QED BY <1>3, <2>1, LeaseIdle, LeaseLocal
<1>4. CASE DeadLetterPoison(r, d)
  <2>1. ASSUME NEW s \in Replica PROVE ~InFlight(s, d)
    <3>1. d \in Poison[s]
      BY <1>0, <1>4 DEF DeadLetterPoison, LeaseOK, SameConfig
    <3> QED BY <3>1 DEF LeaseInv, LeaseOK, InFlight
  <2> QED BY <1>3, <1>4, <2>1, SetRowValue DEF DeadLetterPoison
<1>5. CASE PoisonError(r, d)
  BY <1>3, <1>5 DEF PoisonError
<1>6. CASE BeginLock(r, d)
  <2> DEFINE u == [t EXCEPT !.pc = "locking", !.at = now, !.until = LockUntil(r)]
  <2>1. task'[r][d] = u
    BY <1>6, SetTaskValue DEF BeginLock
  <2>2. u.pc = "locking" /\ u.at = now /\ u.until = LockUntil(r)
    BY <1>0 DEF Task
  <2>3. now + LockLatency + Timeout + WriteLatency =< LockUntil(r)
    BY <1>0, Durations, DispatchAssumption, SMTT(20) DEF LockUntil, Clock, LeaseCovered
  <2>4. now =< now + LockLatency
    BY <1>0, Durations
  <2> HIDE DEF u
  <2>5. ~InFlight(r, d)'
    BY <2>1, <2>2 DEF InFlight
  <2>6. LeaseOK(r, d)'
    BY <1>0, <1>1, <1>6, <2>1, <2>2, <2>3, <2>4, <2>5 DEF LeaseOK, BeginLock
  <2> QED BY <1>6, <2>5, <2>6, LeaseLocal DEF BeginLock
<1>7. CASE LockDelivery(r, d)
  <2> DEFINE u == [t EXCEPT !.pc = "locked"]
  <2>1. task'[r][d] = u
    BY <1>7, SetTaskValue DEF LockDelivery
  <2>2. u.pc = "locked" /\ u.at = t.at /\ u.until = t.until
    BY <1>0 DEF Task
  <2>3. row'[d] = [row[d] EXCEPT !.locked_until = t.until, !.attempts = @ + 1]
    BY <1>7, SetRowValue DEF LockDelivery
  <2>4. row'[d].locked_until = t.until /\ row'[d].dispatched_at = NULL
    BY <1>7, <2>3 DEF LockDelivery, Lockable, TypeOK, Row
  <2>5. ASSUME NEW s \in Replica PROVE ~InFlight(s, d)
    BY <1>7, InFlightLocked DEF LockDelivery, Lockable
  <2> HIDE DEF u
  <2>6. LeaseOK(r, d)'
    BY <1>0, <1>1, <1>7, <2>1, <2>2, <2>4 DEF LeaseOK, LockDelivery
  <2> QED BY <1>7, <2>5, <2>6, SetRowValue, LeaseLocal DEF LockDelivery, Lockable
<1>8. CASE LockRefused(r, d)
  BY <1>3, <1>8 DEF LockRefused
<1>9. CASE LockError(r, d)
  BY <1>3, <1>9 DEF LockError
<1>10. CASE StartCall(r, d)
  <2> DEFINE u == [t EXCEPT !.pc = "calling", !.at = now]
  <2>1. task'[r][d] = u
    BY <1>10, SetTaskValue DEF StartCall
  <2>2. u.pc = "calling" /\ u.at = now /\ u.until = t.until
    BY <1>0 DEF Task
  <2>3. now =< now + Timeout /\ now + Timeout + WriteLatency =< t.until
    BY <1>0, <1>10, Durations DEF StartCall, LeaseOK
  <2> HIDE DEF u
  <2>4. LeaseOK(r, d)'
    BY <1>0, <1>1, <1>10, <2>1, <2>2, <2>3 DEF LeaseOK, StartCall, InFlight
  <2> QED BY <1>10, <2>4, LeaseLocal DEF StartCall, InFlight
<1>11. ASSUME t.pc = "calling", NEW u \in Task, SetTask(r, d, u),
              u.pc = "writing", u.at = now, u.until = t.until,
              UNCHANGED <<row, sweep, now>>
       PROVE  LeaseInv'
  <2>1. task'[r][d] = u
    BY <1>11, SetTaskValue
  <2>2. now =< now + WriteLatency /\ now + WriteLatency =< t.until
    BY <1>0, <1>11, Durations DEF LeaseOK
  <2>3. LeaseOK(r, d)'
    BY <1>0, <1>1, <1>11, <2>1, <2>2 DEF LeaseOK, InFlight
  <2> QED BY <1>11, <2>3, LeaseLocal DEF InFlight
<1>12. CASE CallOk(r, d)
  <2> DEFINE u == [t EXCEPT !.pc = "writing", !.at = now, !.ok = TRUE]
  <2>1. u \in Task /\ u.pc = "writing" /\ u.at = now /\ u.until = t.until
    BY <1>0, Zenon DEF Task, Phase
  <2> QED BY <1>11, <1>12, <2>1, Zenon DEF CallOk
<1>13. ASSUME NEW retry_after \in Nat \cup {NULL}, FailCall(r, d, retry_after),
              t.pc = "calling", UNCHANGED <<row, sweep, now>>
       PROVE  LeaseInv'
  <2>1. PICK n \in compute_next_available_at(Clock(r), t.attempts + 1, retry_after,
                                           Backoff) :
              /\ n # NULL
              /\ SetTask(r, d, [t EXCEPT !.pc = "writing", !.at = now, !.ok = FALSE,
                                         !.next = n])
    BY <1>13, Zenon DEF FailCall
  <2>2. n \in Int
    <3>1. Clock(r) \in Int /\ t.attempts + 1 \in Nat
      <4>1. t.attempts \in Nat
        BY <1>0, Zenon DEF Task
      <4>2. Clock(r) \in Int
        BY <1>0, DispatchAssumption, SMTT(20) DEF Clock
      <4> QED BY <4>1, <4>2
    <3> QED BY <2>1, <3>1, NextAvailableType, Zenon
  <2> DEFINE u == [t EXCEPT !.pc = "writing", !.at = now, !.ok = FALSE, !.next = n]
  <2>3. u \in Task /\ u.pc = "writing" /\ u.at = now /\ u.until = t.until
    BY <1>0, <2>2, Zenon DEF Task, Phase
  <2> QED BY <1>11, <1>13, <2>1, <2>3, Zenon
<1>14. CASE CallFailed(r, d)
  BY <1>13, <1>14, DispatchAssumption DEF CallFailed
<1>15. CASE CallTimedOut(r, d)
  BY <1>13, <1>15, Zenon DEF CallTimedOut
<1>16. CASE MarkDispatched(r, d)
  BY <1>2, <1>3, <1>16, SetRowValue DEF MarkDispatched, InFlight
<1>17. CASE MarkFailure(r, d)
  BY <1>2, <1>3, <1>17, SetRowValue DEF MarkFailure, InFlight
<1>18. CASE WriteError(r, d)
  BY <1>3, <1>18 DEF WriteError
<1> QED BY <1>4, <1>5, <1>6, <1>7, <1>8, <1>9, <1>10, <1>12, <1>14, <1>15, <1>16,
          <1>17, <1>18 DEF DispatchOne

(* Every step of the system keeps LeaseInv.                                  *)
LEMMA LeaseStep ==
    ASSUME LeaseCovered, SameConfig, SweepsAlone, TypeOK, LeaseInv, [Next]_vars
    PROVE  LeaseInv'
<1>1. ASSUME NEW r \in Replica, Fetch(r) PROVE LeaseInv'
  <2>1. ASSUME NEW s \in Replica, NEW d \in Delivery
        PROVE  LeaseOK(s, d)' /\ (InFlight(s, d)' => InFlight(s, d))
    <3>0. LeaseOK(s, d)
      BY DEF LeaseInv
    <3>1. CASE s # r
      <4>1. task'[s][d] = task[s][d]
        BY <1>1, <3>1, Zenon DEF Fetch, TypeOK
      <4> QED BY <1>1, <3>0, <4>1, LeaseFrame, Zenon DEF Fetch, InFlight
    <3>2. CASE s = r
      <4>1. task'[r][d].pc \in {"idle", "poison", "fetched"}
        BY <1>1, Zenon DEF Fetch, TypeOK, Idle
      <4>2. /\ task'[r][d].pc = "poison" => d \in Poison[r]
            /\ task'[r][d].pc = "fetched" => d \notin Poison[r]
        BY <1>1, Zenon DEF Fetch, TypeOK, Idle
      <4>3. sweep'[r][d] = NULL
        BY <1>1, Zenon DEF Fetch, Quiet, NoSweep
      <4> QED BY <3>2, <4>1, <4>2, <4>3 DEF LeaseOK, InFlight
    <3> QED BY <3>1, <3>2
  <2> QED BY <2>1 DEF LeaseInv, OneCallAtATime
<1>2. ASSUME NEW r \in Replica, BeginSweep(r) PROVE LeaseInv'
  <2>1. ASSUME NEW s \in Replica, NEW d \in Delivery PROVE LeaseOK(s, d)'
    <3>0. LeaseOK(s, d)
      BY DEF LeaseInv
    <3>1. CASE s # r
      <4>1. sweep'[s][d] = sweep[s][d]
        BY <1>2, <3>1 DEF BeginSweep, TypeOK
      <4> QED BY <1>2, <3>0, <4>1, LeaseFrame DEF BeginSweep
    <3>2. CASE s = r
      <4>1. task'[r][d].pc = "idle"
        BY <1>2 DEF BeginSweep, Quiet
      <4>2. sweep'[r][d] # NULL => Mode[d] = "external"
        BY <1>2 DEF BeginSweep, TypeOK, Hung
      <4> QED BY <3>2, <4>1, <4>2 DEF LeaseOK, InFlight
    <3> QED BY <3>1, <3>2
  <2> QED BY <1>2, <2>1 DEF LeaseInv, OneCallAtATime, InFlight, BeginSweep
<1>3. ASSUME NEW r \in Replica, EndSweep(r) PROVE LeaseInv'
  <2>1. ASSUME NEW s \in Replica, NEW d \in Delivery PROVE LeaseOK(s, d)'
    <3>0. LeaseOK(s, d) /\ LeaseOK(r, d)
      BY DEF LeaseInv
    <3>1. sweep'[s][d] = IF s = r THEN NULL ELSE sweep[s][d]
      BY <1>3 DEF EndSweep, TypeOK, NoSweep
    <3>2. CASE sweep[r][d] = NULL
      <4>1. row'[d] = row[d]
        BY <1>3, <3>2, SMTT(20) DEF EndSweep
      <4> QED BY <1>3, <3>0, <3>1, <3>2, <4>1, LeaseFrame DEF EndSweep
    <3>3. CASE sweep[r][d] # NULL
      <4>1. ~InFlight(s, d)
        BY <3>0, <3>3 DEF LeaseOK, SweepsAlone, InFlight
      <4> QED BY <1>3, <3>0, <3>1, <4>1, SMTT(20) DEF LeaseOK, InFlight, EndSweep
    <3> QED BY <3>2, <3>3
  <2> QED BY <1>3, <2>1 DEF LeaseInv, OneCallAtATime, InFlight, EndSweep
<1>4. ASSUME NEW r \in Replica, Crash(r) PROVE LeaseInv'
  <2>1. ASSUME NEW s \in Replica, NEW d \in Delivery
        PROVE  LeaseOK(s, d)' /\ (InFlight(s, d)' => InFlight(s, d))
    <3>0. LeaseOK(s, d)
      BY DEF LeaseInv
    <3>1. CASE s # r
      <4>1. task'[s][d] = task[s][d] /\ sweep'[s][d] = sweep[s][d]
        BY <1>4, <3>1 DEF Crash, TypeOK
      <4> QED BY <1>4, <3>0, <4>1, LeaseFrame DEF Crash, InFlight
    <3>2. CASE s = r
      <4>1. task'[r][d] = Idle /\ sweep'[r][d] = NULL
        BY <1>4 DEF Crash, TypeOK, NoSweep
      <4> QED BY <3>2, <4>1, LeaseIdle
    <3> QED BY <3>1, <3>2
  <2> QED BY <2>1 DEF LeaseInv, OneCallAtATime
<1>5. ASSUME NEW r \in Replica, NEW d \in Delivery, DispatchOne(r, d)
      PROVE  LeaseInv'
  BY <1>5, LeaseDispatchOne
<1>6. ASSUME NEW d \in Delivery, UNCHANGED <<task, sweep, now>>,
             \A e \in Delivery \ {d} : row'[e] = row[e],
             \/ Unlocked(d)
             \/ /\ row'[d].locked_until = row[d].locked_until
                /\ row'[d].dispatched_at = row[d].dispatched_at
      PROVE  LeaseInv'
  <2>1. ASSUME NEW s \in Replica, NEW e \in Delivery PROVE LeaseOK(s, e)'
    <3>0. LeaseOK(s, e)
      BY DEF LeaseInv
    <3>1. InFlight(s, e) => ~Unlocked(e)
      BY InFlightLocked
    <3> QED BY <1>6, <3>0, <3>1 DEF LeaseOK, InFlight
  <2> QED BY <1>6, <2>1, SMTT(20) DEF LeaseInv, OneCallAtATime, InFlight
<1>7. ASSUME NEW d \in Delivery, RetryDelivery(d) PROVE LeaseInv'
  BY <1>6, <1>7, SetRowValue DEF RetryDelivery
<1>8. ASSUME NEW d \in Delivery, CompleteDelivery(d) PROVE LeaseInv'
  <2>1. row'[d] = [row[d] EXCEPT !.processed = TRUE]
    BY <1>8, SetRowValue DEF CompleteDelivery
  <2>2. /\ row'[d].locked_until = row[d].locked_until
        /\ row'[d].dispatched_at = row[d].dispatched_at
    BY <2>1 DEF TypeOK, Row
  <2> QED BY <1>6, <1>8, <2>2, SetRowValue DEF CompleteDelivery
<1>9. ASSUME NEW d \in Delivery, AbandonDelivery(d) PROVE LeaseInv'
  <2>1. row'[d] = [row[d] EXCEPT !.dead_letter = TRUE]
    BY <1>9, SetRowValue DEF AbandonDelivery
  <2>2. /\ row'[d].locked_until = row[d].locked_until
        /\ row'[d].dispatched_at = row[d].dispatched_at
    BY <2>1 DEF TypeOK, Row
  <2> QED BY <1>6, <1>9, <2>2, SetRowValue DEF AbandonDelivery
<1>10. CASE Tick
  <2>1. ASSUME NEW s \in Replica, NEW d \in Delivery PROVE LeaseOK(s, d)'
    <3>1. LeaseOK(s, d) /\ ~Overdue(s, d)
      BY <1>10 DEF LeaseInv, Tick
    <3>2. task[s][d].at \in Int /\ now \in Int /\ now' = now + 1
      BY <1>10, SMTT(20) DEF Tick, TypeOK, Task
    <3> QED BY <1>10, <3>1, <3>2, Durations DEF LeaseOK, Overdue, InFlight, Tick
  <2> QED BY <1>10, <2>1, SMTT(20) DEF LeaseInv, OneCallAtATime, InFlight, Tick
<1>11. CASE UNCHANGED vars
  <2>1. ASSUME NEW s \in Replica, NEW d \in Delivery PROVE LeaseOK(s, d)'
    BY <1>11, LeaseFrame DEF vars, LeaseInv
  <2> QED BY <1>11, <2>1 DEF LeaseInv, OneCallAtATime, InFlight, vars
<1> QED BY <1>1, <1>2, <1>3, <1>4, <1>5, <1>7, <1>8, <1>9, <1>10, <1>11
        DEF Next, Horizon

(* LeaseInv holds in every reachable state of such a deployment.             *)
LEMMA LeaseInductive ==
    ASSUME LeaseCovered, SameConfig, SweepsAlone
    PROVE  Spec => []LeaseInv
<1>1. Init => LeaseInv
  BY DEF Init, LeaseInv, LeaseOK, OneCallAtATime, InFlight, Idle, NoSweep
<1>2. TypeOK /\ LeaseInv /\ [Next]_vars => LeaseInv'
  BY LeaseStep
<1> QED BY <1>1, <1>2, TypeCorrect, PTL DEF Spec

(* If the database calls fit in lock_buffer, all replicas accept the same    *)
(* specs and no sweep overlaps another replica's dispatch, then a dispatch   *)
(* holds its lease, unexpired, until its write-back.                         *)
THEOREM LeaseSafety ==
    ASSUME LeaseCovered, SameConfig, SweepsAlone
    PROVE  Spec => []LeaseHeld
<1>1. TypeOK /\ LeaseInv => LeaseHeld
  BY InFlightLocked DEF LeaseHeld, LeaseInv, LeaseOK
<1> QED BY <1>1, LeaseInductive, TypeCorrect, PTL

(* Under the same conditions locked_until keeps two replicas from            *)
(* dispatching one row at the same time.                                     *)
THEOREM DispatchExclusive ==
    ASSUME LeaseCovered, SameConfig, SweepsAlone
    PROVE  Spec => []OneCallAtATime
<1>1. LeaseInv => OneCallAtATime
  BY DEF LeaseInv
<1> QED BY <1>1, LeaseInductive, PTL

-------------------------------------------------------------------------------
(* Statements that count no success and leave dispatched_at and cycles of    *)
(* the row alone, without reviving a dispatched dead letter, keep AckOK.     *)
LEMMA AckFrame ==
    ASSUME NEW d \in Delivery, AckOK(d), acks'[d] = acks[d],
           row'[d].dispatched_at = row[d].dispatched_at,
           row'[d].cycles = row[d].cycles,
           row[d].dispatched_at # NULL /\ row[d].dead_letter => row'[d].dead_letter
    PROVE  AckOK(d)'
  BY SMTT(20) DEF AckOK

(* A pending sweep of d is unaffected by what does not count a success.      *)
LEMMA SweepFrame ==
    ASSUME NEW r \in Replica, NEW d \in Delivery, SweepOK(r, d),
           acks'[d] = acks[d], sweep'[r][d] = sweep[r][d]
    PROVE  SweepOK(r, d)'
  BY DEF SweepOK

(* Every step keeps AckInv, given that dispatches hold their leases.         *)
LEMMA AckStep ==
    ASSUME SweepsAlone, TypeOK, LeaseInv, AckInv, [Next]_vars
    PROVE  AckInv'
<1>0. ASSUME NEW e \in Delivery
      PROVE  /\ row[e] \in Row /\ row[e].cycles \in Nat /\ acks[e] \in Nat
             /\ AckOK(e) /\ now \in Int /\ now # NULL
             /\ Mode[e] \in {"managed", "external"}
  BY DispatchAssumption, NullAssumption DEF TypeOK, Row, AckInv
<1>1. ASSUME acks' = acks, row' = row, sweep' = sweep PROVE AckInv'
  BY <1>1 DEF AckInv, AckOK, SweepOK
<1>2. ASSUME acks' = acks, sweep' = sweep, NEW d \in Delivery, NEW x, SetRow(d, x),
             x.dispatched_at = row[d].dispatched_at, x.cycles = row[d].cycles,
             row[d].dispatched_at # NULL /\ row[d].dead_letter => x.dead_letter
      PROVE  AckInv'
  <2>1. ASSUME NEW e \in Delivery PROVE AckOK(e)'
    BY <1>0, <1>2, SetRowValue, AckFrame
  <2>2. ASSUME NEW r \in Replica, NEW e \in Delivery PROVE SweepOK(r, e)'
    BY <1>2, SweepFrame DEF AckInv
  <2> QED BY <2>1, <2>2 DEF AckInv
<1>3. ASSUME NEW r \in Replica, BeginSweep(r) PROVE AckInv'
  <2>1. ASSUME NEW d \in Delivery PROVE AckOK(d)'
    BY <1>0, <1>3, AckFrame DEF BeginSweep
  <2>2. ASSUME NEW s \in Replica, NEW d \in Delivery PROVE SweepOK(s, d)'
    <3>1. CASE s = r /\ Hung(r, d)
      <4>1. sweep'[s][d] = ResetHung(r, d)
        BY <1>3, <3>1 DEF BeginSweep, TypeOK
      <4>2. acks[d] =< row[d].cycles + 1 /\ row[d].cycles < MaxCycles
        BY <1>0, <3>1 DEF AckOK, Hung
      <4>3. /\ acks[d] =< ResetHung(r, d).cycles
            /\ IF ResetHung(r, d).dispatched_at = NULL
               THEN ResetHung(r, d).cycles < MaxCycles
               ELSE /\ ResetHung(r, d).cycles =< MaxCycles
                    /\ ResetHung(r, d).dead_letter
        <5>1. MaxCycles \in Nat /\ row[d].dispatched_at # NULL
          BY <3>1, DispatchAssumption DEF Hung
        <5>2. CASE row[d].cycles + 1 >= MaxCycles
          <6>1. ResetHung(r, d).dead_letter = (row[d].cycles + 1 >= MaxCycles)
            BY Zenon DEF ResetHung
          <6>2. /\ ResetHung(r, d).cycles = row[d].cycles + 1
                /\ ResetHung(r, d).dispatched_at = row[d].dispatched_at
            BY <5>2 DEF ResetHung
          <6>3. ResetHung(r, d).dead_letter
            BY <5>2, <6>1, Zenon
          <6>4. /\ acks[d] =< ResetHung(r, d).cycles
                /\ ResetHung(r, d).cycles =< MaxCycles
            BY <1>0, <4>2, <5>1, <6>2, SMTT(20)
          <6> QED BY <5>1, <6>2, <6>3, <6>4, Zenon
        <5>3. CASE ~(row[d].cycles + 1 >= MaxCycles)
          BY <1>0, <4>2, <5>1, <5>3, SMTT(20) DEF ResetHung
        <5> QED BY <5>2, <5>3
      <4> QED BY <1>3, <4>1, <4>3 DEF SweepOK, BeginSweep
    <3>2. CASE s = r /\ ~Hung(r, d)
      BY <1>3, <3>2 DEF BeginSweep, TypeOK, SweepOK
    <3>3. CASE s # r
      <4>1. sweep'[s][d] = sweep[s][d]
        BY <1>3, <3>3 DEF BeginSweep, TypeOK
      <4> QED BY <1>3, <4>1, SweepFrame DEF BeginSweep, AckInv
    <3> QED BY <3>1, <3>2, <3>3
  <2> QED BY <2>1, <2>2, SMTT(20) DEF AckInv
<1>4. ASSUME NEW r \in Replica, EndSweep(r) PROVE AckInv'
  <2>1. ASSUME NEW d \in Delivery PROVE AckOK(d)'
    <3>1. CASE sweep[r][d] = NULL
      <4>1. row'[d] = row[d]
        BY <1>4, <3>1 DEF EndSweep
      <4> QED BY <1>0, <1>4, <4>1, AckFrame DEF EndSweep
    <3>2. CASE sweep[r][d] # NULL
      <4> DEFINE u == sweep[r][d]
      <4>1. u \in SweepUpdate /\ Mode[d] = "external" /\ SweepOK(r, d)
        BY <3>2 DEF TypeOK, LeaseInv, LeaseOK, AckInv
      <4>2. row'[d] = Swept(d, u)
        BY <1>4, <3>2 DEF EndSweep
      <4>3. /\ row'[d].dispatched_at = u.dispatched_at /\ row'[d].cycles = u.cycles
            /\ row'[d].dead_letter = u.dead_letter
        BY <1>0, <4>1, <4>2 DEF Swept, Row
      <4>4. u.cycles \in Nat
        BY <4>1 DEF SweepUpdate
      <4> QED BY <1>4, <3>2, <4>1, <4>3, <4>4, SMTT(20) DEF AckOK, SweepOK, EndSweep
    <3> QED BY <3>1, <3>2
  <2>2. ASSUME NEW s \in Replica, NEW d \in Delivery PROVE SweepOK(s, d)'
    <3>1. sweep'[s][d] = IF s = r THEN NULL ELSE sweep[s][d]
      BY <1>4 DEF EndSweep, TypeOK, NoSweep
    <3> QED BY <1>4, <3>1 DEF EndSweep, AckInv, SweepOK
  <2> QED BY <2>1, <2>2 DEF AckInv
<1>5. ASSUME NEW r \in Replica, Crash(r) PROVE AckInv'
  <2>1. ASSUME NEW s \in Replica, NEW d \in Delivery PROVE SweepOK(s, d)'
    <3>1. sweep'[s][d] = IF s = r THEN NULL ELSE sweep[s][d]
      BY <1>5 DEF Crash, TypeOK, NoSweep
    <3> QED BY <1>5, <3>1 DEF Crash, AckInv, SweepOK
  <2> QED BY <1>5, <2>1, SMTT(20) DEF Crash, AckInv, AckOK
<1>6. ASSUME NEW r \in Replica, NEW d \in Delivery, DispatchOne(r, d)
      PROVE  AckInv'
  <2>1. CASE DeadLetterPoison(r, d)
    <3> DEFINE x == [row[d] EXCEPT !.dead_letter = TRUE, !.locked_until = NULL]
    <3>1. x.dispatched_at = row[d].dispatched_at /\ x.cycles = row[d].cycles /\ x.dead_letter
      BY <1>0 DEF Row
    <3>2. SetRow(d, x)
      BY <2>1 DEF DeadLetterPoison
    <3> HIDE DEF x
    <3> QED BY <1>2, <2>1, <3>1, <3>2 DEF DeadLetterPoison
  <2>2. CASE LockDelivery(r, d)
    <3> DEFINE x == [row[d] EXCEPT !.locked_until = task[r][d].until,
                                   !.attempts = @ + 1]
    <3>1. x.dispatched_at = row[d].dispatched_at /\ x.cycles = row[d].cycles
      BY <1>0 DEF Row
    <3>2. SetRow(d, x) /\ row[d].dispatched_at = NULL
      BY <2>2 DEF LockDelivery, Lockable
    <3> HIDE DEF x
    <3> QED BY <1>2, <2>2, <3>1, <3>2 DEF LockDelivery
  <2>3. CASE MarkFailure(r, d)
    <3>1. row[d].dispatched_at = NULL
      BY <2>3 DEF MarkFailure, LeaseInv, LeaseOK, InFlight
    <3> DEFINE x == [row[d] EXCEPT !.available_at = task[r][d].next,
                                   !.dead_letter = Exhausted(r, d),
                                   !.locked_until = NULL]
    <3>2. x.dispatched_at = row[d].dispatched_at /\ x.cycles = row[d].cycles
      BY <1>0 DEF Row
    <3>3. SetRow(d, x)
      BY <2>3 DEF MarkFailure
    <3> HIDE DEF x
    <3> QED BY <1>2, <2>3, <3>1, <3>2, <3>3 DEF MarkFailure
  <2>4. CASE MarkDispatched(r, d)
    <3>1. row[d].dispatched_at = NULL
      BY <2>4 DEF MarkDispatched, LeaseInv, LeaseOK, InFlight
    <3>2. row'[d].dispatched_at = now /\ row'[d].cycles = row[d].cycles
      <4>1. row'[d] = [row[d] EXCEPT !.dispatched_at = now,
                                     !.processed = @ \/ Mode[d] = "managed",
                                     !.locked_until = NULL]
        BY <2>4, SetRowValue DEF MarkDispatched
      <4> QED BY <1>0, <4>1 DEF Row
    <3>3. acks'[d] = acks[d] + 1
      BY <2>4 DEF MarkDispatched, TypeOK
    <3>4. AckOK(d)'
      BY <1>0, <3>1, <3>2, <3>3 DEF AckOK
    <3>5. ASSUME NEW e \in Delivery, e # d PROVE AckOK(e)'
      <4>1. row'[e] = row[e] /\ acks'[e] = acks[e]
        BY <2>4, <3>5, SetRowValue DEF MarkDispatched, TypeOK
      <4> QED BY <1>0, <4>1, AckFrame
    <3>6. ASSUME NEW s \in Replica, NEW e \in Delivery PROVE SweepOK(s, e)'
      <4>1. CASE e = d
        <5>1. sweep[s][d] = NULL
          BY <2>4 DEF MarkDispatched, LeaseInv, LeaseOK, SweepsAlone
        <5> QED BY <2>4, <4>1, <5>1 DEF MarkDispatched, SweepOK
      <4>2. CASE e # d
        <5>1. acks'[e] = acks[e]
          BY <2>4, <4>2 DEF MarkDispatched, TypeOK
        <5> QED BY <2>4, <5>1, SweepFrame DEF MarkDispatched, AckInv
      <4> QED BY <4>1, <4>2
    <3> QED BY <3>4, <3>5, <3>6 DEF AckInv
  <2>5. CASE acks' = acks /\ row' = row /\ sweep' = sweep
    BY <1>1, <2>5
  <2> QED BY <1>6, <2>1, <2>2, <2>3, <2>4, <2>5
          DEF DispatchOne, PoisonError, BeginLock, LockRefused, LockError, StartCall,
              CallOk, CallFailed, CallTimedOut, WriteError
<1>7. ASSUME NEW d \in Delivery, RetryDelivery(d) PROVE AckInv'
  <2>1. row'[d] = FreshRow(now) /\ acks'[d] = 0
    BY <1>7, SetRowValue, SMTT(20) DEF RetryDelivery, TypeOK
  <2>2. AckOK(d)'
    BY <1>0, <2>1, DispatchAssumption DEF AckOK, FreshRow
  <2>3. ASSUME NEW e \in Delivery, e # d PROVE AckOK(e)'
    <3>1. row'[e] = row[e] /\ acks'[e] = acks[e]
      BY <1>7, <2>3, SetRowValue DEF RetryDelivery, TypeOK
    <3> QED BY <1>0, <3>1, AckFrame
  <2>4. ASSUME NEW s \in Replica, NEW e \in Delivery PROVE SweepOK(s, e)'
    <3>1. CASE e = d
      <4>1. sweep[s][d] # NULL => sweep[s][d].cycles \in Nat
        BY DEF TypeOK, SweepUpdate
      <4> QED BY <1>7, <2>1, <3>1, <4>1 DEF RetryDelivery, AckInv, SweepOK
    <3>2. CASE e # d
      <4>1. acks'[e] = acks[e]
        BY <1>7, <3>2 DEF RetryDelivery, TypeOK
      <4> QED BY <1>7, <4>1, SweepFrame DEF RetryDelivery, AckInv
    <3> QED BY <3>1, <3>2, SMTT(20)
  <2> QED BY <2>2, <2>3, <2>4 DEF AckInv
<1>8. ASSUME NEW d \in Delivery, CompleteDelivery(d) PROVE AckInv'
  <2> DEFINE x == [row[d] EXCEPT !.processed = TRUE]
  <2>1. x.dispatched_at = row[d].dispatched_at /\ x.cycles = row[d].cycles
    BY <1>0 DEF Row
  <2>2. x.dead_letter = row[d].dead_letter
    BY <1>0 DEF Row
  <2>3. SetRow(d, x)
    BY <1>8 DEF CompleteDelivery
  <2> HIDE DEF x
  <2> QED BY <1>2, <1>8, <2>1, <2>2, <2>3 DEF CompleteDelivery
<1>9. ASSUME NEW d \in Delivery, AbandonDelivery(d) PROVE AckInv'
  <2> DEFINE x == [row[d] EXCEPT !.dead_letter = TRUE]
  <2>1. x.dispatched_at = row[d].dispatched_at /\ x.cycles = row[d].cycles
    BY <1>0 DEF Row
  <2>2. x.dead_letter
    BY <1>0 DEF Row
  <2>3. SetRow(d, x)
    BY <1>9 DEF AbandonDelivery
  <2> HIDE DEF x
  <2> QED BY <1>2, <1>9, <2>1, <2>2, <2>3 DEF AbandonDelivery
<1> QED BY <1>1, <1>3, <1>4, <1>5, <1>6, <1>7, <1>8, <1>9, Zenon
        DEF Next, Horizon, Fetch, Tick, vars

(* AckInv holds in every reachable state of such a deployment.               *)
LEMMA AckInductive ==
    ASSUME LeaseCovered, SameConfig, SweepsAlone
    PROVE  Spec => []AckInv
<1>1. Init => AckInv
  BY DispatchAssumption DEF Init, AckInv, AckOK, SweepOK, FreshRow, NoSweep
<1>2. TypeOK /\ LeaseInv /\ AckInv /\ [Next]_vars => AckInv'
  BY AckStep
<1> QED BY <1>1, <1>2, LeaseInductive, TypeCorrect, PTL DEF Spec

(* Under the conditions of LeaseSafety a managed row records at most one     *)
(* success between operator retries, and an external row at most             *)
(* max_completion_cycles.                                                    *)
THEOREM AckSafety ==
    ASSUME LeaseCovered, SameConfig, SweepsAlone
    PROVE  Spec => []AcksBounded
<1>1. TypeOK /\ AckInv => AcksBounded
  <2> SUFFICES ASSUME TypeOK, AckInv, NEW d \in Delivery
               PROVE  acks[d] =< IF Mode[d] = "managed" THEN 1 ELSE MaxCycles
    BY DEF AcksBounded
  <2>1. /\ AckOK(d) /\ acks[d] \in Nat /\ row[d].cycles \in Nat /\ MaxCycles \in Nat
    BY DispatchAssumption DEF TypeOK, Row, AckInv
  <2> QED BY <2>1 DEF AckOK
<1> QED BY <1>1, AckInductive, TypeCorrect, PTL

-----------------------------------------------------------------------------

(* What does not kill the row or take its request back keeps AliveOK.        *)
LEMMA AliveFrame ==
    ASSUME NEW r \in Replica, NEW d \in Delivery, AliveOK(r, d),
           task'[r][d].pc = task[r][d].pc, sweep'[r][d] = sweep[r][d],
           row'[d].dead_letter => row[d].dead_letter,
           lastSent'[d] = lastSent[d] \/ lastSent'[d] > 0
    PROVE  AliveOK(r, d)'
  BY DEF AliveOK, InFlight

(* While (r, d) is in flight, or about to dead-letter a poisoned row, nobody *)
(* else is in flight on d and no sweep holds d.                              *)
LEMMA Alone ==
    ASSUME SameConfig, SweepsAlone, LeaseInv, NEW r \in Replica, NEW d \in Delivery,
           InFlight(r, d) \/ task[r][d].pc = "poison"
    PROVE  \A s \in Replica : /\ s # r => ~InFlight(s, d)
                              /\ sweep[s][d] = NULL
<1> SUFFICES ASSUME NEW s \in Replica
             PROVE  (s # r => ~InFlight(s, d)) /\ sweep[s][d] = NULL
  OBVIOUS
<1>1. LeaseOK(r, d) /\ LeaseOK(s, d)
  BY DEF LeaseInv
<1>2. s # r => ~InFlight(s, d)
  <2>1. CASE InFlight(r, d)
    BY <2>1, SMTT(20) DEF LeaseInv, OneCallAtATime
  <2>2. CASE task[r][d].pc = "poison"
    BY <1>1, <2>2, SMTT(20) DEF LeaseOK, InFlight, SameConfig
  <2> QED BY <2>1, <2>2
<1>3. sweep[s][d] = NULL
  BY <1>1 DEF LeaseOK, InFlight, SweepsAlone
<1> QED BY <1>2, <1>3

(* A step of (r, d) keeps AliveInv if it keeps AliveOK(r, d) and changes the *)
(* row or its request number only for itself.                                *)
LEMMA AliveLocal ==
    ASSUME TypeOK, AliveInv, NEW r \in Replica, NEW d \in Delivery,
           NEW t, SetTask(r, d, t), sweep' = sweep,
           \A e \in Delivery \ {d} : row'[e] = row[e] /\ lastSent'[e] = lastSent[e],
           lastSent'[d] = lastSent[d] \/ lastSent'[d] > 0,
           \/ row'[d].dead_letter => row[d].dead_letter
           \/ \A s \in Replica : (s # r => ~InFlight(s, d)) /\ sweep[s][d] = NULL,
           AliveOK(r, d)'
    PROVE  AliveInv'
<1> SUFFICES ASSUME NEW s \in Replica, NEW e \in Delivery PROVE AliveOK(s, e)'
  BY DEF AliveInv
<1>1. CASE s = r /\ e = d
  BY <1>1
<1>2. CASE ~(s = r /\ e = d)
  <2>1. task'[s][e] = task[s][e] /\ AliveOK(s, e)
    BY <1>2, SetTaskValue, SMTT(20) DEF AliveInv
  <2>2. CASE row'[e].dead_letter => row[e].dead_letter
    BY <2>1, <2>2, AliveFrame, SMTT(20)
  <2>3. CASE e = d /\ (s # r => ~InFlight(s, d)) /\ sweep[s][d] = NULL
    BY <1>2, <2>1, <2>3 DEF AliveOK, InFlight
  <2> QED BY <2>2, <2>3, SMTT(20)
<1> QED BY <1>1, <1>2, SMTT(20)

(* Every step of dispatch_one keeps AliveInv.                                *)
LEMMA AliveDispatchOne ==
    ASSUME SameConfig, SweepsAlone, TypeOK, LeaseInv, AliveInv,
           NEW r \in Replica, NEW d \in Delivery, DispatchOne(r, d)
    PROVE  AliveInv'
<1> DEFINE t == task[r][d]
<1>0. /\ t \in Task /\ row[d] \in Row /\ AliveOK(r, d) /\ LeaseOK(r, d)
      /\ lastSent \in [Delivery -> Nat]
  BY SMTT(20) DEF TypeOK, AliveInv, LeaseInv
<1>1. ASSUME SetTask(r, d, Idle), t.pc # "idle", sweep' = sweep, lastSent' = lastSent,
             \A e \in Delivery \ {d} : row'[e] = row[e],
             \/ row'[d] = row[d]
             \/ row'[d].dead_letter => row[d].dead_letter
             \/ \A s \in Replica : (s # r => ~InFlight(s, d)) /\ sweep[s][d] = NULL
      PROVE  AliveInv'
  <2>1. task'[r][d].pc = "idle" /\ sweep'[r][d] = NULL
    BY <1>0, <1>1, SetTaskValue DEF Idle, LeaseOK
  <2>2. AliveOK(r, d)'
    BY <2>1, SMTT(20) DEF AliveOK, InFlight
  <2> QED BY <1>1, <2>2, AliveLocal, SMTT(20)
<1>2. ASSUME NEW u, SetTask(r, d, u), sweep' = sweep,
             \A e \in Delivery \ {d} : row'[e] = row[e] /\ lastSent'[e] = lastSent[e],
             row'[d].dead_letter => row[d].dead_letter,
             lastSent'[d] = lastSent[d] \/ lastSent'[d] > 0,
             t.pc # "idle",
             u.pc \in {"locked", "calling", "writing"} => ~row'[d].dead_letter,
             u.pc \in {"calling", "writing"} => lastSent'[d] > 0
      PROVE  AliveInv'
  <2>1. task'[r][d] = u
    BY <1>2, SetTaskValue, SMTT(20)
  <2>2. sweep'[r][d] = NULL
    BY <1>0, <1>2, Zenon DEF LeaseOK
  <2>3. AliveOK(r, d)'
    BY <1>2, <2>1, <2>2, Zenon DEF AliveOK, InFlight
  <2> QED BY <1>2, <2>3, AliveLocal, SMTT(20)
<1>3. CASE DeadLetterPoison(r, d)
  BY <1>1, <1>3, Alone, SetRowValue DEF DeadLetterPoison
<1>4. CASE PoisonError(r, d)
  BY <1>1, <1>4 DEF PoisonError
<1>5. CASE BeginLock(r, d)
  <2> DEFINE u == [t EXCEPT !.pc = "locking", !.at = now, !.until = LockUntil(r)]
  <2>1. u.pc = "locking" /\ SetTask(r, d, u)
    BY <1>0, <1>5 DEF Task, BeginLock
  <2> HIDE DEF u
  <2> QED BY <1>2, <1>5, <2>1 DEF BeginLock
<1>6. CASE LockDelivery(r, d)
  <2> DEFINE u == [t EXCEPT !.pc = "locked"]
  <2>1. u.pc = "locked" /\ SetTask(r, d, u)
    BY <1>0, <1>6 DEF Task, LockDelivery
  <2>2. row'[d] = [row[d] EXCEPT !.locked_until = t.until, !.attempts = @ + 1]
    BY <1>6, SetRowValue DEF LockDelivery
  <2>3. row'[d].dead_letter = row[d].dead_letter
    BY <1>0, <2>2 DEF Row
  <2>4. ~row[d].dead_letter /\ t.pc = "locking"
    BY <1>6 DEF LockDelivery, Lockable
  <2>5. \A e \in Delivery \ {d} : row'[e] = row[e]
    BY <1>6, SetRowValue, SMTT(20) DEF LockDelivery
  <2> HIDE DEF u
  <2> QED BY <1>2, <1>6, <2>1, <2>3, <2>4, <2>5 DEF LockDelivery
<1>7. CASE LockRefused(r, d)
  BY <1>1, <1>7, SMTT(20) DEF LockRefused
<1>8. CASE LockError(r, d)
  BY <1>1, <1>8 DEF LockError
<1>9. CASE StartCall(r, d)
  <2> DEFINE u == [t EXCEPT !.pc = "calling", !.at = now]
  <2>1. u.pc = "calling" /\ SetTask(r, d, u)
    BY <1>0, <1>9 DEF Task, StartCall
  <2>2. t.pc = "locked" /\ ~row[d].dead_letter
    BY <1>0, <1>9 DEF StartCall, AliveOK, InFlight
  <2>3. lastSent'[d] = t.attempts + 1 /\ t.attempts \in Nat
    BY <1>0, <1>9 DEF StartCall, Task
  <2>4. lastSent'[d] > 0
    BY <2>3
  <2>5. \A e \in Delivery \ {d} : lastSent'[e] = lastSent[e]
    BY <1>0, <1>9 DEF StartCall
  <2> HIDE DEF u
  <2> QED BY <1>2, <1>9, <2>1, <2>2, <2>4, <2>5 DEF StartCall
<1>10. ASSUME t.pc = "calling", NEW u, SetTask(r, d, u), u.pc = "writing",
              UNCHANGED <<row, sweep, lastSent>>
       PROVE  AliveInv'
  <2>1. ~row[d].dead_letter /\ lastSent[d] > 0
    BY <1>0, <1>10 DEF AliveOK, InFlight
  <2> QED BY <1>2, <1>10, <2>1
<1>11. CASE CallOk(r, d)
  <2> DEFINE u == [t EXCEPT !.pc = "writing", !.at = now, !.ok = TRUE]
  <2>1. u.pc = "writing" /\ SetTask(r, d, u)
    BY <1>0, <1>11 DEF Task, CallOk
  <2> HIDE DEF u
  <2> QED BY <1>10, <1>11, <2>1 DEF CallOk
<1>12. ASSUME NEW a, FailCall(r, d, a), t.pc = "calling",
              UNCHANGED <<row, sweep, lastSent>>
       PROVE  AliveInv'
  <2>1. PICK n : SetTask(r, d, [t EXCEPT !.pc = "writing", !.at = now, !.ok = FALSE,
                                         !.next = n])
    BY <1>12, Zenon DEF FailCall
  <2>2. [t EXCEPT !.pc = "writing", !.at = now, !.ok = FALSE, !.next = n].pc = "writing"
    BY <1>0 DEF Task
  <2> QED BY <1>10, <1>12, <2>1, <2>2, Zenon
<1>13. CASE CallFailed(r, d)
  BY <1>12, <1>13 DEF CallFailed
<1>14. CASE CallTimedOut(r, d)
  BY <1>12, <1>14 DEF CallTimedOut
<1>15. CASE MarkDispatched(r, d)
  BY <1>1, <1>15, Alone, SetRowValue DEF MarkDispatched, InFlight
<1>16. CASE MarkFailure(r, d)
  BY <1>1, <1>16, Alone, SetRowValue, SMTT(20) DEF MarkFailure, InFlight
<1>17. CASE WriteError(r, d)
  BY <1>1, <1>17 DEF WriteError
<1> QED BY <1>3, <1>4, <1>5, <1>6, <1>7, <1>8, <1>9, <1>11, <1>13, <1>14, <1>15,
          <1>16, <1>17, SMTT(20) DEF DispatchOne

(* Every step keeps AliveInv when operators abandon nothing.                 *)
LEMMA AliveStep ==
    ASSUME SameConfig, SweepsAlone, NoAbandon, TypeOK, LeaseInv, AliveInv, [Next]_vars
    PROVE  AliveInv'
<1>0. ASSUME NEW s \in Replica, NEW e \in Delivery
      PROVE  AliveOK(s, e) /\ LeaseOK(s, e) /\ row[e] \in Row
  BY DEF AliveInv, LeaseInv, TypeOK
<1>1. ASSUME NEW r \in Replica, Fetch(r) PROVE AliveInv'
  <2> SUFFICES ASSUME NEW s \in Replica, NEW e \in Delivery PROVE AliveOK(s, e)'
    BY DEF AliveInv
  <2>1. CASE s # r
    <3>1. task'[s][e] = task[s][e]
      BY <1>1, <2>1, Zenon DEF Fetch, TypeOK
    <3> QED BY <1>0, <1>1, <3>1, AliveFrame, Zenon DEF Fetch
  <2>2. CASE s = r
    <3>1. task'[r][e].pc \in {"idle", "poison", "fetched"} /\ sweep'[r][e] = NULL
      BY <1>1, Zenon DEF Fetch, TypeOK, Idle, Quiet, NoSweep
    <3> QED BY <2>2, <3>1 DEF AliveOK, InFlight
  <2> QED BY <2>1, <2>2
<1>2. ASSUME NEW r \in Replica, BeginSweep(r) PROVE AliveInv'
  <2> SUFFICES ASSUME NEW s \in Replica, NEW e \in Delivery PROVE AliveOK(s, e)'
    BY DEF AliveInv
  <2>1. CASE sweep'[s][e] = sweep[s][e]
    BY <1>0, <1>2, <2>1, AliveFrame, SMTT(20) DEF BeginSweep
  <2>2. CASE s = r /\ Hung(r, e)
    BY <1>0, <1>2, <2>2, SMTT(20) DEF AliveOK, InFlight, BeginSweep, Hung
  <2>3. CASE s = r /\ ~Hung(r, e)
    <3>1. sweep'[r][e] = NULL
      BY <1>2, <2>3 DEF BeginSweep, TypeOK
    <3> QED BY <1>0, <1>2, <2>3, <3>1, Zenon DEF AliveOK, InFlight, BeginSweep
  <2>4. s # r => sweep'[s][e] = sweep[s][e]
    BY <1>2 DEF BeginSweep, TypeOK
  <2> QED BY <2>1, <2>2, <2>3, <2>4, SMTT(20)
<1>3. ASSUME NEW r \in Replica, EndSweep(r) PROVE AliveInv'
  <2> SUFFICES ASSUME NEW s \in Replica, NEW e \in Delivery PROVE AliveOK(s, e)'
    BY DEF AliveInv
  <2>1. sweep'[s][e] = IF s = r THEN NULL ELSE sweep[s][e]
    BY <1>3, SMTT(20) DEF EndSweep, TypeOK, NoSweep
  <2>2. CASE sweep[r][e] = NULL
    <3>1. row'[e] = row[e]
      BY <1>3, <2>2 DEF EndSweep
    <3> QED BY <1>0, <1>3, <2>1, <2>2, <3>1, SMTT(20) DEF AliveOK, InFlight, EndSweep
  <2>3. CASE sweep[r][e] # NULL
    <3>1. s = r
      BY <1>0, <2>3, SMTT(20) DEF LeaseOK, SweepsAlone
    <3>2. task[r][e].pc = "idle"
      BY <1>0, <2>3, SMTT(20) DEF LeaseOK
    <3> QED BY <1>3, <2>1, <3>1, <3>2, SMTT(20) DEF AliveOK, InFlight, EndSweep
  <2> QED BY <2>2, <2>3
<1>4. ASSUME NEW r \in Replica, Crash(r) PROVE AliveInv'
  <2> SUFFICES ASSUME NEW s \in Replica, NEW e \in Delivery PROVE AliveOK(s, e)'
    BY DEF AliveInv
  <2>1. CASE s # r
    <3>1. task'[s][e] = task[s][e] /\ sweep'[s][e] = sweep[s][e]
      BY <1>4, <2>1, SMTT(20) DEF Crash, TypeOK
    <3> QED BY <1>0, <1>4, <3>1, AliveFrame DEF Crash
  <2>2. CASE s = r
    <3>1. task'[r][e] = Idle /\ sweep'[r][e] = NULL
      BY <1>4 DEF Crash, TypeOK, NoSweep
    <3> QED BY <2>2, <3>1, SMTT(20) DEF AliveOK, InFlight, Idle
  <2> QED BY <2>1, <2>2
<1>5. ASSUME NEW r \in Replica, NEW d \in Delivery, DispatchOne(r, d) PROVE AliveInv'
  BY <1>5, AliveDispatchOne
<1>6. ASSUME NEW d \in Delivery, RetryDelivery(d) PROVE AliveInv'
  <2> SUFFICES ASSUME NEW s \in Replica, NEW e \in Delivery PROVE AliveOK(s, e)'
    BY SMTT(20) DEF AliveInv
  <2>1. CASE e = d
    <3>1. ~InFlight(s, d) /\ row'[d] = FreshRow(now)
      BY <1>6, InFlightLocked, SetRowValue DEF RetryDelivery
    <3>2. ~row'[d].dead_letter
      BY <3>1, SMTT(20) DEF FreshRow
    <3> QED BY <1>6, <2>1, <3>1, <3>2, SMTT(20) DEF AliveOK, InFlight, RetryDelivery
  <2>2. CASE e # d
    <3>1. row'[e] = row[e] /\ lastSent'[e] = lastSent[e]
      BY <1>6, <2>2, SetRowValue DEF RetryDelivery, TypeOK
    <3> QED BY <1>0, <1>6, <3>1, AliveFrame DEF RetryDelivery
  <2> QED BY <2>1, <2>2
<1>7. ASSUME NEW d \in Delivery, CompleteDelivery(d) PROVE AliveInv'
  <2> SUFFICES ASSUME NEW s \in Replica, NEW e \in Delivery PROVE AliveOK(s, e)'
    BY DEF AliveInv
  <2>1. row'[e] = IF e = d THEN [row[d] EXCEPT !.processed = TRUE] ELSE row[e]
    BY <1>7, SetRowValue DEF CompleteDelivery
  <2>2. row'[e].dead_letter = row[e].dead_letter
    BY <1>0, <2>1 DEF Row
  <2> QED BY <1>0, <1>7, <2>2, AliveFrame DEF CompleteDelivery
<1>8. ASSUME NEW d \in Delivery, AbandonDelivery(d) PROVE AliveInv'
  BY <1>8, SMTT(20) DEF AbandonDelivery, NoAbandon
<1>9. ASSUME UNCHANGED <<row, task, sweep, lastSent>> PROVE AliveInv'
  BY <1>9 DEF AliveInv, AliveOK, InFlight
<1> QED BY <1>1, <1>2, <1>3, <1>4, <1>5, <1>6, <1>7, <1>8, <1>9
        DEF Next, Tick, Horizon, vars

-------------------------------------------------------------------------------
(* A row whose observable columns do not change stays where it is.           *)
LEMMA LifeSame ==
    ASSUME NEW d \in Delivery, acks'[d] = acks[d], lastSent'[d] = lastSent[d],
           row'[d].processed = row[d].processed,
           row'[d].dead_letter = row[d].dead_letter,
           row'[d].dispatched_at = row[d].dispatched_at
    PROVE  LifeOf(d)' = LifeOf(d)
  BY DEF LifeOf, StatusOf

(* The abstract state of a row is read off that row.                         *)
LEMMA LivesValue ==
    ASSUME NEW d \in Delivery
    PROVE  Lives[d] = LifeOf(d) /\ Lives'[d] = LifeOf(d)'
  BY DEF Lives

(* Its fields, before and after a step.                                      *)
LEMMA LifeFields ==
    ASSUME NEW d \in Delivery
    PROVE  /\ Lives[d].status = StatusOf(row[d])
           /\ Lives[d].sent = (lastSent[d] > 0)
           /\ Lives[d].recorded = acks[d]
           /\ Lives'[d] = [status |-> StatusOf(row'[d]), sent |-> lastSent'[d] > 0,
                           recorded |-> acks'[d]]
<1>1. /\ LifeOf(d).status = StatusOf(row[d])
      /\ LifeOf(d).sent = (lastSent[d] > 0)
      /\ LifeOf(d).recorded = acks[d]
  BY Zenon DEF LifeOf
<1>2. LifeOf(d)' = [status |-> StatusOf(row'[d]), sent |-> lastSent'[d] > 0,
                    recorded |-> acks'[d]]
  BY Zenon DEF LifeOf
<1> QED BY <1>1, <1>2, LivesValue, Zenon

(* The step of the abstract state follows from the steps of the rows.        *)
LEMMA LifeNext ==
    ASSUME \A e \in Delivery :
                \/ LifeOf(e)' = LifeOf(e)
                \/ L!Step(e)
    PROVE  L!Next
  BY LivesValue DEF L!Next

(* Recording a success is Lifecycle's Deliver.                               *)
LEMMA DeliverStep ==
    ASSUME SameConfig, SweepsAlone, TypeOK, LeaseInv, AckInv, AliveInv,
           NEW r \in Replica, NEW d \in Delivery, MarkDispatched(r, d)
    PROVE  L!Deliver(d)
<1>0. /\ row[d] \in Row /\ acks \in [Delivery -> Nat] /\ now # NULL
      /\ MaxCycles \in Nat \ {0} /\ Mode[d] \in {"managed", "external"}
  BY DispatchAssumption, NullAssumption DEF TypeOK
<1>1. /\ AckOK(d) /\ AliveOK(r, d) /\ LeaseOK(r, d) /\ lastSent' = lastSent
      /\ task[r][d].pc = "writing"
  BY SMTT(20) DEF AckInv, AliveInv, LeaseInv, MarkDispatched
<1>2. row[d].dispatched_at = NULL /\ ~row[d].dead_letter /\ lastSent[d] > 0
  BY <1>1, SMTT(20) DEF AliveOK, LeaseOK, InFlight
<1>3. acks[d] < L!Limit(d)
  BY <1>0, <1>1, <1>2 DEF AckOK, L!Limit, Row
<1>4. acks'[d] = acks[d] + 1
  BY <1>0 DEF MarkDispatched
<1>5. row'[d] = [row[d] EXCEPT !.dispatched_at = now,
                               !.processed = @ \/ Mode[d] = "managed",
                               !.locked_until = NULL]
  BY SetRowValue DEF MarkDispatched
<1>6. /\ row'[d].dispatched_at = now
      /\ row'[d].dead_letter = row[d].dead_letter
      /\ row'[d].processed = (row[d].processed \/ Mode[d] = "managed")
  BY <1>0, <1>5 DEF Row
<1>7. StatusOf(row[d]) = IF row[d].processed THEN "done" ELSE "pending"
  BY <1>2 DEF StatusOf
<1>8. StatusOf(row'[d]) = IF row[d].processed \/ Mode[d] = "managed"
                          THEN "done" ELSE "accepted"
  BY <1>0, <1>2, <1>6, Zenon DEF StatusOf
<1>9. /\ Lives[d] = [status |-> StatusOf(row[d]), sent |-> TRUE, recorded |-> acks[d]]
      /\ Lives'[d] = [status |-> StatusOf(row'[d]), sent |-> TRUE,
                      recorded |-> acks[d] + 1]
  BY <1>1, <1>2, <1>4, LivesValue, ZenonT(30) DEF LifeOf
<1>10. /\ Lives[d].status = StatusOf(row[d]) /\ Lives[d].sent
       /\ Lives[d].recorded = acks[d]
  BY <1>9
<1> QED BY <1>3, <1>7, <1>8, <1>9, <1>10, Zenon DEF L!Deliver, L!Become

(* A row that leaves pending or accepted for dead has been given up.         *)
LEMMA GiveUpStep ==
    ASSUME NEW d \in Delivery, acks'[d] = acks[d], lastSent'[d] = lastSent[d],
           row'[d].processed = row[d].processed, ~row[d].dead_letter,
           row'[d].dead_letter, ~row[d].processed
    PROVE  L!GiveUp(d)
<1>1. StatusOf(row[d]) \in {"pending", "accepted"} /\ StatusOf(row'[d]) = "dead"
  BY DEF StatusOf
<1> QED BY <1>1, LifeFields, ZenonT(30) DEF L!GiveUp, L!Become

(* Every step of dispatch_one is a step of its row's life or invisible.      *)
LEMMA LifeDispatchOne ==
    ASSUME SameConfig, SweepsAlone, TypeOK, LeaseInv, AckInv, AliveInv,
           NEW r \in Replica, NEW d \in Delivery, DispatchOne(r, d)
    PROVE  L!Next
<1>0. /\ row[d] \in Row /\ LeaseOK(r, d) /\ AliveOK(r, d) /\ acks \in [Delivery -> Nat]
      /\ lastSent \in [Delivery -> Nat] /\ task[r][d] \in Task
  BY DEF TypeOK, LeaseInv, AliveInv
<1>1. ASSUME NEW x, SetRow(d, x), acks' = acks, lastSent' = lastSent,
             \/ /\ x.processed = row[d].processed
                /\ x.dead_letter = row[d].dead_letter
                /\ x.dispatched_at = row[d].dispatched_at
             \/ row[d].processed /\ x.processed
             \/ row[d].dead_letter /\ x.dead_letter /\ x.processed = row[d].processed
             \/ L!Step(d)
      PROVE  L!Next
  <2> SUFFICES ASSUME NEW e \in Delivery PROVE LifeOf(e)' = LifeOf(e) \/ L!Step(e)
    BY LifeNext, SMTT(20)
  <2>1. row'[e] = IF e = d THEN x ELSE row[e]
    BY <1>1, SetRowValue, SMTT(20)
  <2>2. CASE e # d
    BY <1>1, <2>1, <2>2, LifeSame, SMTT(20)
  <2>3. CASE e = d
    BY <1>1, <2>1, <2>3, SMTT(20) DEF LifeOf, StatusOf
  <2> QED BY <2>2, <2>3
<1>2. ASSUME row' = row, acks' = acks, lastSent' = lastSent PROVE L!Next
  BY <1>2, LifeSame, LifeNext
<1>3. CASE DeadLetterPoison(r, d)
  <2> DEFINE x == [row[d] EXCEPT !.dead_letter = TRUE, !.locked_until = NULL]
  <2>1. SetRow(d, x) /\ acks' = acks /\ lastSent' = lastSent
    BY <1>3 DEF DeadLetterPoison
  <2>2. x.processed = row[d].processed /\ x.dead_letter
    BY <1>0 DEF Row
  <2> HIDE DEF x
  <2>3. row'[d] = x
    BY <2>1, SetRowValue, SMTT(20)
  <2>4. CASE ~row[d].processed /\ ~row[d].dead_letter
    <3>1. L!GiveUp(d)
      BY <2>1, <2>2, <2>3, <2>4, GiveUpStep, SMTT(20)
    <3>2. L!Step(d)
      BY <3>1, Zenon DEF L!Step
    <3> QED BY <1>1, <2>1, <3>2, SMTT(20)
  <2>5. CASE row[d].processed \/ row[d].dead_letter
    BY <1>1, <2>1, <2>2, <2>5, SMTT(20)
  <2> QED BY <2>4, <2>5
<1>4. CASE LockDelivery(r, d)
  <2> DEFINE x == [row[d] EXCEPT !.locked_until = task[r][d].until, !.attempts = @ + 1]
  <2>1. SetRow(d, x) /\ acks' = acks /\ lastSent' = lastSent
    BY <1>4 DEF LockDelivery
  <2>2. /\ x.processed = row[d].processed /\ x.dead_letter = row[d].dead_letter
        /\ x.dispatched_at = row[d].dispatched_at
    BY <1>0 DEF Row
  <2> HIDE DEF x
  <2> QED BY <1>1, <2>1, <2>2
<1>5. CASE StartCall(r, d)
  <2>1. lastSent'[d] > 0
    BY <1>0, <1>5 DEF StartCall, Task
  <2>2. ~row[d].dead_letter
    BY <1>0, <1>5 DEF StartCall, AliveOK, InFlight
  <2>3. StatusOf(row[d]) # "dead" /\ row' = row /\ acks' = acks
    BY <1>5, <2>2, SMTT(20) DEF StatusOf, StartCall
  <2>4. L!Send(d)
    <3>1. Lives[d].status = StatusOf(row[d]) /\ Lives[d].recorded = acks[d]
      BY LifeFields, Zenon
    <3>2. Lives'[d] = [status |-> StatusOf(row[d]), sent |-> TRUE, recorded |-> acks[d]]
      BY <2>1, <2>3, LivesValue, Zenon DEF LifeOf
    <3> QED BY <2>3, <3>1, <3>2 DEF L!Send, L!Become
  <2>5. ASSUME NEW e \in Delivery, e # d PROVE LifeOf(e)' = LifeOf(e)
    <3>1. lastSent'[e] = lastSent[e]
      BY <1>0, <1>5, <2>5 DEF StartCall
    <3> QED BY <2>3, <3>1, LifeSame
  <2> QED BY <2>4, <2>5, LifeNext DEF L!Step
<1>6. CASE MarkDispatched(r, d)
  <2>1. L!Deliver(d)
    BY <1>6, DeliverStep
  <2>2. ASSUME NEW e \in Delivery, e # d PROVE LifeOf(e)' = LifeOf(e)
    <3>1. row'[e] = row[e] /\ acks'[e] = acks[e] /\ lastSent' = lastSent
      BY <1>0, <1>6, <2>2, SetRowValue DEF MarkDispatched
    <3> QED BY <3>1, LifeSame
  <2> QED BY <2>1, <2>2, LifeNext DEF L!Step
<1>7. CASE MarkFailure(r, d)
  <2> DEFINE x == [row[d] EXCEPT !.available_at = task[r][d].next,
                                 !.dead_letter = Exhausted(r, d),
                                 !.locked_until = NULL]
  <2>1. SetRow(d, x) /\ acks' = acks /\ lastSent' = lastSent
    BY <1>7 DEF MarkFailure
  <2>2. x.processed = row[d].processed /\ x.dispatched_at = row[d].dispatched_at
    BY <1>0 DEF Row
  <2>3. ~row[d].dead_letter
    BY <1>0, <1>7 DEF MarkFailure, AliveOK, InFlight
  <2> HIDE DEF x
  <2>4. row'[d] = x
    BY <2>1, SetRowValue
  <2>5. CASE row[d].processed
    BY <1>1, <2>1, <2>2, <2>5, ZenonT(30)
  <2>6. CASE ~row[d].processed /\ x.dead_letter
    <3>1. L!GiveUp(d)
      BY <2>1, <2>2, <2>3, <2>4, <2>6, GiveUpStep
    <3>2. L!Step(d)
      BY <3>1, Zenon DEF L!Step
    <3> QED BY <1>1, <2>1, <3>2
  <2>7. CASE ~row[d].processed /\ ~x.dead_letter
    <3> SUFFICES ASSUME NEW e \in Delivery PROVE LifeOf(e)' = LifeOf(e)
      BY LifeNext, SMTT(20)
    <3>1. CASE e = d
      BY <2>1, <2>2, <2>3, <2>4, <2>7, <3>1, SMTT(20) DEF LifeOf, StatusOf
    <3>2. CASE e # d
      BY <2>1, <3>2, SetRowValue, LifeSame
    <3> QED BY <3>1, <3>2
  <2> QED BY <2>5, <2>6, <2>7
<1> QED BY <1>2, <1>3, <1>4, <1>5, <1>6, <1>7
        DEF DispatchOne, PoisonError, BeginLock, LockRefused, LockError,
            CallOk, CallFailed, CallTimedOut, WriteError

(* Every step of the system is a step of Lifecycle.                          *)
LEMMA LifeStep ==
    ASSUME SameConfig, SweepsAlone, NoAbandon, TypeOK, LeaseInv, AckInv, AliveInv,
           [Next]_vars
    PROVE  L!Next
<1>1. ASSUME row' = row, acks' = acks, lastSent' = lastSent PROVE L!Next
  BY <1>1, LifeSame, LifeNext
<1>2. ASSUME NEW r \in Replica, EndSweep(r) PROVE L!Next
  <2> SUFFICES ASSUME NEW d \in Delivery PROVE LifeOf(d)' = LifeOf(d) \/ L!Step(d)
    BY LifeNext
  <2>0. acks' = acks /\ lastSent' = lastSent /\ row[d] \in Row
    BY <1>2 DEF EndSweep, TypeOK
  <2>1. CASE sweep[r][d] = NULL
    <3>1. row'[d] = row[d]
      BY <1>2, <2>1 DEF EndSweep
    <3> QED BY <2>0, <3>1, LifeSame
  <2>2. CASE sweep[r][d] # NULL
    <3> DEFINE u == sweep[r][d]
    <3>1. u \in SweepUpdate /\ SweepOK(r, d) /\ ~row[d].dead_letter
      BY <2>2 DEF TypeOK, AckInv, AliveInv, AliveOK
    <3>2. row'[d] = Swept(d, u)
      BY <1>2, <2>2 DEF EndSweep
    <3>3. /\ row'[d].dispatched_at = u.dispatched_at
          /\ row'[d].dead_letter = u.dead_letter
          /\ row'[d].processed = row[d].processed
      BY <2>0, <3>1, <3>2 DEF Swept, Row
    <3>4. u.dispatched_at # NULL => u.dead_letter
      BY <2>2, <3>1, SMTT(20) DEF SweepOK
    <3> HIDE DEF u
    <3>5. CASE row[d].processed
      BY <2>0, <3>3, <3>5 DEF LifeOf, StatusOf
    <3>6. CASE ~row[d].processed /\ u.dead_letter
      <4>1. L!GiveUp(d)
        BY <2>0, <3>1, <3>3, <3>6, GiveUpStep, Zenon
      <4> QED BY <4>1 DEF L!Step
    <3>7. CASE ~row[d].processed /\ ~u.dead_letter
      <4>1. StatusOf(row'[d]) = "pending"
        BY <3>3, <3>4, <3>7 DEF StatusOf
      <4>2. StatusOf(row[d]) \in {"pending", "accepted"}
        BY <3>1, <3>7, SMTT(20) DEF StatusOf
      <4>3. CASE StatusOf(row[d]) = "pending"
        BY <2>0, <4>1, <4>3, Zenon DEF LifeOf
      <4>4. CASE StatusOf(row[d]) = "accepted"
        <5>1. L!Redeliver(d)
          BY <2>0, <4>1, <4>4, LifeFields, Zenon DEF L!Redeliver, L!Become
        <5> QED BY <5>1 DEF L!Step
      <4> QED BY <4>2, <4>3, <4>4
    <3> QED BY <3>5, <3>6, <3>7
  <2> QED BY <2>1, <2>2
<1>3. ASSUME NEW r \in Replica, NEW d \in Delivery, DispatchOne(r, d) PROVE L!Next
  BY <1>3, LifeDispatchOne
<1>4. ASSUME NEW d \in Delivery, RetryDelivery(d) PROVE L!Next
  <2>1. row'[d] = FreshRow(now) /\ acks'[d] = 0 /\ lastSent'[d] = 0
    BY <1>4, SetRowValue, SMTT(20) DEF RetryDelivery, TypeOK
  <2>2. StatusOf(row'[d]) = "pending"
    BY <2>1 DEF StatusOf, FreshRow
  <2>3. L!Retry(d)
    <3>1. (lastSent'[d] > 0) = FALSE
      BY <2>1, SMTT(20)
    <3> QED BY <2>1, <2>2, <3>1, LifeFields, Zenon DEF L!Retry, L!Become
  <2>4. ASSUME NEW e \in Delivery, e # d PROVE LifeOf(e)' = LifeOf(e)
    <3>1. row'[e] = row[e] /\ acks'[e] = acks[e] /\ lastSent'[e] = lastSent[e]
      BY <1>4, <2>4, SetRowValue DEF RetryDelivery, TypeOK
    <3> QED BY <3>1, LifeSame
  <2> QED BY <2>3, <2>4, LifeNext DEF L!Step
<1>5. ASSUME NEW d \in Delivery, CompleteDelivery(d) PROVE L!Next
  <2>1. row'[d] = [row[d] EXCEPT !.processed = TRUE] /\ row[d] \in Row
    BY <1>5, SetRowValue DEF CompleteDelivery, TypeOK
  <2>2. row'[d].processed
    BY <2>1 DEF Row
  <2>3. StatusOf(row'[d]) = "done" /\ acks' = acks /\ lastSent' = lastSent
    BY <1>5, <2>2 DEF StatusOf, CompleteDelivery
  <2>4. L!Complete(d)
    BY <2>3, LifeFields, Zenon DEF L!Complete, L!Become
  <2>5. ASSUME NEW e \in Delivery, e # d PROVE LifeOf(e)' = LifeOf(e)
    BY <1>5, <2>3, <2>5, SetRowValue, LifeSame DEF CompleteDelivery
  <2> QED BY <2>4, <2>5, LifeNext DEF L!Step
<1>6. ASSUME NEW d \in Delivery, AbandonDelivery(d) PROVE L!Next
  BY <1>6 DEF AbandonDelivery, NoAbandon
<1> QED BY <1>1, <1>2, <1>3, <1>4, <1>5, <1>6, Zenon
        DEF Next, Fetch, BeginSweep, Crash, Tick, Horizon, vars

(* AliveInv holds in every reachable state when operators abandon nothing.   *)
LEMMA AliveInductive ==
    ASSUME LeaseCovered, SameConfig, SweepsAlone, NoAbandon
    PROVE  Spec => []AliveInv
<1>1. Init => AliveInv
  BY DEF Init, AliveInv, AliveOK, InFlight, Idle, NoSweep
<1>2. TypeOK /\ LeaseInv /\ AckInv /\ AliveInv /\ [Next]_vars => AliveInv'
  BY AliveStep
<1> QED BY <1>1, <1>2, LeaseInductive, AckInductive, TypeCorrect, PTL DEF Spec

(* Under the conditions of LeaseSafety, and as long as operators abandon     *)
(* nothing, any number of replicas, rows, crashes and lost write-backs       *)
(* implements Lifecycle.                                                     *)
THEOREM Refinement ==
    ASSUME LeaseCovered, SameConfig, SweepsAlone, NoAbandon
    PROVE  Spec => ImplementsLifecycle
<1>1. Init => L!Init
  <2> SUFFICES ASSUME Init, NEW d \in Delivery
               PROVE  LifeOf(d) = [status |-> "pending", sent |-> FALSE, recorded |-> 0]
    BY DEF L!Init, Lives
  <2>1. StatusOf(row[d]) = "pending" /\ acks[d] = 0
    BY DEF Init, StatusOf, FreshRow
  <2>2. (lastSent[d] > 0) = FALSE
    BY DEF Init
  <2> QED BY <2>1, <2>2, Zenon DEF LifeOf
<1>2. TypeOK /\ LeaseInv /\ AckInv /\ AliveInv /\ [Next]_vars => [L!Next]_Lives
  BY LifeStep
<1> QED BY <1>1, <1>2, AliveInductive, LeaseInductive, AckInductive, TypeCorrect, PTL
        DEF Spec, ImplementsLifecycle, L!Spec
===============================================================================
