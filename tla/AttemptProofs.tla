----------------------------- MODULE AttemptProofs -----------------------------
(***************************************************************************)
(* Theorems about the attempts that Dispatch charges to a row: why a row   *)
(* is given up, how many attempts it may take, when they are made and      *)
(* which number the receiver sees.                                         *)
(***************************************************************************)
EXTENDS DispatchProofs

\* r has row d in its batch, past the poison-pill guard.
Held(r, d) == task[r][d].pc \in {"fetched", "locking", "locked", "calling", "writing"}

\* The attempts that dispatch_one knows to be charged.
Counted(r, d) == task[r][d].attempts + IF InFlight(r, d) THEN 1 ELSE 0

\* No operator calls retry_delivery.
NoRetry == "retry" \notin AdminOps

\* A deployment with a single dispatcher.
OneReplica == \A r, s \in Replica : r = s

\* dispatch_one knows of no attempt that is not charged to the row.
CountsAtMostRow(r, d) == Held(r, d) => Counted(r, d) =< row[d].attempts

\* Every dead letter has one of its three reasons.
DeadForReason(d) ==
    row[d].dead_letter =>
        \/ row[d].attempts >= MaxAttempts
        \/ row[d].cycles >= MaxCycles
        \/ \E r \in Replica : d \in Poison[r]

(* The numbers that the steps compare.                                       *)
LEMMA CountTypes ==
    ASSUME TypeOK, NEW r \in Replica, NEW d \in Delivery
    PROVE  /\ row[d].attempts \in Nat /\ row[d].cycles \in Nat
           /\ task[r][d].attempts \in Nat /\ lastSent[d] \in Nat
           /\ row[d].available_at \in Int /\ row[d].dead_letter \in BOOLEAN
           /\ MaxAttempts \in Nat \ {0} /\ MaxCycles \in Nat \ {0}
           /\ faults \in Nat /\ now \in Nat
  BY DispatchAssumption DEF TypeOK, Row, Task

(* Other replicas and operators only add to what a row is charged.           *)
LEMMA CountsAtMostRowStep ==
    ASSUME NoRetry, SweepsAlone, TypeOK, TypeOK', SweepInv, [Next]_vars,
           NEW r \in Replica, NEW d \in Delivery, CountsAtMostRow(r, d)
    PROVE  CountsAtMostRow(r, d)'
<1>0. /\ row[d].attempts \in Nat /\ row'[d].attempts \in Nat
      /\ task[r][d].attempts \in Nat /\ task'[r][d].attempts \in Nat
  BY DEF TypeOK, Row, Task
<1>1. CASE Ends(r, d)
  BY <1>1 DEF CountsAtMostRow, Held, Ends
<1>2. CASE Stays(r, d) /\ row'[d].attempts >= row[d].attempts
  BY <1>0, <1>2 DEF CountsAtMostRow, Held, Counted, InFlight, Stays
<1>3. CASE OneStep(r, d)
  BY <1>0, <1>1, <1>3 DEF OneStep, CountsAtMostRow, Held, Counted, InFlight, Moves, GivesUp,
      RowRests, Poisons, Begins, Locks, Calls, Returns, Succeeds, Fails
<1>4. CASE Fetches(r, d)
  BY <1>0, <1>4 DEF Fetches, Ends, CountsAtMostRow, Held, Counted, InFlight, RowRests
<1>5. ASSUME NEW s \in Replica, Sweeps(s, d), Stays(r, d) PROVE CountsAtMostRow(r, d)'
  <2>1. task[r][d].pc = "idle"
    BY <1>5 DEF Sweeps, SweepInv, SweepWaits, SweepsAlone
  <2> QED BY <1>5, <2>1 DEF Stays, CountsAtMostRow, Held
<1>6. ASSUME NEW s \in Replica, OneStep(s, d) PROVE row'[d].attempts >= row[d].attempts
  BY <1>0, <1>6 DEF OneStep, KeepsCounts, RowRests, GivesUp, Poisons, Begins, Locks, Calls,
      Returns, Succeeds, Fails
<1>7. ASSUME Marks(d) \/ RowRests(d) PROVE row'[d].attempts >= row[d].attempts
  BY <1>0, <1>7 DEF Marks, KeepsCounts, RowRests
<1>8. LocalStep(r, d) /\ ~Retries(d)
  BY Localize DEF Retries, NoRetry
<1> QED BY <1>0, <1>1, <1>2, <1>3, <1>4, <1>5, <1>6, <1>7, <1>8 DEF LocalStep, GivesUp

\* What a step does to row d, whoever takes it.
RowStep(d) ==
    \/ RowRests(d)
    \/ Marks(d)
    \/ Retries(d)
    \/ \E r \in Replica : Sweeps(r, d) \/ OneStep(r, d)

(* Every step of the system is a RowStep to every row.                       *)
LEMMA RowLocalize ==
    ASSUME TypeOK, [Next]_vars, NEW d \in Delivery
    PROVE  RowStep(d)
<1>1. ASSUME NEW r \in Replica PROVE RowStep(d)
  <2>1. LocalStep(r, d)
    BY Localize
  <2> QED BY <2>1 DEF LocalStep, RowStep, Fetches
<1>2. CASE Replica = {}
  <2>1. ASSUME NEW e \in Delivery, RetryDelivery(e) PROVE RowStep(d)
    <3>1. row'[d] = IF d = e THEN FreshRow(now) ELSE row[d]
      BY <2>1, SetRowValue DEF RetryDelivery
    <3>2. lastSent'[d] = IF d = e THEN 0 ELSE lastSent[d]
      BY <2>1 DEF RetryDelivery, TypeOK
    <3> QED BY <2>1, <3>1, <3>2 DEF RetryDelivery, RowStep, RowRests, Retries
  <2>2. ASSUME NEW e \in Delivery, CompleteDelivery(e) PROVE RowStep(d)
    <3>1. row'[d] = (IF d = e THEN [row[d] EXCEPT !.processed = TRUE] ELSE row[d])
          /\ row[d] \in Row /\ lastSent' = lastSent
      BY <2>2, SetRowValue, Zenon DEF CompleteDelivery, TypeOK
    <3>2. CASE d = e
      BY <3>1, <3>2 DEF RowStep, Marks, KeepsCounts, Row
    <3>3. CASE d # e
      BY <3>1, <3>3 DEF RowStep, RowRests
    <3> QED BY <3>2, <3>3
  <2>3. ASSUME NEW e \in Delivery, AbandonDelivery(e) PROVE RowStep(d)
    <3>1. row'[d] = (IF d = e THEN [row[d] EXCEPT !.dead_letter = TRUE] ELSE row[d])
          /\ row[d] \in Row /\ lastSent' = lastSent /\ "abandon" \in AdminOps
      BY <2>3, SetRowValue, Zenon DEF AbandonDelivery, TypeOK
    <3>2. CASE d = e
      BY <3>1, <3>2, Zenon DEF RowStep, Marks, KeepsCounts, Row
    <3>3. CASE d # e
      BY <3>1, <3>3 DEF RowStep, RowRests
    <3> QED BY <3>2, <3>3
  <2>4. CASE Tick \/ UNCHANGED vars
    BY <2>4 DEF Tick, vars, RowStep, RowRests
  <2> QED BY <1>2, <2>1, <2>2, <2>3, <2>4 DEF Next, Horizon
<1> QED BY <1>1, <1>2

(* A row becomes a dead letter only for a reason.                            *)
LEMMA DeadForReasonStep ==
    ASSUME NoAbandon, TypeOK, TypeOK', SweepInv, [Next]_vars, NEW d \in Delivery,
           DeadForReason(d), \A r \in Replica : CountsAtMostRow(r, d)
    PROVE  DeadForReason(d)'
<1>0. /\ row[d].attempts \in Nat /\ row[d].dead_letter \in BOOLEAN
      /\ row'[d].dead_letter \in BOOLEAN /\ MaxAttempts \in Nat
  BY DispatchAssumption, SMTT(20) DEF TypeOK, Row
<1>1. ASSUME row'[d].dead_letter => row[d].dead_letter,
             row'[d].attempts >= row[d].attempts, row'[d].attempts \in Nat,
             row'[d].cycles = row[d].cycles
      PROVE  DeadForReason(d)'
  BY <1>0, <1>1 DEF DeadForReason
<1>2. CASE RowRests(d) \/ Marks(d)
  BY <1>0, <1>2, <1>1 DEF RowRests, Marks, KeepsCounts, NoAbandon
<1>3. CASE Retries(d)
  BY <1>3 DEF Retries, FreshRow, DeadForReason
<1>4. ASSUME NEW r \in Replica, Sweeps(r, d) PROVE DeadForReason(d)'
  BY <1>4, Zenon DEF Sweeps, SweepInv, SweepWaits, DeadForReason
<1>5. ASSUME NEW r \in Replica, OneStep(r, d) PROVE DeadForReason(d)'
  <2>1. CASE Poisons(r, d)
    BY <2>1 DEF Poisons, SweepInv, DeadForReason
  <2>2. CASE Fails(r, d)
    <3>1. /\ row'[d].dead_letter = Exhausted(r, d)
          /\ row'[d].attempts = row[d].attempts
      BY <2>2 DEF Fails, KeepsCounts
    <3>2. task[r][d].attempts + 1 =< row[d].attempts /\ task[r][d].attempts \in Nat
      BY <2>2 DEF Fails, CountsAtMostRow, Held, Counted, InFlight, TypeOK, Task
    <3>3. Exhausted(r, d) => row[d].attempts >= MaxAttempts
      BY <1>0, <3>2 DEF Exhausted
    <3>4. row'[d].dead_letter => row'[d].attempts >= MaxAttempts
      BY <3>1, <3>3, Zenon
    <3> QED BY <3>4 DEF DeadForReason
  <2>3. CASE Locks(r, d)
    BY <1>0, <1>1, <2>3 DEF Locks
  <2>4. CASE GivesUp(r, d) \/ Begins(r, d) \/ Calls(r, d) \/ Returns(r, d) \/ Succeeds(r, d)
    BY <1>0, <1>1, <2>4 DEF GivesUp, Begins, Calls, Returns, Succeeds, RowRests, KeepsCounts
  <2> QED BY <1>5, <2>1, <2>2, <2>3, <2>4 DEF OneStep
<1> QED BY <1>2, <1>3, <1>4, <1>5, RowLocalize DEF RowStep

(* However many replicas race for a row, and although dispatch_one decides   *)
(* with the attempts it read before it took its lock, no row is given up     *)
(* before max_attempts attempts were charged to it, its last completion      *)
(* cycle ran out or a configuration rejected its spec.  Sweeps must not      *)
(* overlap another replica's dispatch and operators neither retry nor        *)
(* abandon; the lease is not needed.                                         *)
THEOREM DeadLettersJustified ==
    ASSUME SweepsAlone, NoRetry, NoAbandon
    PROVE  Spec => []NoPrematureDeadLetter
<1> DEFINE Inv == /\ \A r \in Replica, d \in Delivery : CountsAtMostRow(r, d)
                  /\ \A d \in Delivery : DeadForReason(d)
<1>1. Init => Inv
  BY DEF Init, CountsAtMostRow, Held, DeadForReason, Idle, FreshRow
<1>2. TypeOK /\ SweepInv /\ Inv /\ [Next]_vars => Inv'
  BY TypeStep, CountsAtMostRowStep, DeadForReasonStep
<1>3. Inv => NoPrematureDeadLetter
  BY DEF DeadForReason, NoPrematureDeadLetter
<1> HIDE DEF Inv
<1> QED BY <1>1, <1>2, <1>3, TypeCorrect, SweepInductive, PTL DEF Spec

-------------------------------------------------------------------------------
\* With one replica: dispatch_one knows of every attempt charged to its row but
\* those an operator's retry took back, and its row was short of max_attempts when
\* it was fetched.  A crash or a lost write-back leaves room for one attempt more.
BoundOK(r, d) ==
    /\ Held(r, d) => /\ row[d].attempts =< Counted(r, d)
                     /\ task[r][d].attempts < MaxAttempts + faults
    /\ row[d].attempts < MaxAttempts + faults
        \/ row[d].dead_letter \/ row[d].dispatched_at # NULL \/ InFlight(r, d)
    /\ sweep[r][d] # NULL => sweep[r][d].attempts =< MaxAttempts + faults

BoundInv ==
    /\ AttemptsBounded
    /\ \A r \in Replica, d \in Delivery : BoundOK(r, d)

(* What becomes of a sweep statement's values for row d.                     *)
LEMMA SweepValues ==
    ASSUME TypeOK, [Next]_vars, NEW r \in Replica, NEW d \in Delivery
    PROVE  \/ sweep'[r][d] = NULL
           \/ sweep'[r][d] = sweep[r][d]
           \/ sweep'[r][d] = ResetHung(r, d) /\ row' = row
<1>1. ASSUME NEW s \in Replica, BeginSweep(s)
      PROVE  \/ sweep'[r][d] = NULL
             \/ sweep'[r][d] = sweep[r][d]
             \/ sweep'[r][d] = ResetHung(r, d) /\ row' = row
  <2>1. s # r => sweep'[r][d] = sweep[r][d]
    BY <1>1 DEF BeginSweep, TypeOK
  <2>2. s = r => sweep'[r][d] = IF Hung(r, d) THEN ResetHung(r, d) ELSE NULL
    BY <1>1 DEF BeginSweep, TypeOK
  <2> QED BY <1>1, <2>1, <2>2 DEF BeginSweep
<1>2. ASSUME NEW s \in Replica, EndSweep(s) \/ Crash(s)
      PROVE  sweep'[r][d] = NULL \/ sweep'[r][d] = sweep[r][d]
  BY <1>2 DEF EndSweep, Crash, TypeOK, NoSweep
<1>3. ASSUME NEW s \in Replica, NEW e \in Delivery, DispatchOne(s, e)
      PROVE  sweep' = sweep
  BY <1>3, DispatchOneElsewhere
<1> QED BY <1>1, <1>2, <1>3, Zenon DEF Next, Horizon, Fetch, RetryDelivery, CompleteDelivery,
              AbandonDelivery, Tick, vars

(* A single replica's steps keep BoundOK.                                    *)
LEMMA BoundStep ==
    ASSUME OneReplica, TypeOK, TypeOK', SweepInv, BoundInv, [Next]_vars,
           NEW r \in Replica, NEW d \in Delivery
    PROVE  BoundOK(r, d)'
<1> DEFINE limit == MaxAttempts + faults
<1>0. /\ row[d].attempts \in Nat /\ row'[d].attempts \in Nat
      /\ task[r][d].attempts \in Nat /\ task'[r][d].attempts \in Nat
      /\ limit \in Nat /\ limit' \in Nat /\ limit' >= limit
      /\ MaxAttempts \in Nat /\ MaxAttempts > 0 /\ MaxAttempts =< limit'
      /\ row[d].attempts =< limit /\ BoundOK(r, d)
  <2>1. /\ faults \in Nat /\ faults' \in Nat /\ faults' >= faults
        /\ MaxAttempts \in Nat /\ MaxAttempts > 0
    BY Onward, DispatchAssumption DEF TypeOK
  <2>2. limit \in Nat /\ limit' \in Nat /\ limit' >= limit /\ MaxAttempts =< limit'
    <3>1. PICK f \in Nat : f = faults'
      BY <2>1
    <3>2. f >= faults
      BY <2>1, <3>1
    <3>3. /\ MaxAttempts + f \in Nat /\ MaxAttempts + f >= MaxAttempts + faults
          /\ MaxAttempts =< MaxAttempts + f /\ MaxAttempts + faults \in Nat
      BY <2>1, <3>2
    <3> QED BY <3>1, <3>3, Zenon
  <2>3. /\ row[d].attempts \in Nat /\ row'[d].attempts \in Nat
        /\ task[r][d].attempts \in Nat /\ task'[r][d].attempts \in Nat
    BY DEF TypeOK, Row, Task
  <2>4. row[d].attempts =< limit /\ BoundOK(r, d)
    BY DEF BoundInv, AttemptsBounded
  <2> QED BY <2>1, <2>2, <2>3, <2>4
<1>1. sweep'[r][d] # NULL => sweep'[r][d].attempts =< limit'
  <2>1. CASE sweep'[r][d] = sweep[r][d]
    <3>1. sweep[r][d] # NULL => sweep[r][d].attempts \in Nat
      BY DEF TypeOK, SweepUpdate
    <3> QED BY <1>0, <2>1, <3>1 DEF BoundOK
  <2>2. CASE sweep'[r][d] = ResetHung(r, d)
    <3>1. ResetHung(r, d).attempts \in {row[d].attempts, 0}
      BY ResetHungCases, Zenon
    <3> QED BY <1>0, <2>2, <3>1
  <2> QED BY <2>1, <2>2, SweepValues
<1> DEFINE Roomy == \/ row[d].attempts < limit \/ row[d].dead_letter
                    \/ row[d].dispatched_at # NULL \/ InFlight(r, d)
           Known == Held(r, d) => row[d].attempts =< Counted(r, d) /\ task[r][d].attempts < limit
<1>2. SUFFICES Roomy' /\ Known'
  BY <1>1 DEF BoundOK
<1>3. Roomy /\ Known
  BY <1>0 DEF BoundOK
<1>4. CASE Stays(r, d) /\ RowRests(d)
  <2>1. InFlight(r, d)' = InFlight(r, d) /\ Held(r, d)' = Held(r, d) /\ Counted(r, d)' = Counted(r, d)
    BY <1>4 DEF Stays, InFlight, Held, Counted
  <2> QED BY <1>0, <1>3, <1>4, <2>1 DEF Stays, RowRests
<1>5. CASE GivesUp(r, d)
  <2>1. ~Held(r, d)' /\ row'[d] = row[d] /\ faults \in Nat
    BY <1>5 DEF GivesUp, Ends, Held, RowRests, TypeOK
  <2>2. CASE InFlight(r, d)
    <3>1. limit' = limit + 1
      BY <1>0, <1>5, <2>1, <2>2 DEF GivesUp
    <3>2. row[d].attempts =< task[r][d].attempts + 1 /\ task[r][d].attempts < limit
      BY <1>3, <2>2 DEF InFlight, Held, Counted
    <3> HIDE DEF limit
    <3> QED BY <1>0, <2>1, <3>1, <3>2
  <2>3. CASE ~InFlight(r, d)
    BY <1>0, <1>3, <2>1, <2>3
  <2> QED BY <2>2, <2>3
<1>6. CASE Poisons(r, d) \/ Succeeds(r, d)
  BY <1>6 DEF Poisons, Succeeds, Ends, Held
<1>7. CASE Begins(r, d)
  <2>1. /\ row'[d] = row[d] /\ task'[r][d].attempts = task[r][d].attempts
        /\ task[r][d].pc = "fetched" /\ task'[r][d].pc = "locking"
    BY <1>7 DEF Begins, Moves, RowRests
  <2>2. ~InFlight(r, d) /\ ~InFlight(r, d)' /\ Held(r, d) /\ Counted(r, d)' = Counted(r, d)
    BY <2>1 DEF InFlight, Held, Counted
  <2> QED BY <1>0, <1>3, <2>1, <2>2
<1>8. CASE Locks(r, d)
  <2>1. /\ row'[d].attempts = row[d].attempts + 1 /\ task'[r][d].attempts = task[r][d].attempts
        /\ task[r][d].pc = "locking" /\ task'[r][d].pc = "locked"
    BY <1>8 DEF Locks, Moves
  <2>2. /\ Held(r, d) /\ InFlight(r, d)' /\ Counted(r, d) = task[r][d].attempts
        /\ Counted(r, d)' = task'[r][d].attempts + 1
    BY <1>0, <2>1 DEF InFlight, Held, Counted
  <2> QED BY <1>0, <1>3, <2>1, <2>2
<1>9. CASE Calls(r, d) \/ Returns(r, d)
  <2>1. /\ row'[d] = row[d] /\ task'[r][d].attempts = task[r][d].attempts
        /\ task[r][d].pc \in {"locked", "calling"} /\ task'[r][d].pc \in {"calling", "writing"}
    BY <1>9, Zenon DEF Calls, Returns, Moves, RowRests
  <2>2. /\ Held(r, d) /\ InFlight(r, d)' /\ Counted(r, d)' = Counted(r, d)
    BY <1>0, <2>1 DEF InFlight, Held, Counted
  <2> QED BY <1>0, <1>3, <2>1, <2>2
<1>10. CASE Fails(r, d)
  <2>1. /\ row'[d].attempts = row[d].attempts /\ ~Held(r, d)'
        /\ row'[d].dead_letter = Exhausted(r, d)
    BY <1>10 DEF Fails, Ends, Held, KeepsCounts
  <2>2. row[d].attempts =< task[r][d].attempts + 1
    BY <1>3, <1>10 DEF Fails, InFlight, Held, Counted
  <2>3. ~Exhausted(r, d) => row[d].attempts < MaxAttempts
    BY <1>0, <2>2 DEF Exhausted
  <2>5. row'[d].attempts < limit' \/ row'[d].dead_letter
    <3>1. ~Exhausted(r, d) => row'[d].attempts < limit'
      BY <1>0, <2>1, <2>3
    <3> QED BY <2>1, <3>1, Zenon
  <2> QED BY <2>1, <2>5
<1>11. CASE Fetches(r, d)
  <2>1. row'[d] = row[d] /\ ~InFlight(r, d) /\ ~InFlight(r, d)'
    BY <1>11 DEF Fetches, Ends, RowRests, InFlight
  <2>2. Held(r, d)' => /\ task'[r][d].attempts = row[d].attempts
                       /\ ~row[d].dead_letter /\ row[d].dispatched_at = NULL
    BY <1>11 DEF Fetches, Ends, Held, Due
  <2>3. Counted(r, d)' = task'[r][d].attempts
    BY <1>0, <2>1 DEF Counted
  <2> QED BY <1>0, <1>3, <2>1, <2>2, <2>3
<1>12. CASE Marks(d) /\ Stays(r, d)
  <2>1. InFlight(r, d)' = InFlight(r, d) /\ Held(r, d)' = Held(r, d) /\ Counted(r, d)' = Counted(r, d)
    BY <1>12 DEF Stays, InFlight, Held, Counted
  <2>2. row[d].dead_letter => row'[d].dead_letter
    BY <1>12, Zenon DEF Marks
  <2> QED BY <1>0, <1>3, <1>12, <2>1, <2>2 DEF Marks, KeepsCounts, Stays
<1>13. CASE Retries(d) /\ Stays(r, d)
  <2>1. row'[d].attempts = 0
    BY <1>13 DEF Retries, FreshRow
  <2>2. Held(r, d)' = Held(r, d) /\ Counted(r, d)' = Counted(r, d) /\ Counted(r, d) \in Nat
    BY <1>0, <1>13 DEF Stays, InFlight, Held, Counted
  <2>3. limit' > 0
    BY <1>0
  <2> QED BY <1>0, <1>3, <1>13, <2>1, <2>2, <2>3, SMTT(20) DEF Stays
<1>14. ASSUME NEW s \in Replica, Sweeps(s, d), Stays(r, d) PROVE Roomy' /\ Known'
  <2>1. s = r
    BY DEF OneReplica
  <2>2. ~Held(r, d)'
    BY <1>14, <2>1 DEF Sweeps, SweepInv, SweepWaits, Stays, Held
  <2>3. row'[d].dead_letter \/ row'[d].attempts = 0
    BY <1>14, <2>1 DEF Sweeps, SweepInv, SweepWaits
  <2>4. limit' > 0
    BY <1>0
  <2> QED BY <2>2, <2>3, <2>4
<1>15. LocalStep(r, d)
  BY Localize
<1>16. \A s \in Replica : s = r
  BY DEF OneReplica
<1> HIDE DEF Roomy, Known
<1> QED BY <1>4, <1>5, <1>6, <1>7, <1>8, <1>9, <1>10, <1>11, <1>12, <1>13, <1>14, <1>15, <1>16
        DEF LocalStep, OneStep

(* The attempts charged to a row stay within the bound.                      *)
LEMMA AttemptsStep ==
    ASSUME OneReplica, TypeOK, TypeOK', SweepInv, BoundInv, [Next]_vars, NEW d \in Delivery
    PROVE  row'[d].attempts =< MaxAttempts + faults'
<1>0. /\ row[d].attempts \in Nat /\ row'[d].attempts \in Nat /\ faults \in Nat
      /\ MaxAttempts \in Nat /\ row[d].attempts =< MaxAttempts + faults
  BY DispatchAssumption DEF TypeOK, Row, BoundInv, AttemptsBounded
<1>1. PICK f \in Nat : f = faults' /\ f >= faults
  BY Onward DEF TypeOK
<1>2. SUFFICES row'[d].attempts =< MaxAttempts + f
  BY <1>1
<1>3. CASE row'[d].attempts = row[d].attempts
  BY <1>0, <1>1, <1>3
<1>4. CASE Retries(d)
  <2>1. row'[d].attempts = 0
    BY <1>4 DEF Retries, FreshRow
  <2>2. 0 =< MaxAttempts + f
    BY <1>0
  <2> QED BY <2>1, <2>2, Zenon
<1>5. ASSUME NEW r \in Replica, Sweeps(r, d) PROVE row'[d].attempts =< MaxAttempts + f
  <2>1. row'[d].attempts =< MaxAttempts + faults
    BY <1>5 DEF Sweeps, BoundInv, BoundOK
  <2> QED BY <1>0, <1>1, <2>1
<1>6. ASSUME NEW r \in Replica, Locks(r, d) PROVE row'[d].attempts =< MaxAttempts + f
  <2>1. /\ row'[d].attempts = row[d].attempts + 1 /\ task[r][d].pc = "locking"
        /\ task[r][d].attempts \in Nat
    BY <1>6 DEF Locks, Moves, TypeOK, Task
  <2>2. row[d].attempts =< task[r][d].attempts /\ task[r][d].attempts < MaxAttempts + faults
    BY <2>1 DEF BoundInv, BoundOK, Held, Counted, InFlight
  <2> QED BY <1>0, <1>1, <2>1, <2>2
<1>7. ASSUME NEW r \in Replica, OneStep(r, d) PROVE row'[d].attempts =< MaxAttempts + f
  BY <1>3, <1>6, <1>7 DEF OneStep, KeepsCounts, RowRests, GivesUp, Poisons, Begins, Calls,
      Returns, Succeeds, Fails
<1> QED BY <1>3, <1>4, <1>5, <1>7, RowLocalize DEF RowStep, RowRests, Marks, KeepsCounts

(* BoundInv holds in every reachable state of a single dispatcher.           *)
LEMMA BoundInductive ==
    ASSUME OneReplica
    PROVE  Spec => []BoundInv
<1>1. Init => BoundInv
  BY DispatchAssumption
  DEF Init, BoundInv, AttemptsBounded, BoundOK, Held, FreshRow, Idle, NoSweep
<1>2. TypeOK /\ SweepInv /\ BoundInv /\ [Next]_vars => BoundInv'
  BY TypeStep, AttemptsStep, BoundStep DEF BoundInv, AttemptsBounded
<1> QED BY <1>1, <1>2, TypeCorrect, SweepInductive, PTL DEF Spec

(* A single dispatcher never charges a row more than max_attempts attempts,  *)
(* but for one more with each crash or lost write-back, whatever operators   *)
(* do and however many rows it works on at once: dispatch_one charges the    *)
(* attempt with the lock and gives the row up by the count it fetched.       *)
THEOREM AttemptsLimited ==
    ASSUME OneReplica
    PROVE  Spec => []AttemptsBounded
<1>1. BoundInv => AttemptsBounded
  BY DEF BoundInv
<1> QED BY <1>1, BoundInductive, PTL

-------------------------------------------------------------------------------
\* With one replica and no retry the count is exact.
ExactInv == \A r \in Replica, d \in Delivery : Held(r, d) => Counted(r, d) = row[d].attempts

(* dispatch_one knows exactly the attempts charged to its row.               *)
LEMMA ExactInductive ==
    ASSUME OneReplica, NoRetry
    PROVE  Spec => []ExactInv
<1> DEFINE Inv == \A r \in Replica, d \in Delivery : CountsAtMostRow(r, d)
<1>0. SweepsAlone
  BY DEF OneReplica, SweepsAlone
<1>1. Init => Inv
  BY DEF Init, CountsAtMostRow, Held, Idle
<1>2. TypeOK /\ SweepInv /\ Inv /\ [Next]_vars => Inv'
  BY <1>0, TypeStep, CountsAtMostRowStep
<1>3. TypeOK /\ BoundInv /\ Inv => ExactInv
  <2> SUFFICES ASSUME TypeOK, BoundInv, Inv, NEW r \in Replica, NEW d \in Delivery, Held(r, d)
               PROVE  Counted(r, d) = row[d].attempts
    BY DEF ExactInv
  <2>1. Counted(r, d) \in Nat /\ row[d].attempts \in Nat
    BY DEF TypeOK, Task, Row, Counted
  <2> QED BY <2>1 DEF BoundInv, BoundOK, CountsAtMostRow
<1> HIDE DEF Inv
<1> QED BY <1>1, <1>2, <1>3, TypeCorrect, SweepInductive, BoundInductive, PTL DEF Spec

(* A single dispatcher gives a row up with exactly the attempt that makes    *)
(* max_attempts, as long as no operator resets the count under it.           *)
THEOREM DeadLetterExact ==
    ASSUME OneReplica, NoRetry
    PROVE  Spec => DeadLetterByAttempts
<1>1. ASSUME TypeOK, ExactInv, NEW r \in Replica, NEW d \in Delivery, MarkFailure(r, d)
      PROVE  row'[d].dead_letter = (row[d].attempts >= MaxAttempts)
  <2>1. row'[d].dead_letter = Exhausted(r, d)
    <3>1. row'[d] = [row[d] EXCEPT !.available_at = task[r][d].next,
                                   !.dead_letter = Exhausted(r, d),
                                   !.locked_until = NULL] /\ row[d] \in Row
      BY <1>1, SetRowValue DEF MarkFailure, TypeOK
    <3> QED BY <3>1, Zenon DEF Row
  <2>2. task[r][d].attempts + 1 = row[d].attempts
    BY <1>1 DEF ExactInv, MarkFailure, Held, Counted, InFlight
  <2> QED BY <2>1, <2>2, Zenon DEF Exhausted
<1>2. TypeOK /\ ExactInv /\ [Next]_vars
        => [\A r \in Replica, d \in Delivery : MarkFailure(r, d) =>
                row'[d].dead_letter = (row[d].attempts >= MaxAttempts)]_vars
  BY <1>1
<1> QED BY <1>2, TypeCorrect, ExactInductive, PTL DEF Spec, DeadLetterByAttempts

-------------------------------------------------------------------------------
\* The time of a row in the batch has come.
BackoffInv ==
    \A r \in Replica, d \in Delivery :
        task[r][d].pc \in {"fetched", "locking"} => row[d].available_at =< now

(* A row in the batch of a single dispatcher is not put off.                 *)
LEMMA BackoffStep ==
    ASSUME OneReplica, TypeOK, TypeOK', SweepInv, BackoffInv, [Next]_vars
    PROVE  BackoffInv'
<1> SUFFICES ASSUME NEW r \in Replica, NEW d \in Delivery,
                    task'[r][d].pc \in {"fetched", "locking"}
             PROVE  row'[d].available_at =< now'
  BY DEF BackoffInv
<1>0. /\ row[d].available_at \in Int /\ now \in Int /\ now' \in Int /\ now =< now'
      /\ task[r][d].pc \in {"fetched", "locking"} => row[d].available_at =< now
  BY Onward DEF TypeOK, Row, BackoffInv
<1>1. CASE row'[d].available_at = row[d].available_at /\ row[d].available_at =< now
  BY <1>0, <1>1, SMTT(20)
<1>2. CASE Stays(r, d) /\ (RowRests(d) \/ Marks(d))
  BY <1>0, <1>1, <1>2, SMTT(20) DEF Stays, RowRests, Marks
<1>3. CASE OneStep(r, d)
  BY <1>0, <1>1, <1>3 DEF OneStep, Ends, Moves, RowRests, GivesUp, Poisons, Begins, Locks,
      Calls, Returns, Succeeds, Fails
<1>4. CASE Fetches(r, d)
  BY <1>0, <1>1, <1>4, Zenon DEF Fetches, Ends, RowRests, Due
<1>5. CASE Retries(d)
  BY <1>0, <1>5, SMTT(20) DEF Retries, FreshRow
<1>6. ASSUME NEW s \in Replica, Sweeps(s, d), Stays(r, d) PROVE FALSE
  BY <1>6 DEF OneReplica, Sweeps, SweepInv, SweepWaits, Stays
<1>7. \A s \in Replica : s = r
  BY DEF OneReplica
<1>8. LocalStep(r, d) /\ ~GivesUp(r, d)
  BY Localize DEF GivesUp, Ends
<1> QED BY <1>2, <1>3, <1>4, <1>5, <1>6, <1>7, <1>8 DEF LocalStep

(* lock_delivery does not look at available_at again, and a single           *)
(* dispatcher need not: what it fetched stays due until it is locked,        *)
(* whatever operators do.                                                    *)
THEOREM BackoffKept ==
    ASSUME OneReplica
    PROVE  Spec => BackoffRespected
<1>1. Init => BackoffInv
  BY DEF Init, BackoffInv, Idle
<1>2. TypeOK /\ SweepInv /\ BackoffInv /\ [Next]_vars => BackoffInv'
  BY TypeStep, BackoffStep
<1>3. BackoffInv /\ [Next]_vars
        => [\A r \in Replica, d \in Delivery : LockDelivery(r, d) => row[d].available_at =< now]_vars
  BY Zenon DEF BackoffInv, LockDelivery
<1> QED BY <1>1, <1>2, <1>3, TypeCorrect, SweepInductive, PTL DEF Spec, BackoffRespected

-------------------------------------------------------------------------------
AllManaged == \A d \in Delivery : Mode[d] = "managed"

\* The latest request is one of the attempts charged, and one of those fetched.
SentOK(d) ==
    /\ lastSent[d] =< row[d].attempts
    /\ \A r \in Replica : task[r][d].pc \in {"fetched", "locking", "locked"} =>
            lastSent[d] =< task[r][d].attempts

SentInv == \A d \in Delivery : SentOK(d)

(* A request takes the number of an attempt that is already charged.         *)
LEMMA SentStep ==
    ASSUME OneReplica, NoRetry, AllManaged, TypeOK, TypeOK', SweepInv, ExactInv, [Next]_vars,
           NEW d \in Delivery, SentOK(d)
    PROVE  SentOK(d)'
<1>0. /\ row[d].attempts \in Nat /\ row'[d].attempts \in Nat
      /\ lastSent[d] \in Nat /\ lastSent'[d] \in Nat
  BY DEF TypeOK, Row
<1>1. ~Retries(d) /\ \A r \in Replica : ~Sweeps(r, d)
  BY DEF Retries, NoRetry, Sweeps, SweepInv, SweepWaits, AllManaged
<1>2. ASSUME RowRests(d) \/ Marks(d) \/ \E r \in Replica : OneStep(r, d)
      PROVE  lastSent'[d] =< row'[d].attempts
  <2>1. ASSUME NEW r \in Replica, OneStep(r, d), ~Calls(r, d) PROVE lastSent'[d] =< row'[d].attempts
    BY <1>0, <2>1 DEF OneStep, SentOK, KeepsCounts, RowRests, GivesUp, Poisons, Begins, Locks,
        Returns, Succeeds, Fails
  <2>2. ASSUME NEW r \in Replica, Calls(r, d) PROVE lastSent'[d] =< row'[d].attempts
    BY <1>0, <2>2 DEF Calls, Moves, ExactInv, Held, Counted, InFlight
  <2> QED BY <1>0, <1>2, <2>1, <2>2, SMTT(20) DEF RowRests, Marks, KeepsCounts, SentOK
<1>3. lastSent'[d] =< row'[d].attempts
  BY <1>1, <1>2, RowLocalize, SMTT(20) DEF RowStep
<1>4. ASSUME NEW r \in Replica, task'[r][d].pc \in {"fetched", "locking", "locked"}
      PROVE  lastSent'[d] =< task'[r][d].attempts
  <2>1. CASE Stays(r, d) /\ (RowRests(d) \/ Marks(d))
    BY <1>4, <2>1 DEF Stays, RowRests, Marks, KeepsCounts, SentOK
  <2>2. CASE OneStep(r, d)
    BY <1>4, <2>2, Zenon DEF OneStep, Ends, Moves, RowRests, GivesUp, Poisons, Begins, Locks,
        Calls, Returns, Succeeds, Fails, SentOK
  <2>3. CASE Fetches(r, d)
    BY <1>4, <2>3, Zenon DEF Fetches, Ends, RowRests, SentOK
  <2>4. \A s \in Replica : s = r
    BY DEF OneReplica
  <2>5. LocalStep(r, d) /\ ~GivesUp(r, d)
    BY <1>4, Localize DEF GivesUp, Ends
  <2> QED BY <1>1, <2>1, <2>2, <2>3, <2>4, <2>5 DEF LocalStep
<1> QED BY <1>3, <1>4 DEF SentOK

(* A receiver served by a single dispatcher sees the attempt numbers of a    *)
(* managed row rise with every request, crashes and lost write-backs         *)
(* included, as long as no operator retries the row.                         *)
THEOREM AttemptNumbersRise ==
    ASSUME OneReplica, NoRetry, AllManaged
    PROVE  Spec => RedeliveryRaisesAttempt
<1>1. Init => SentInv
  BY DEF Init, SentInv, SentOK, Idle, FreshRow
<1>2. TypeOK /\ SweepInv /\ ExactInv /\ SentInv /\ [Next]_vars => SentInv'
  BY TypeStep, SentStep DEF SentInv
<1>3. TypeOK /\ SentInv /\ [Next]_vars
        => [\A r \in Replica, d \in Delivery : StartCall(r, d) =>
                task[r][d].attempts + 1 > lastSent[d]]_vars
  <2> SUFFICES ASSUME TypeOK, SentInv, NEW r \in Replica, NEW d \in Delivery, StartCall(r, d)
               PROVE  task[r][d].attempts + 1 > lastSent[d]
    OBVIOUS
  <2>1. lastSent[d] =< task[r][d].attempts
    BY DEF SentInv, SentOK, StartCall
  <2> QED BY <2>1, CountTypes
<1> QED BY <1>1, <1>2, <1>3, TypeCorrect, SweepInductive, ExactInductive, PTL
        DEF Spec, RedeliveryRaisesAttempt
===============================================================================
