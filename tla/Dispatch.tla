------------------------------- MODULE Dispatch -------------------------------
(***************************************************************************)
(* The life of outbox_deliveries rows under several dispatcher replicas.   *)
(*                                                                         *)
(* A replica's loop fetches a batch of due rows, and for each row takes a  *)
(* lease (locked_until), calls the receiver under a timeout and writes the *)
(* result back (crates/core/src/dispatch.rs).  Its sweeper resets external *)
(* rows nobody completed.  Operators and receivers change rows at any time *)
(* through the admin API.  Every SQL statement is one step, except the     *)
(* sweeper's: under READ COMMITTED it computes the new values from a       *)
(* snapshot and applies them to whatever the row has become.               *)
(*                                                                         *)
(* now is the database's clock.  The constants LockLatency and             *)
(* WriteLatency bound how long a database call may take; the code has no   *)
(* such bound, so what depends on them is a condition on the deployment.   *)
(* Left out: last_error and last_attempt_at (only shown to operators),     *)
(* metrics and logging.                                                    *)
(***************************************************************************)
EXTENDS Retry, FiniteSets

CONSTANTS
    Replica,             \* dispatcher processes
    Delivery,            \* ids of outbox_deliveries rows
    Mode,                \* Mode[d]: "managed" or "external"
    Poison,              \* Poison[r]: rows whose spec r's configuration rejects
    Skew,                \* Skew[r]: how far r's clock is ahead of the database's
    MaxAttempts,         \* target.max_attempts
    Timeout,             \* target.timeout
    Backoff,             \* target.backoff
    RetryAfters,         \* Retry-After values a receiver may send, or NULL
    ExternalTimeout,     \* external_completion_timeout_seconds, or NULL
    MaxCycles,           \* max_completion_cycles
    LockBuffer,          \* config.lock_buffer
    BatchSize,           \* config.batch_size
    DispatchConcurrency, \* config.dispatch_concurrency
    AdminOps,            \* the admin operations that may be called
    LockLatency,         \* longest time from computing lock_until to the call
    WriteLatency,        \* longest time from the call's end to its write-back
    MaxTime,             \* bound: the last instant explored
    MaxFaults            \* bound: crashes and database errors explored

ASSUME DispatchAssumption ==
    /\ Delivery \subseteq Nat
    /\ Mode \in [Delivery -> {"managed", "external"}]
    /\ Poison \in [Replica -> SUBSET Delivery]
    /\ Skew \in [Replica -> Int]
    /\ MaxAttempts \in Nat \ {0}
    /\ Timeout \in Nat \ {0}
    /\ Backoff \in Seq(Nat)
    /\ RetryAfters \subseteq Nat \cup {NULL}
    /\ ExternalTimeout \in Nat \cup {NULL}
    /\ MaxCycles \in Nat \ {0}
    /\ LockBuffer \in Nat \ {0}
    /\ BatchSize \in Nat \ {0}
    /\ DispatchConcurrency \in Nat \ {0}
    /\ AdminOps \subseteq {"retry", "complete", "abandon"}
    /\ LockLatency \in Nat
    /\ WriteLatency \in Nat
    /\ MaxTime \in Nat
    /\ MaxFaults \in Nat

VARIABLES
    row,      \* row[d]: the outbox_deliveries row
    task,     \* task[r][d]: where r's dispatch_one for d is
    sweep,    \* sweep[r][d]: what r's running sweep statement will write, or NULL
    now,      \* the database's clock
    faults,   \* crashes and database errors so far
    lastSent, \* lastSent[d]: attempt number of d's latest request since its last
              \* admin retry, 0 if none (history)
    acks      \* acks[d]: successes recorded since the last admin retry (history)

vars == <<row, task, sweep, now, faults, lastSent, acks>>

-------------------------------------------------------------------------------
Time == Int \cup {NULL}

Row == [attempts      : Nat,
        available_at  : Int,
        locked_until  : Time,
        dispatched_at : Time,
        processed     : BOOLEAN,   \* processed_at IS NOT NULL
        cycles        : Nat,       \* completion_cycles
        dead_letter   : BOOLEAN]

Phase == {"idle", "poison", "fetched", "locking", "locked", "calling", "writing"}

Task == [pc       : Phase,
         attempts : Nat,      \* due.attempts, as fetched
         at       : Int,      \* available_at as fetched, then when the phase began
         until    : Int,      \* lock_until
         ok       : BOOLEAN,  \* the receiver answered 2xx
         next     : Int]      \* next_available, after a failure

SweepUpdate == [attempts      : Nat,
                available_at  : Int,
                dispatched_at : Time,
                cycles        : Nat,
                dead_letter   : BOOLEAN]

\* The columns' defaults, and what retry_delivery resets them to.
FreshRow(t) == [attempts |-> 0, available_at |-> t, locked_until |-> NULL,
                dispatched_at |-> NULL, processed |-> FALSE, cycles |-> 0,
                dead_letter |-> FALSE]

Idle == [pc |-> "idle", attempts |-> 0, at |-> 0, until |-> 0, ok |-> FALSE,
         next |-> 0]

NoSweep == [d \in Delivery |-> NULL]

TypeOK ==
    /\ row \in [Delivery -> Row]
    /\ task \in [Replica -> [Delivery -> Task]]
    /\ sweep \in [Replica -> [Delivery -> SweepUpdate \cup {NULL}]]
    /\ now \in Nat
    /\ faults \in Nat
    /\ lastSent \in [Delivery -> Nat]
    /\ acks \in [Delivery -> Nat]

\* The rows ensure_deliveries has just inserted.
Init ==
    /\ row = [d \in Delivery |-> FreshRow(0)]
    /\ task = [r \in Replica |-> [d \in Delivery |-> Idle]]
    /\ sweep = [r \in Replica |-> NoSweep]
    /\ now = 0
    /\ faults = 0
    /\ lastSent = [d \in Delivery |-> 0]
    /\ acks = [d \in Delivery |-> 0]

-------------------------------------------------------------------------------
\* Utc::now() at replica r.
Clock(r) == now + Skew[r]

\* locked_until IS NULL OR locked_until < now()
Unlocked(d) == row[d].locked_until # NULL => row[d].locked_until < now

\* Due as a fetch that forgets the backoff.
DueNoBackoff(d) ==
    /\ row[d].dispatched_at = NULL
    /\ ~row[d].processed
    /\ ~row[d].dead_letter
    /\ Unlocked(d)

\* The WHERE clause of fetch_due_deliveries.
Due(d) ==
    /\ row[d].dispatched_at = NULL
    /\ ~row[d].processed
    /\ ~row[d].dead_letter
    /\ row[d].available_at =< now
    /\ Unlocked(d)

\* ORDER BY available_at, id
Before(a, d, b, e) == a < b \/ (a = b /\ d < e)

\* LIMIT BatchSize
DueBatch ==
    LET due == {d \in Delivery : Due(d)} IN
    {d \in due : Cardinality({e \in due : Before(row[e].available_at, e,
                                                 row[d].available_at, d)})
                     < BatchSize}

\* Lockable with one of its three conditions forgotten.
LockableNoLease(d) == row[d].dispatched_at = NULL /\ ~row[d].dead_letter
LockableDispatched(d) == Unlocked(d) /\ ~row[d].dead_letter
LockableDead(d) == Unlocked(d) /\ row[d].dispatched_at = NULL

\* The WHERE clause of lock_delivery.  It repeats neither processed_at nor
\* available_at from fetch_due_deliveries.
Lockable(d) ==
    /\ Unlocked(d)
    /\ row[d].dispatched_at = NULL
    /\ ~row[d].dead_letter

\* Replica r is in its loop, between dispatch_due and sweep_hung_external.
Quiet(r) == sweep[r] = NoSweep /\ \A d \in Delivery : task[r][d].pc = "idle"

Active(r) == {d \in Delivery :
                task[r][d].pc \in {"locking", "locked", "calling", "writing"}}

Fault == faults < MaxFaults /\ faults' = faults + 1

SetTask(r, d, t) == task' = [task EXCEPT ![r][d] = t]

SetRow(d, x) == row' = [row EXCEPT ![d] = x]

\* fetch_due_deliveries: one SELECT; rows whose spec is rejected are set aside.
Fetch(r) ==
    /\ Quiet(r)
    /\ DueBatch # {}
    /\ task' = [task EXCEPT ![r] = [d \in Delivery |->
                    IF d \notin DueBatch THEN Idle
                    ELSE [Idle EXCEPT
                            !.pc = IF d \in Poison[r] THEN "poison" ELSE "fetched",
                            !.attempts = row[d].attempts,
                            !.at = row[d].available_at]]]
    /\ UNCHANGED <<row, sweep, now, faults, lastSent, acks>>

\* The poison-pill guard's UPDATE, by id alone.
DeadLetterPoison(r, d) ==
    /\ task[r][d].pc = "poison"
    /\ SetRow(d, [row[d] EXCEPT !.dead_letter = TRUE, !.locked_until = NULL])
    /\ SetTask(r, d, Idle)
    /\ UNCHANGED <<sweep, now, faults, lastSent, acks>>

\* The guard's UPDATE fails: logged, and the row is met again.
PoisonError(r, d) ==
    /\ task[r][d].pc = "poison"
    /\ Fault
    /\ SetTask(r, d, Idle)
    /\ UNCHANGED <<row, sweep, now, lastSent, acks>>

\* lock_until without the buffer.
LockUntilNoBuffer(r) == Clock(r) + Timeout

\* Utc::now() + due.target.timeout + config.lock_buffer
LockUntil(r) == Clock(r) + Timeout + LockBuffer

\* buffer_unordered starts the next dispatch_one, which computes lock_until.
BeginLock(r, d) ==
    /\ task[r][d].pc = "fetched"
    /\ \A e \in Delivery : task[r][e].pc # "poison"
    /\ \A e \in Delivery \ {d} : task[r][e].pc = "fetched" =>
            Before(task[r][d].at, d, task[r][e].at, e)
    /\ Cardinality(Active(r)) < DispatchConcurrency
    /\ SetTask(r, d, [task[r][d] EXCEPT !.pc = "locking",
                                        !.at = now,
                                        !.until = LockUntil(r)])
    /\ UNCHANGED <<row, sweep, now, faults, lastSent, acks>>

\* LockDelivery that leaves attempts for the write-back to charge.
LockDeliveryUncharged(r, d) ==
    /\ task[r][d].pc = "locking"
    /\ Lockable(d)
    /\ SetRow(d, [row[d] EXCEPT !.locked_until = task[r][d].until])
    /\ SetTask(r, d, [task[r][d] EXCEPT !.pc = "locked"])
    /\ UNCHANGED <<sweep, now, faults, lastSent, acks>>

\* lock_delivery's UPDATE matches the row.
LockDelivery(r, d) ==
    /\ task[r][d].pc = "locking"
    /\ Lockable(d)
    /\ SetRow(d, [row[d] EXCEPT !.locked_until = task[r][d].until,
                                !.attempts = @ + 1])
    /\ SetTask(r, d, [task[r][d] EXCEPT !.pc = "locked"])
    /\ UNCHANGED <<sweep, now, faults, lastSent, acks>>

\* lock_delivery returns Ok(false): skip silently.
LockRefused(r, d) ==
    /\ task[r][d].pc = "locking"
    /\ ~Lockable(d)
    /\ SetTask(r, d, Idle)
    /\ UNCHANGED <<row, sweep, now, faults, lastSent, acks>>

\* LockError that takes back an attempt it may never have charged.
LockErrorRefund(r, d) ==
    /\ task[r][d].pc \in {"locking", "locked"}
    /\ Fault
    /\ SetTask(r, d, Idle)
    /\ SetRow(d, [row[d] EXCEPT !.attempts = @ - 1])
    /\ UNCHANGED <<sweep, now, lastSent, acks>>

\* lock_delivery returns Err, before the UPDATE committed or after.
LockError(r, d) ==
    /\ task[r][d].pc \in {"locking", "locked"}
    /\ Fault
    /\ SetTask(r, d, Idle)
    /\ UNCHANGED <<row, sweep, now, lastSent, acks>>

\* The request, numbered due.attempts + 1, goes out.
StartCall(r, d) ==
    /\ task[r][d].pc = "locked"
    /\ SetTask(r, d, [task[r][d] EXCEPT !.pc = "calling", !.at = now])
    /\ lastSent' = [lastSent EXCEPT ![d] = task[r][d].attempts + 1]
    /\ UNCHANGED <<row, sweep, now, faults, acks>>

\* The receiver answers 2xx.
CallOk(r, d) ==
    /\ task[r][d].pc = "calling"
    /\ SetTask(r, d, [task[r][d] EXCEPT !.pc = "writing", !.at = now, !.ok = TRUE])
    /\ UNCHANGED <<row, sweep, now, faults, lastSent, acks>>

\* A failed call: next_available is computed for the write-back.  When that panics
\* (NULL), the process dies: Crash.
FailCall(r, d, retry_after) ==
    \E t \in compute_next_available_at(Clock(r), task[r][d].attempts + 1,
                                      retry_after, Backoff) :
        /\ t # NULL
        /\ SetTask(r, d, [task[r][d] EXCEPT !.pc = "writing", !.at = now,
                                            !.ok = FALSE, !.next = t])

\* CallbackError::Transient, with the receiver's Retry-After if it sent one.
CallFailed(r, d) ==
    /\ task[r][d].pc = "calling"
    /\ \E retry_after \in RetryAfters : FailCall(r, d, retry_after)
    /\ UNCHANGED <<row, sweep, now, faults, lastSent, acks>>

\* tokio::time::timeout elapses.
CallTimedOut(r, d) ==
    /\ task[r][d].pc = "calling"
    /\ now >= task[r][d].at + Timeout
    /\ FailCall(r, d, NULL)
    /\ UNCHANGED <<row, sweep, now, faults, lastSent, acks>>

\* mark_dispatched_managed and mark_dispatched_external, by id alone.
MarkDispatched(r, d) ==
    /\ task[r][d].pc = "writing"
    /\ task[r][d].ok
    /\ SetRow(d, [row[d] EXCEPT !.dispatched_at = now,
                                !.processed = @ \/ Mode[d] = "managed",
                                !.locked_until = NULL])
    /\ acks' = [acks EXCEPT ![d] = @ + 1]
    /\ SetTask(r, d, Idle)
    /\ UNCHANGED <<sweep, now, faults, lastSent>>

\* Exhausted one attempt early and one attempt late.
ExhaustedEarly(r, d) == task[r][d].attempts + 2 >= MaxAttempts
ExhaustedLate(r, d) == task[r][d].attempts >= MaxAttempts

\* next_attempt >= max_attempts, from the attempts that the fetch read.
Exhausted(r, d) == task[r][d].attempts + 1 >= MaxAttempts

\* mark_failure, by id alone.
MarkFailure(r, d) ==
    /\ task[r][d].pc = "writing"
    /\ ~task[r][d].ok
    /\ SetRow(d, [row[d] EXCEPT !.available_at = task[r][d].next,
                                !.dead_letter = Exhausted(r, d),
                                !.locked_until = NULL])
    /\ SetTask(r, d, Idle)
    /\ UNCHANGED <<sweep, now, faults, lastSent, acks>>

\* The write-back fails: logged and swallowed.
WriteError(r, d) ==
    /\ task[r][d].pc = "writing"
    /\ Fault
    /\ SetTask(r, d, Idle)
    /\ UNCHANGED <<row, sweep, now, lastSent, acks>>

\* The process dies, killed or by a panic of compute_next_available_at, and restarts;
\* it keeps nothing of its batch.  A sweep statement that fails has the same effect.
Crash(r) ==
    /\ ~Quiet(r)
    /\ Fault
    /\ task' = [task EXCEPT ![r] = [d \in Delivery |-> Idle]]
    /\ sweep' = [sweep EXCEPT ![r] = NoSweep]
    /\ UNCHANGED <<row, now, lastSent, acks>>

-------------------------------------------------------------------------------
\* The to_update CTE of reset_hung_external.
Hung(r, d) ==
    /\ Mode[d] = "external"
    /\ row[d].dispatched_at # NULL
    /\ ~row[d].processed
    /\ ~row[d].dead_letter
    /\ ExternalTimeout # NULL
    /\ row[d].dispatched_at + ExternalTimeout < Clock(r)

\* ResetHung that allows a cycle too many.
ResetHungLate(r, d) ==
    LET exhausted == row[d].cycles + 1 > MaxCycles IN
    [attempts      |-> IF exhausted THEN row[d].attempts ELSE 0,
     available_at  |-> IF exhausted THEN row[d].available_at ELSE Clock(r),
     dispatched_at |-> IF exhausted THEN row[d].dispatched_at ELSE NULL,
     cycles        |-> row[d].cycles + 1,
     dead_letter   |-> exhausted]

\* The SET clause, computed from the CTE's snapshot.
ResetHung(r, d) ==
    LET exhausted == row[d].cycles + 1 >= MaxCycles IN
    [attempts      |-> IF exhausted THEN row[d].attempts ELSE 0,
     available_at  |-> IF exhausted THEN row[d].available_at ELSE Clock(r),
     dispatched_at |-> IF exhausted THEN row[d].dispatched_at ELSE NULL,
     cycles        |-> row[d].cycles + 1,
     dead_letter   |-> exhausted]

\* sweep_hung_external issues the statement: the snapshot is taken.
BeginSweep(r) ==
    /\ Quiet(r)
    /\ \E d \in Delivery : Hung(r, d)
    /\ sweep' = [sweep EXCEPT ![r] = [d \in Delivery |->
                    IF Hung(r, d) THEN ResetHung(r, d) ELSE NULL]]
    /\ UNCHANGED <<row, task, now, faults, lastSent, acks>>

\* Row d with the columns that the sweep statement sets.
Swept(d, u) ==
    [row[d] EXCEPT !.attempts = u.attempts,
                   !.available_at = u.available_at,
                   !.dispatched_at = u.dispatched_at,
                   !.cycles = u.cycles,
                   !.dead_letter = u.dead_letter,
                   !.locked_until = NULL]

\* The statement updates the rows of its snapshot, by id alone.
EndSweep(r) ==
    /\ sweep[r] # NoSweep
    /\ row' = [d \in Delivery |->
                IF sweep[r][d] = NULL THEN row[d] ELSE Swept(d, sweep[r][d])]
    /\ sweep' = [sweep EXCEPT ![r] = NoSweep]
    /\ UNCHANGED <<task, now, faults, lastSent, acks>>

-------------------------------------------------------------------------------
\* RetryDelivery that does not look at the lease.
RetryDeliveryLocked(d) ==
    /\ "retry" \in AdminOps
    /\ SetRow(d, FreshRow(now))
    /\ lastSent' = [lastSent EXCEPT ![d] = 0]
    /\ acks' = [acks EXCEPT ![d] = 0]
    /\ UNCHANGED <<task, sweep, now, faults>>

\* retry_delivery; a locked row is refused.
RetryDelivery(d) ==
    /\ "retry" \in AdminOps
    /\ Unlocked(d)
    /\ SetRow(d, FreshRow(now))
    /\ lastSent' = [lastSent EXCEPT ![d] = 0]
    /\ acks' = [acks EXCEPT ![d] = 0]
    /\ UNCHANGED <<task, sweep, now, faults>>

\* complete_delivery, or the receiver's own UPDATE of processed_at.
CompleteDelivery(d) ==
    /\ "complete" \in AdminOps
    /\ SetRow(d, [row[d] EXCEPT !.processed = TRUE])
    /\ UNCHANGED <<task, sweep, now, faults, lastSent, acks>>

\* abandon_delivery
AbandonDelivery(d) ==
    /\ "abandon" \in AdminOps
    /\ SetRow(d, [row[d] EXCEPT !.dead_letter = TRUE])
    /\ UNCHANGED <<task, sweep, now, faults, lastSent, acks>>

-------------------------------------------------------------------------------
\* Time cannot pass a deadline that a step of (r, d) is due to meet.
Overdue(r, d) ==
    LET t == task[r][d] IN
    \/ t.pc \in {"locking", "locked"} /\ now >= t.at + LockLatency
    \/ t.pc = "calling" /\ now >= t.at + Timeout
    \/ t.pc = "writing" /\ now >= t.at + WriteLatency

Tick ==
    /\ now < MaxTime
    /\ \A r \in Replica, d \in Delivery : ~Overdue(r, d)
    /\ now' = now + 1
    /\ UNCHANGED <<row, task, sweep, faults, lastSent, acks>>

\* The exploration ends at MaxTime; the system itself never stops.
Horizon == now = MaxTime /\ UNCHANGED vars

DispatchOne(r, d) ==
    \/ DeadLetterPoison(r, d)
    \/ PoisonError(r, d)
    \/ BeginLock(r, d)
    \/ LockDelivery(r, d)
    \/ LockRefused(r, d)
    \/ LockError(r, d)
    \/ StartCall(r, d)
    \/ CallOk(r, d)
    \/ CallFailed(r, d)
    \/ CallTimedOut(r, d)
    \/ MarkDispatched(r, d)
    \/ MarkFailure(r, d)
    \/ WriteError(r, d)

Next ==
    \/ \E r \in Replica : Fetch(r) \/ BeginSweep(r) \/ EndSweep(r) \/ Crash(r)
    \/ \E r \in Replica, d \in Delivery : DispatchOne(r, d)
    \/ \E d \in Delivery : RetryDelivery(d) \/ CompleteDelivery(d) \/ AbandonDelivery(d)
    \/ Tick
    \/ Horizon

Spec == Init /\ [][Next]_vars

-------------------------------------------------------------------------------
\* dispatch_one of r owns a lease on d.
InFlight(r, d) == task[r][d].pc \in {"locked", "calling", "writing"}

(* While dispatch_one is between its lock and its write-back, the row still  *)
(* carries the lease it took, unexpired, and no success has been recorded.   *)
(* The code checks none of this after lock_delivery: its unconditional       *)
(* UPDATEs rely on it.                                                       *)
LeaseHeld ==
    \A r \in Replica, d \in Delivery : InFlight(r, d) =>
        /\ row[d].locked_until = task[r][d].until
        /\ now =< task[r][d].until
        /\ row[d].dispatched_at = NULL

(* Two replicas are never both between locking and writing back one row:     *)
(* locked_until prevents duplicate dispatch across replicas.                 *)
OneCallAtATime ==
    \A r, s \in Replica, d \in Delivery :
        InFlight(r, d) /\ InFlight(s, d) => r = s

(* Between two operator retries a managed row records one success and an     *)
(* external row at most one per completion cycle (dispatch_one and           *)
(* reset_hung_external).                                                     *)
AcksBounded ==
    \A d \in Delivery :
        acks[d] =< IF Mode[d] = "managed" THEN 1 ELSE MaxCycles

(* Only an operator's retry brings a dead letter back: no late mark_failure  *)
(* or sweep clears the flag.                                                 *)
DeadLetterIsFinal ==
    [][\A d \in Delivery : row[d].dead_letter /\ ~row'[d].dead_letter =>
            RetryDelivery(d)]_vars

(* Without operators' resets a row is a dead letter only after max_attempts  *)
(* charged attempts, an exhausted completion cycle or a rejected spec, even  *)
(* though dispatch_one decides from the attempts it read before locking.     *)
NoPrematureDeadLetter ==
    \A d \in Delivery : row[d].dead_letter =>
        \/ row[d].attempts >= MaxAttempts
        \/ row[d].cycles >= MaxCycles
        \/ \E r \in Replica : d \in Poison[r]

(* A failed attempt dead-letters the row exactly when the attempts charged   *)
(* to the row have reached max_attempts.                                     *)
DeadLetterByAttempts ==
    [][\A r \in Replica, d \in Delivery : MarkFailure(r, d) =>
            row'[d].dead_letter = (row[d].attempts >= MaxAttempts)]_vars

(* Retries are bounded: only a crash or a lost write-back lets a row be      *)
(* attempted more than max_attempts times, once for each.                    *)
AttemptsBounded ==
    \A d \in Delivery : row[d].attempts =< MaxAttempts + faults

(* A row is locked for dispatch only once its available_at has come.         *)
BackoffRespected ==
    [][\A r \in Replica, d \in Delivery : LockDelivery(r, d) =>
            row[d].available_at =< now]_vars

(* Every redelivery carries a higher attempt number than the request before. *)
RedeliveryRaisesAttempt ==
    [][\A r \in Replica, d \in Delivery : StartCall(r, d) =>
            task[r][d].attempts + 1 > lastSent[d]]_vars

(* A row that is already completed is not sent to its receiver.              *)
CompletedNotRedelivered ==
    [][\A r \in Replica, d \in Delivery : LockDelivery(r, d) =>
            ~row[d].processed]_vars

-------------------------------------------------------------------------------
(* The deployments for which the lease is enough.                            *)

\* The two database calls around a request fit in lock_buffer, less however
\* much a replica's clock is behind the database's.
LeaseCovered == \A r \in Replica : LockLatency + WriteLatency =< LockBuffer + Skew[r]

\* All replicas accept the same callback specs.
SameConfig == \A r, s \in Replica : Poison[r] = Poison[s]

\* No sweep statement of one replica overlaps a dispatch of another.
SweepsAlone ==
    \/ \A d \in Delivery : Mode[d] = "managed"
    \/ \A r, s \in Replica : r = s

\* What must be known of (r, d) for LeaseHeld to be inductive: the lease outlives
\* the deadline of the current phase and of those to come.
LeaseOK(r, d) ==
    LET t == task[r][d] IN
    /\ t.pc = "poison" => d \in Poison[r]
    /\ t.pc \in {"fetched", "locking", "locked", "calling", "writing"} =>
            d \notin Poison[r]
    /\ t.pc \in {"locking", "locked"} =>
            /\ now =< t.at + LockLatency
            /\ t.at + LockLatency + Timeout + WriteLatency =< t.until
    /\ t.pc = "calling" =>
            /\ now =< t.at + Timeout
            /\ t.at + Timeout + WriteLatency =< t.until
    /\ t.pc = "writing" =>
            /\ now =< t.at + WriteLatency
            /\ t.at + WriteLatency =< t.until
    /\ InFlight(r, d) =>
            /\ row[d].locked_until = t.until
            /\ row[d].dispatched_at = NULL
    /\ sweep[r][d] # NULL => t.pc = "idle" /\ Mode[d] = "external"

LeaseInv ==
    /\ \A r \in Replica, d \in Delivery : LeaseOK(r, d)
    /\ OneCallAtATime

\* What must be known of a row and of a pending sweep for AcksBounded to be
\* inductive: successes are counted by completion_cycles.
AckOK(d) ==
    LET x == row[d] IN
    IF Mode[d] = "managed"
    THEN acks[d] =< IF x.dispatched_at = NULL THEN 0 ELSE 1
    ELSE \/ x.dispatched_at = NULL /\ acks[d] =< x.cycles /\ x.cycles < MaxCycles
         \/ x.dispatched_at # NULL /\ acks[d] =< x.cycles + 1 /\ x.cycles < MaxCycles
         \/ /\ x.dispatched_at # NULL /\ x.dead_letter
            /\ acks[d] =< x.cycles /\ x.cycles =< MaxCycles

SweepOK(r, d) ==
    LET u == sweep[r][d] IN
    u # NULL =>
        /\ acks[d] =< u.cycles
        /\ IF u.dispatched_at = NULL
           THEN u.cycles < MaxCycles
           ELSE u.cycles =< MaxCycles /\ u.dead_letter

AckInv ==
    /\ \A d \in Delivery : AckOK(d)
    /\ \A r \in Replica, d \in Delivery : SweepOK(r, d)

-------------------------------------------------------------------------------
(* The promise of Lifecycle, seen through the columns of a row.              *)

\* Columns to state: a completed row is done whatever else was written to it.
StatusOf(x) ==
    IF x.processed THEN "done"
    ELSE IF x.dead_letter THEN "dead"
    ELSE IF x.dispatched_at # NULL THEN "accepted"
    ELSE "pending"

LifeOf(d) == [status |-> StatusOf(row[d]), sent |-> lastSent[d] > 0,
              recorded |-> acks[d]]

Lives == [d \in Delivery |-> LifeOf(d)]

L == INSTANCE Lifecycle WITH life <- Lives

(* Replicas, leases, lost write-backs and sweeps together implement          *)
(* Lifecycle: a delivery is done for good until an operator retries it, a    *)
(* dead letter is neither sent nor revived, and each completion cycle        *)
(* records one success, of a request that went out.                          *)
ImplementsLifecycle == L!Spec

\* No operator calls abandon_delivery, which does not look at the lease.
NoAbandon == "abandon" \notin AdminOps

\* What must be known besides LeaseInv and AckInv for the refinement: what is in
\* flight or being swept is not a dead letter, and a running call has been sent.
AliveOK(r, d) ==
    /\ InFlight(r, d) => ~row[d].dead_letter
    /\ task[r][d].pc \in {"calling", "writing"} => lastSent[d] > 0
    /\ sweep[r][d] # NULL => ~row[d].dead_letter

AliveInv == \A r \in Replica, d \in Delivery : AliveOK(r, d)
===============================================================================
