------------------------------ MODULE WakeLoop ------------------------------
(***************************************************************************)
(* The loop that drives a replica: run_scheduler_with_cycle_tracker in     *)
(* crates/core/src/scheduler.rs.  It sleeps until shutdown, a NOTIFY or    *)
(* the poll timer, in that order of preference, and then schedules,        *)
(* dispatches and sweeps.  /ready (crates/admin-api/src/routes.rs) tells   *)
(* from outside whether it does.                                           *)
(*                                                                         *)
(* What there is to do: a number of events to schedule, and whether there  *)
(* are deliveries due and hung external deliveries.  Time is counted from  *)
(* the last completed cycle.  The sweep's timer is a flag that comes true  *)
(* by itself.  recv and try_recv belong to sqlx, in the locked version     *)
(* 0.8.6: try_recv returns the next notification, waits when there is none, *)
(* and returns None only after it lost the connection; recv calls it until *)
(* there is a notification.  Both reconnect by themselves, and return an   *)
(* error when that fails.                                                  *)
(***************************************************************************)
EXTENDS Integers

CONSTANTS
    ScheduleBatchSize, \* config.schedule_batch_size
    PollInterval,      \* config.poll_interval
    MaxBusy,           \* bound: duration of a cycle, backoff included
    MaxEvents,         \* bound: events published
    MaxFaults          \* bound: database errors explored

ASSUME WakeAssumption ==
    /\ ScheduleBatchSize \in Nat \ {0}
    /\ PollInterval \in Nat \ {0}
    /\ MaxBusy \in Nat
    /\ MaxEvents \in Nat
    /\ MaxFaults \in Nat

VARIABLES
    pc,              \* where the loop is
    events,          \* number of events committed and not scheduled
    published,       \* number of events committed so far
    due,             \* deliveries due
    hung,            \* external deliveries past their timeout
    connected,       \* the LISTEN connection is up
    listener_status, \* what /ready is told of it
    notes,           \* notifications received and not read
    until_poll,      \* time until next_poll
    since_cycle,     \* time since last_cycle_at, -1 while it is 0
    busy,            \* time since the loop woke up
    clean,           \* no scheduling error since the last completed cycle
    sweep_due,       \* sweep_interval has passed since last_sweep
    shutdown,        \* the token is cancelled
    faults           \* database errors so far

work == <<events, published, due, hung>>
timers == <<until_poll, since_cycle, busy, clean, sweep_due>>
cycle == <<since_cycle, busy, clean>>
vars == <<pc, work, connected, listener_status, notes, timers, shutdown, faults>>

TypeOK ==
    /\ pc \in {"exited", "wait", "drain", "schedule", "backoff", "dispatch", "sweep", "stopped"}
    /\ due \in BOOLEAN /\ hung \in BOOLEAN
    /\ connected \in BOOLEAN /\ listener_status \in BOOLEAN
    /\ clean \in BOOLEAN /\ sweep_due \in BOOLEAN /\ shutdown \in BOOLEAN
    /\ events \in 0..published /\ published \in 0..MaxEvents
    /\ notes \in 0..MaxEvents
    /\ until_poll \in 0..PollInterval
    /\ since_cycle \in -1..(2 * PollInterval + 1)
    /\ busy \in 0..MaxBusy
    /\ faults \in 0..MaxFaults

Init ==
    /\ pc = "exited"
    /\ events = 0 /\ published = 0
    /\ due = FALSE /\ hung = FALSE
    /\ connected = FALSE /\ listener_status = FALSE
    /\ notes = 0
    /\ until_poll = PollInterval /\ since_cycle = -1 /\ busy = 0
    /\ clean = TRUE /\ sweep_due = FALSE
    /\ shutdown = FALSE
    /\ faults = 0

-----------------------------------------------------------------------------
Fault == faults < MaxFaults /\ faults' = faults + 1

Go(from, to) == pc = from /\ pc' = to

\* A publisher commits; the trigger notifies whoever listens.
Publish ==
    /\ published < MaxEvents
    /\ published' = published + 1
    /\ events' = events + 1
    /\ notes' = IF connected THEN notes + 1 ELSE notes
    /\ UNCHANGED <<pc, due, hung, connected, listener_status, timers, shutdown, faults>>

\* A row's available_at or its completion timeout passes.
BecomesDue ==
    /\ due' = TRUE
    /\ UNCHANGED <<pc, events, published, hung, connected, listener_status, notes, timers, shutdown, faults>>

BecomesHung ==
    /\ hung' = TRUE
    /\ UNCHANGED <<pc, events, published, due, connected, listener_status, notes, timers, shutdown, faults>>

\* The LISTEN connection breaks, and what was on its way is lost.
Disconnect ==
    /\ connected
    /\ connected' = FALSE
    /\ notes' = 0
    /\ UNCHANGED <<pc, work, listener_status, timers, shutdown, faults>>

\* recv notices and reconnects.
Reconnect ==
    /\ pc = "wait"
    /\ ~connected
    /\ connected' = TRUE
    /\ UNCHANGED <<pc, work, listener_status, notes, timers, shutdown, faults>>

\* recv or the poll timer lets the loop go on at once.
Awake == shutdown \/ notes > 0 \/ until_poll = 0

\* Time passes while the loop sleeps, and, up to a bound, while it works.
Tick ==
    /\ IF pc = "wait" THEN ~Awake ELSE pc \notin {"exited", "stopped"} /\ busy < MaxBusy
    /\ until_poll' = IF until_poll > 0 THEN until_poll - 1 ELSE 0
    /\ since_cycle' = IF since_cycle \in 0..(2 * PollInterval) THEN since_cycle + 1 ELSE since_cycle
    /\ busy' = IF pc = "wait" THEN 0 ELSE busy + 1
    /\ UNCHANGED <<pc, work, connected, listener_status, notes, clean, sweep_due, shutdown, faults>>

SweepTimer ==
    /\ ~sweep_due
    /\ sweep_due' = TRUE
    /\ UNCHANGED <<pc, work, connected, listener_status, notes, until_poll, cycle, shutdown, faults>>

\* SIGINT, SIGTERM or a failed admin server.
Cancel ==
    /\ shutdown' = TRUE
    /\ UNCHANGED <<pc, work, connected, listener_status, notes, timers, faults>>

\* LISTEN and recover_cursor succeed.
Start ==
    /\ Go("exited", "wait")
    /\ connected' = TRUE
    /\ listener_status' = TRUE
    /\ notes' = 0
    /\ until_poll' = PollInterval
    /\ sweep_due' = FALSE
    /\ UNCHANGED <<work, cycle, shutdown, faults>>

WakeShutdown ==
    /\ Go("wait", "stopped")
    /\ shutdown
    /\ listener_status' = FALSE
    /\ UNCHANGED <<work, connected, notes, timers, shutdown, faults>>

\* recv returns a notification.
WakeNotify ==
    /\ Go("wait", "drain")
    /\ ~shutdown
    /\ notes > 0
    /\ notes' = notes - 1
    /\ listener_status' = TRUE
    /\ UNCHANGED <<work, connected, timers, shutdown, faults>>

\* recv returns an error: it could not reconnect.
WakeLost ==
    /\ Go("wait", "drain")
    /\ ~shutdown
    /\ ~connected
    /\ listener_status' = FALSE
    /\ UNCHANGED <<work, connected, notes, timers, shutdown, faults>>

\* A poll branch that needs a live listener.
WakePollConnected ==
    /\ Go("wait", "drain")
    /\ ~shutdown
    /\ notes > 0
    /\ until_poll = 0
    /\ UNCHANGED <<work, connected, listener_status, notes, timers, shutdown, faults>>

\* The poll timer, when recv has nothing to return.
WakePoll ==
    /\ Go("wait", "drain")
    /\ ~shutdown
    /\ notes = 0
    /\ until_poll = 0
    /\ UNCHANGED <<work, connected, listener_status, notes, timers, shutdown, faults>>

\* try_recv returns a notification, and the drain loop calls it again.
DrainNote ==
    /\ Go("drain", "drain")
    /\ notes > 0
    /\ notes' = notes - 1
    /\ UNCHANGED <<work, connected, listener_status, timers, shutdown, faults>>

\* A drain loop that goes on after a reconnection, as recv does.
DrainEnd_recv ==
    /\ pc = "drain"
    /\ notes = 0 /\ ~connected
    /\ connected' \in BOOLEAN
    /\ pc' = IF connected' THEN "drain" ELSE "schedule"
    /\ UNCHANGED <<work, notes, listener_status, timers, shutdown, faults>>

\* try_recv finds the connection lost: it reconnects and returns None, or fails.
\* While the connection is up and silent it waits, and the loop with it.
DrainEnd ==
    /\ Go("drain", "schedule")
    /\ notes = 0 /\ ~connected
    /\ connected' \in BOOLEAN
    /\ UNCHANGED <<work, notes, listener_status, timers, shutdown, faults>>

\* ScheduleOk that counts a full batch every time.
ScheduleOkFull ==
    /\ Go("schedule", "dispatch")
    /\ events' = events - ScheduleBatchSize
    /\ due' = (due \/ events > 0)
    /\ UNCHANGED <<published, hung, connected, listener_status, notes, timers, shutdown, faults>>

\* schedule_new_deliveries; what a batch leaves waits for the next cycle.
ScheduleOk ==
    /\ Go("schedule", "dispatch")
    /\ events' = IF events > ScheduleBatchSize THEN events - ScheduleBatchSize ELSE 0
    /\ due' = (due \/ events > 0)
    /\ UNCHANGED <<published, hung, connected, listener_status, notes, timers, shutdown, faults>>

ScheduleError ==
    /\ Go("schedule", "backoff")
    /\ Fault
    /\ clean' = FALSE
    /\ UNCHANGED <<work, connected, listener_status, notes, until_poll, since_cycle, busy, sweep_due, shutdown>>

\* The capped sleep ends: the poll timer is reset, the rest of the cycle skipped.
Backoff ==
    /\ Go("backoff", "wait")
    /\ until_poll' = PollInterval
    /\ busy' = 0
    /\ UNCHANGED <<work, connected, listener_status, notes, since_cycle, clean, sweep_due, shutdown, faults>>

\* dispatch_due; what it could not finish is due again.
Dispatch ==
    /\ Go("dispatch", "sweep")
    /\ due' = FALSE
    /\ UNCHANGED <<events, published, hung, connected, listener_status, notes, timers, shutdown, faults>>

DispatchError ==
    /\ Go("dispatch", "sweep")
    /\ Fault
    /\ UNCHANGED <<work, connected, listener_status, notes, timers, shutdown>>

\* next_poll and last_cycle_at at the end of a cycle.
Completed ==
    /\ Go("sweep", "wait")
    /\ until_poll' = PollInterval
    /\ since_cycle' = 0
    /\ busy' = 0
    /\ clean' = TRUE
    /\ sweep_due' = FALSE

\* EndCycle that restarts the interval before it looks at it.
EndCycleNoSweep ==
    /\ Completed
    /\ UNCHANGED <<work, connected, listener_status, notes, shutdown, faults>>

\* The sweep runs when its interval has passed.
EndCycle ==
    /\ Completed
    /\ hung' = (hung /\ ~sweep_due)
    /\ UNCHANGED <<events, published, due, connected, listener_status, notes, shutdown, faults>>

SweepError ==
    /\ sweep_due
    /\ Completed
    /\ Fault
    /\ UNCHANGED <<work, connected, listener_status, notes, shutdown>>

Loop ==
    \/ WakeShutdown
    \/ WakeNotify
    \/ WakeLost
    \/ WakePoll
    \/ DrainNote
    \/ DrainEnd
    \/ ScheduleOk
    \/ ScheduleError
    \/ Backoff
    \/ Dispatch
    \/ DispatchError
    \/ EndCycle
    \/ SweepError

Next ==
    \/ Publish
    \/ BecomesDue
    \/ BecomesHung
    \/ Disconnect
    \/ Reconnect
    \/ Tick
    \/ SweepTimer
    \/ Cancel
    \/ Start
    \/ Loop

\* The process is started, its task is polled, timers fire.  Nothing is assumed of
\* publishers, operators, the listener or its notifications.
Fairness ==
    /\ WF_vars(Start)
    /\ WF_vars(Loop)
    /\ WF_vars(Tick)
    /\ WF_vars(SweepTimer)

Spec == Init /\ [][Next]_vars /\ Fairness

-----------------------------------------------------------------------------
\* The deadline taken as an open interval.
last_cycle_ok_strict == since_cycle >= 0 /\ since_cycle < 2 * PollInterval

\* The heartbeat in GET /ready.
last_cycle_ok == since_cycle >= 0 /\ since_cycle =< 2 * PollInterval

\* GET /ready: whether it answers 200, by the outcome of the ping.
ready(db_reachable) == db_reachable /\ listener_status /\ last_cycle_ok

(* The heartbeat follows the loop.  Once a cycle has completed, a loop whose *)
(* cycles take no longer than poll_interval and meet no scheduling error is  *)
(* never reported late, however its wake-ups and its timer fall; and a loop  *)
(* that is not running, or is stuck in a cycle for more than twice           *)
(* poll_interval, is not reported ready.                                     *)
ReadyFollowsLoop ==
    /\ since_cycle >= 0 /\ clean /\ busy =< PollInterval => last_cycle_ok
    /\ ready(TRUE) => pc \notin {"exited", "stopped"} /\ busy =< 2 * PollInterval

\* The LISTEN connection is lost again and again, or is down for good.  The drain
\* loop ends only then.
ConnectionFails == []<>~connected

(* As long as the connection keeps failing, the poll timer is enough: a      *)
(* backlog of any size is scheduled in the end, even when every notification *)
(* is lost or was drained with an earlier batch and database errors make the *)
(* loop back off.                                                            *)
BacklogDrains == ConnectionFails => (events > 0 ~> events = 0 \/ shutdown)

(* As long as the connection keeps failing, a hung external delivery is      *)
(* swept in the end: neither scheduling errors, which skip the rest of a     *)
(* cycle, nor a stream of wake-ups starve the rate-limited sweep.            *)
HungSwept == ConnectionFails => (hung ~> ~hung \/ shutdown)

(* After the token is cancelled the loop finishes its cycle and returns,     *)
(* from wherever it is, if the connection keeps failing.                     *)
ShutdownCompletes == ConnectionFails => (shutdown ~> pc = "stopped")

(* scheduler.rs names the poll timer as the fallback when the connection is  *)
(* lost or too quiet: a published event is scheduled in the end, whether or  *)
(* not the connection ever fails.                                            *)
PollSuffices == events > 0 ~> events = 0 \/ shutdown

(* listener_status is true while the LISTEN connection is up: once it is up  *)
(* for good, the flag comes true.                                            *)
StatusRecovers == <>[](connected /\ ~shutdown) => []<>listener_status
=============================================================================
