------------------------------ MODULE Scheduler ------------------------------
(***************************************************************************)
(* From outbox_events to outbox_deliveries (crates/core/src/scheduler.rs). *)
(*                                                                         *)
(* Publishers insert events; ids come from a sequence, in the order the    *)
(* INSERTs run, and become visible in the order the transactions commit.   *)
(* Each replica keeps a cursor in memory, recovers it from the database at *)
(* start, and turns the events after it into delivery rows.  The rescan    *)
(* command runs the same function from an earlier cursor.  The retention   *)
(* worker deletes terminal events, and their rows with them.               *)
(*                                                                         *)
(* What parse_callbacks finds in an event is a constant of the event here  *)
(* (module Callbacks defines it).  A delivery row is its event, its name,  *)
(* whether it is dead-lettered or processed, whether a request for it is   *)
(* under way, and the statement that inserted it, which orders rows as     *)
(* their ids do.  Of dispatch (module Dispatch) the actions here keep what *)
(* it writes into those columns.                                           *)
(***************************************************************************)
EXTENDS Integers, FiniteSets

CONSTANTS
    Event,             \* event ids, 1..N
    Name,              \* callback names
    Valid,             \* Valid[e]: names that become pending rows
    Invalid,           \* Invalid[e]: names that become dead letters
    Unstorable,        \* events for which an INSERT always fails
    Replica,           \* dispatcher processes
    Rescanner,         \* rescan commands
    ScheduleBatchSize, \* config.schedule_batch_size
    CommitInOrder,     \* TRUE: publishers commit in the order of their ids
    RescanFrom,        \* cursors a rescan may start from
    Retention,         \* config.retention.enabled
    LongWindow,        \* TRUE: the retention windows outlast any scheduling backlog
    MaxDisturbances    \* bound: database errors, crashes and operator requests explored

ASSUME SchedulerAssumption ==
    /\ Event \subseteq Nat \ {0}
    /\ IsFiniteSet(Event)
    /\ Valid \in [Event -> SUBSET Name]
    /\ Invalid \in [Event -> SUBSET Name]
    /\ \A e \in Event : Valid[e] \cup Invalid[e] # {} /\ Valid[e] \cap Invalid[e] = {}
    /\ Unstorable \subseteq Event
    /\ Replica \cap Rescanner = {}
    /\ ScheduleBatchSize \in Nat \ {0}
    /\ CommitInOrder \in BOOLEAN
    /\ RescanFrom \subseteq Event \cup {0}
    /\ Retention \in BOOLEAN
    /\ LongWindow \in BOOLEAN
    /\ MaxDisturbances \in Nat

VARIABLES
    event,       \* event[e]: what has become of the event
    deliveries,  \* the rows of outbox_deliveries
    proc,        \* proc[p]: a process running schedule_new_deliveries
    doomed,      \* the events a running DELETE of the retention worker selected
    revived,     \* their deliveries that became pending again since then
    disturbances \* database errors, crashes and operator requests so far

\* The retention worker's statement.
retention == <<doomed, revived>>

vars == <<event, deliveries, proc, doomed, revived, disturbances>>

-----------------------------------------------------------------------------
Process == Replica \cup Rescanner

EventState == {"unborn", "open", "committed", "aborted", "deleted"}

Row == [stmt : Nat \ {0}, event : Event, name : Name, dead_letter : BOOLEAN,
        processed : BOOLEAN, calling : BOOLEAN]

ProcState == [pc : {"down", "idle", "valid", "invalid"},
              cursor : Event \cup {0},
              batch : SUBSET Event]  \* fetched and not yet finished

TypeOK ==
    /\ event \in [Event -> EventState]
    /\ deliveries \subseteq Row
    /\ proc \in [Process -> ProcState]
    /\ doomed \subseteq Event
    /\ revived \subseteq Event \X Name
    /\ disturbances \in Nat

Down == [pc |-> "down", cursor |-> 0, batch |-> {}]

Init ==
    /\ event = [e \in Event |-> "unborn"]
    /\ deliveries = {}
    /\ proc = [p \in Process |-> Down]
    /\ doomed = {}
    /\ revived = {}
    /\ disturbances = 0

-----------------------------------------------------------------------------
Visible(e) == event[e] = "committed"

\* The event comes first in ORDER BY id.
First(S) == CHOOSE e \in S : \A f \in S : e =< f

Stored(e) == {x.name : x \in {y \in deliveries : y.event = e}}

\* The callbacks of e that the first INSERT for it writes: the valid ones, and the
\* rejected ones when there are no others.
Foremost(e) == IF Valid[e] # {} THEN Valid[e] ELSE Invalid[e]

\* Each of them has its row.
Scheduled(e) == Foremost(e) \subseteq Stored(e)

Disturb == disturbances < MaxDisturbances /\ disturbances' = disturbances + 1

Set(p, state) == proc' = [proc EXCEPT ![p] = state]

\* Publisher transactions, outside the repository's code.
Begin(e) ==
    /\ event[e] = "unborn"
    /\ \A f \in Event : f < e => event[f] # "unborn"
    /\ event' = [event EXCEPT ![e] = "open"]
    /\ UNCHANGED <<deliveries, proc, retention, disturbances>>

Commit(e) ==
    /\ event[e] = "open"
    /\ CommitInOrder => \A f \in Event : f < e => event[f] # "open"
    /\ event' = [event EXCEPT ![e] = "committed"]
    /\ UNCHANGED <<deliveries, proc, retention, disturbances>>

Abort(e) ==
    /\ event[e] = "open"
    /\ event' = [event EXCEPT ![e] = "aborted"]
    /\ UNCHANGED <<deliveries, proc, retention, disturbances>>

\* A cursor that starts below every id when there is no row.
RecoveredCursorBefore ==
    IF deliveries = {}
    THEN -1
    ELSE (CHOOSE x \in deliveries : \A y \in deliveries : y.stmt =< x.stmt).event

\* recover_cursor: the event of the row inserted last, or 0.
RecoveredCursor ==
    IF deliveries = {}
    THEN 0
    ELSE (CHOOSE x \in deliveries : \A y \in deliveries : y.stmt =< x.stmt).event

\* run_scheduler recovers the cursor and enters its loop.
Start(r) ==
    /\ proc[r].pc = "down"
    /\ Set(r, [Down EXCEPT !.pc = "idle", !.cursor = RecoveredCursor])
    /\ UNCHANGED <<event, deliveries, retention, disturbances>>

\* The rescan command starts from the last event created before --since.
StartRescan(p) ==
    /\ proc[p].pc = "down"
    /\ \E c \in RescanFrom :
        /\ c # 0 => Visible(c)
        /\ Set(p, [Down EXCEPT !.pc = "idle", !.cursor = c])
    /\ UNCHANGED <<event, deliveries, retention, disturbances>>

\* A fetch that forgets ORDER BY id.
NewEventsUnordered(cursor) ==
    LET new == {e \in Event : Visible(e) /\ e > cursor} IN
    IF Cardinality(new) =< ScheduleBatchSize
    THEN new
    ELSE {e \in new : Cardinality({f \in new : f > e}) < ScheduleBatchSize}

\* WHERE id > cursor ORDER BY id LIMIT schedule_batch_size
NewEvents(cursor) ==
    LET new == {e \in Event : Visible(e) /\ e > cursor} IN
    {e \in new : Cardinality({f \in new : f < e}) < ScheduleBatchSize}

\* Where the loop over the batch continues: ensure_deliveries is skipped when
\* nothing is valid.  An oversized payload or a rejected array has no valid name.
Enter(S) ==
    IF S = {} THEN "idle" ELSE IF Valid[First(S)] # {} THEN "valid" ELSE "invalid"

\* fetch_new_events finds something.
FetchNewEvents(p) ==
    LET s == proc[p] new == NewEvents(s.cursor) IN
    /\ s.pc = "idle"
    /\ new # {}
    /\ Set(p, [s EXCEPT !.pc = Enter(new), !.batch = new])
    /\ UNCHANGED <<event, deliveries, retention, disturbances>>

\* fetch_new_events finds nothing: a replica waits, a rescan is complete.
FetchNothing(p) ==
    /\ proc[p].pc = "idle"
    /\ NewEvents(proc[p].cursor) = {}
    /\ Set(p, IF p \in Rescanner THEN Down ELSE proc[p])
    /\ UNCHANGED <<event, deliveries, retention, disturbances>>

\* INSERT ... ON CONFLICT DO NOTHING, one statement.
Insert(e, names, dead) ==
    LET last == IF deliveries = {}
                THEN 0
                ELSE (CHOOSE x \in deliveries : \A y \in deliveries : y.stmt =< x.stmt).stmt
    IN  deliveries' = deliveries \cup
            {[stmt |-> last + 1, event |-> e, name |-> n, dead_letter |-> dead,
              processed |-> FALSE, calling |-> FALSE] : n \in names \ Stored(e)}

\* The foreign key and the table accept rows for e.
Accepts(e) == Visible(e) /\ e \notin Unstorable

\* new_cursor = event.id, which the caller sees when the whole batch is done.
Finish(p, e) ==
    LET s == proc[p] rest == s.batch \ {e} IN
    Set(p, [s EXCEPT !.pc = Enter(rest),
                     !.batch = rest,
                     !.cursor = IF rest = {} THEN e ELSE s.cursor])

\* ensure_deliveries for the valid callbacks.
EnsureDeliveries(p) ==
    LET e == First(proc[p].batch) IN
    /\ proc[p].pc = "valid"
    /\ Accepts(e)
    /\ Insert(e, Valid[e], FALSE)
    /\ IF Invalid[e] # {} THEN Set(p, [proc[p] EXCEPT !.pc = "invalid"]) ELSE Finish(p, e)
    /\ UNCHANGED <<event, retention, disturbances>>

\* create_invalid_deliveries for the rest.
CreateInvalidDeliveries(p) ==
    LET e == First(proc[p].batch) IN
    /\ proc[p].pc = "invalid"
    /\ Accepts(e)
    /\ Insert(e, Invalid[e], TRUE)
    /\ Finish(p, e)
    /\ UNCHANGED <<event, retention, disturbances>>

\* GiveUp that keeps the cursor of the events already finished, and moves it past
\* the one that failed.
GiveUpAndSkip(p) ==
    Set(p, IF p \in Rescanner
           THEN Down
           ELSE [proc[p] EXCEPT !.pc = "idle", !.batch = {},
                                !.cursor = First(proc[p].batch)])

\* The ? on a failed write drops the batch and leaves the cursor where it was.
\* A rescan exits.
GiveUp(p) ==
    Set(p, IF p \in Rescanner
           THEN Down
           ELSE [proc[p] EXCEPT !.pc = "idle", !.batch = {}])

\* The write fails because of the event: its parent row is gone, or the table
\* rejects it.
WriteRejected(p) ==
    /\ proc[p].pc \in {"valid", "invalid"}
    /\ ~Accepts(First(proc[p].batch))
    /\ GiveUp(p)
    /\ UNCHANGED <<event, deliveries, retention, disturbances>>

\* The write fails because of the database.
WriteError(p) ==
    /\ proc[p].pc \in {"valid", "invalid"}
    /\ Disturb
    /\ GiveUp(p)
    /\ UNCHANGED <<event, deliveries, retention>>

Crash(p) ==
    /\ proc[p].pc # "down"
    /\ Disturb
    /\ Set(p, Down)
    /\ UNCHANGED <<event, deliveries, retention>>

Pending(x) == ~x.processed /\ ~x.dead_letter

\* An UPDATE turns row x into y.
Update(x, y) ==
    /\ deliveries' = (deliveries \ {x}) \cup {y}
    /\ revived' = revived \cup
            (IF x.event \in doomed /\ ~Pending(x) /\ Pending(y) THEN {<<x.event, x.name>>} ELSE {})
    /\ UNCHANGED <<event, proc, doomed>>

\* A dispatcher fetches and locks a pending row and calls its receiver.  The lease
\* outlasts the request (LeaseHeld of module Dispatch).
LockDelivery(x) ==
    /\ Pending(x) /\ ~x.calling
    /\ Update(x, [x EXCEPT !.calling = TRUE])
    /\ UNCHANGED disturbances

\* The spec of a pending row is rejected at dispatch, or its last completion cycle
\* has run out at a sweep.
RejectDelivery(x) ==
    /\ Pending(x) /\ ~x.calling
    /\ Update(x, [x EXCEPT !.dead_letter = TRUE])
    /\ UNCHANGED disturbances

\* The request ends.  mark_dispatched_managed sets processed_at; mark_failure sets or
\* clears dead_letter, whatever the row has become since it was locked.  The row stays
\* as it is when an external receiver accepts, the write fails or the process dies.
FinishDelivery(x) ==
    /\ x.calling
    /\ \E y \in {x, [x EXCEPT !.processed = TRUE]} \cup {[x EXCEPT !.dead_letter = d] : d \in BOOLEAN} :
          Update(x, [y EXCEPT !.calling = FALSE])
    /\ UNCHANGED disturbances

\* An operator's retry_delivery makes a row pending again unless it is locked;
\* complete_delivery and abandon_delivery take any row.
Operate(x) ==
    /\ Disturb
    /\ \/ ~x.calling /\ Update(x, [x EXCEPT !.processed = FALSE, !.dead_letter = FALSE])
       \/ Update(x, [x EXCEPT !.processed = TRUE])
       \/ Update(x, [x EXCEPT !.dead_letter = TRUE])

\* A query that is satisfied with one finished row.
TerminalAnyRow(e) ==
    \E x \in deliveries : x.event = e /\ ~Pending(x)

\* NOT EXISTS (a row of e that is neither processed nor dead-lettered)
Terminal(e) ==
    ~\E x \in deliveries : x.event = e /\ Pending(x)

Deletable(e) == Visible(e) /\ Terminal(e) /\ (LongWindow => Scheduled(e))

\* delete_terminal_events selects terminal events past their window, up to its
\* limit, from the statement's snapshot ...
SelectTerminalEvents ==
    /\ Retention
    /\ doomed = {}
    /\ \E old \in SUBSET {e \in Event : Deletable(e)} : old # {} /\ doomed' = old
    /\ revived' = {}
    /\ UNCHANGED <<event, deliveries, proc, disturbances>>

\* ... and deletes them by id; ON DELETE CASCADE takes their rows.
DeleteTerminalEvents ==
    /\ doomed # {}
    /\ event' = [e \in Event |-> IF e \in doomed THEN "deleted" ELSE event[e]]
    /\ deliveries' = {x \in deliveries : x.event \notin doomed}
    /\ doomed' = {} /\ revived' = {}
    /\ UNCHANGED <<proc, disturbances>>

Step(p) ==
    \/ FetchNewEvents(p)
    \/ FetchNothing(p)
    \/ EnsureDeliveries(p)
    \/ CreateInvalidDeliveries(p)
    \/ WriteRejected(p)

Next ==
    \/ \E e \in Event : Begin(e) \/ Commit(e) \/ Abort(e)
    \/ \E r \in Replica : Start(r)
    \/ \E p \in Rescanner : StartRescan(p)
    \/ \E p \in Process : Step(p) \/ WriteError(p) \/ Crash(p)
    \/ \E x \in deliveries : LockDelivery(x) \/ RejectDelivery(x) \/ FinishDelivery(x) \/ Operate(x)
    \/ SelectTerminalEvents
    \/ DeleteTerminalEvents

Spec == Init /\ [][Next]_vars

\* A replica is restarted when it is down and its loop wakes at every poll.
Fairness == \A r \in Replica : WF_vars(Start(r)) /\ WF_vars(Step(r))

FairSpec == Spec /\ Fairness

-----------------------------------------------------------------------------
(* No event is left behind: a visible event at or before a running replica's *)
(* cursor, which schedule_new_deliveries will never look at again, has a row *)
(* for each valid callback, and for each rejected one when none is valid.    *)
(* (Rejected callbacks beside valid ones take a second INSERT, and a crash   *)
(* in between can leave them without their dead letters.)                    *)
NoEventSkipped ==
    \A r \in Replica, e \in Event :
        proc[r].pc # "down" /\ Visible(e) /\ e =< proc[r].cursor => Scheduled(e)

(* Every committed event gets those delivery rows in the end, unless         *)
(* retention removes it.                                                     *)
EventuallyScheduled ==
    \A e \in Event : Visible(e) ~> Scheduled(e) \/ event[e] = "deleted"

(* One bad event does not block the rest: every other committed event is     *)
(* scheduled in the end.                                                     *)
OthersScheduled ==
    \A e \in Event \ Unstorable : Visible(e) ~> Scheduled(e) \/ event[e] = "deleted"

(* recover_cursor returns the highest event id that has a delivery row.      *)
RecoversHighest ==
    \A x \in deliveries : x.event =< RecoveredCursor

(* Retention takes no pending delivery with it that was pending, or not yet  *)
(* there, when its statement selected: the scheduler and rescans insert      *)
(* nothing pending for a selected event, and the only deliveries lost are    *)
(* those an operator's retry, or the mark_failure of a request that outlived *)
(* its row's dead-lettering, made pending again while the statement ran.     *)
RetentionSparesPending ==
    [][\A x \in deliveries :
          event'[x.event] = "deleted" /\ Pending(x) => <<x.event, x.name>> \in revived]_vars
=============================================================================
