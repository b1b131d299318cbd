-------------------------------- MODULE Admin --------------------------------
(***************************************************************************)
(* The admin API (crates/admin-api) and the statistics sampler of          *)
(* crates/bin/src/main.rs over a table of deliveries that the rest of the  *)
(* service changes between any two of their statements.                    *)
(*                                                                         *)
(* One reader, the operator or the sampler, makes requests.  Each SQL      *)
(* statement of a request is a step of its own.  What the dispatcher, the  *)
(* sweeper, the receivers and retention do to a row is in module Dispatch; *)
(* here a row takes any of those steps.                                    *)
(***************************************************************************)
EXTENDS Integers, FiniteSetsExt, Functions, Sequences

CONSTANTS
    Names,      \* callback names
    Tables,     \* initial tables, functions from delivery ids to rows
    Inserts,    \* rows scheduled later, a function of the next ids
    Uuids,      \* events that may be published
    Requests,   \* the operator's requests
    Token,      \* admin.auth_token
    MaxChanges, \* bound: changes of the table by the rest of the service
    MaxTicks,   \* bound: ticks of the sampler
    NULL

\* A row of outbox_deliveries; dispatched_at is unset, recent or old.
Row == [event : STRING, callback : Names, mode : {"managed", "external"},
        dispatched : {"no", "recent", "old"}, processed : BOOLEAN, dead : BOOLEAN,
        locked : BOOLEAN]

Lists == {"dead-letters", "external-pending"}
Mutations == {"retry", "complete", "abandon"}

ASSUME AdminAssumption ==
    /\ MaxChanges \in Nat
    /\ MaxTicks \in Nat
    /\ NULL \notin Int
    /\ DOMAIN Inserts \subseteq Nat
    /\ \A id \in DOMAIN Inserts : Inserts[id] \in Row
    /\ \A t \in Tables :
          /\ IsFiniteSet(DOMAIN t) /\ DOMAIN t \subseteq Nat
          /\ \A id \in DOMAIN t : t[id] \in Row /\ \A new \in DOMAIN Inserts : id < new
    /\ \A req \in Requests :
          /\ req.path \in Lists \cup Mutations \cup {"events", "stats"}
          /\ req.path \in Lists => req.limit \in Int

VARIABLES
    reader,  \* "operator" or "sampler"
    rows,    \* outbox_deliveries: id to row
    changes, \* changes of the table so far
    published, \* the events ever inserted into outbox_events
    deleted, \* those that retention has deleted
    call,    \* the request in progress
    sampler  \* last_callbacks, the gauges, ticks; latest: the last stats fetched

history == <<changes, published, deleted>>
vars == <<reader, rows, history, call, sampler>>

Idle ==
    [pc |-> "idle", req |-> NULL, pages |-> << >>, cursor |-> NULL, found |-> {},
     stats |-> << >>, answer |-> NULL, stable |-> {}, present |-> {}, moved |-> FALSE]

-----------------------------------------------------------------------------
\* The conditions of the queries.
Pending(row) == row.dispatched = "no" /\ ~row.processed /\ ~row.dead
Awaiting(row) ==
    row.mode = "external" /\ row.dispatched # "no" /\ ~row.processed /\ ~row.dead

\* The rows of outbox_events, also those without a delivery.
Events == published \ deleted
Of(table, event) == {id \in DOMAIN table : table[id].event = event}

Without(table, ids) == [id \in DOMAIN table \ ids |-> table[id]]

\* The rows a list is about; an age is taken as recent or old.
Matches(row, req) ==
    /\ req.callback_name \in {NULL, row.callback}
    /\ CASE req.path = "dead-letters" -> row.dead
         [] req.path = "external-pending" ->
                Awaiting(row) /\ (req.older_than = "old" => row.dispatched = "old")

Matching(table, req) == {id \in DOMAIN table : Matches(table[id], req)}

-----------------------------------------------------------------------------
\* What one statement elsewhere makes of a row.  lock_delivery leases it, or
\* fetch_due gives it up because its callback does not parse.  A leased row is
\* acknowledged, or released when the lease runs out, or fails, which sets or
\* clears the dead letter, or is completed by its receiver.  A delivery that waits
\* for its completion is completed, reset, given up, or grows old.
Successors(row) ==
    (IF row.dispatched = "no" /\ ~row.dead /\ ~row.locked
     THEN {[row EXCEPT !.locked = TRUE], [row EXCEPT !.dead = TRUE]}
     ELSE {})
    \cup (IF row.locked
          THEN {[row EXCEPT !.locked = FALSE, !.dispatched = "recent",
                            !.processed = (row.mode = "managed") \/ @],
                [row EXCEPT !.locked = FALSE], [row EXCEPT !.processed = TRUE]}
               \cup {[row EXCEPT !.locked = FALSE, !.dead = dead_letter] :
                        dead_letter \in BOOLEAN}
          ELSE {})
    \cup (IF Awaiting(row)
          THEN {[row EXCEPT !.processed = TRUE], [row EXCEPT !.dispatched = "no"],
                [row EXCEPT !.dead = TRUE], [row EXCEPT !.dispatched = "old"]}
          ELSE {})

\* A change of the table.  A list's stable rows are those it is about all the time.
Becomes(table) ==
    /\ changes < MaxChanges
    /\ changes' = changes + 1
    /\ rows' = table
    /\ call' = [call EXCEPT !.moved = TRUE,
                            !.stable = @ \cap IF call.pc \in Lists
                                              THEN Matching(table, call.req) ELSE {}]
    /\ UNCHANGED <<reader, sampler>>

Work == \E id \in DOMAIN rows : \E row \in Successors(rows[id]) :
    /\ Becomes([rows EXCEPT ![id] = row])
    /\ UNCHANGED <<published, deleted>>

\* A producer's INSERT INTO outbox_events.
Emit == \E event \in Uuids \ published :
    /\ published' = published \cup {event}
    /\ UNCHANGED deleted
    /\ Becomes(rows)

\* ensure_deliveries: the next id, for an event that exists (a foreign key).
Insert == \E id \in DOMAIN Inserts \ DOMAIN rows :
    /\ Inserts[id].event \in Events
    /\ \A other \in DOMAIN Inserts :
          other < id => other \in DOMAIN rows \/ Inserts[other].event \in deleted
    /\ UNCHANGED <<published, deleted>>
    /\ Becomes([i \in DOMAIN rows \cup {id} |-> IF i = id THEN Inserts[id] ELSE rows[i]])

\* delete_terminal_events: the event goes, and its deliveries with it.
DeleteTerminal == \E event \in Events :
    /\ \A id \in Of(rows, event) : rows[id].processed \/ rows[id].dead
    /\ deleted' = deleted \cup {event}
    /\ UNCHANGED published
    /\ Becomes(Without(rows, Of(rows, event)))

-----------------------------------------------------------------------------
Answer(code) == [call EXCEPT !.pc = "done", !.answer = code]

\* require_bearer_token: the scheme in any case, the token to the byte.
Authorised(auth) == auth # NULL /\ auth.scheme = "bearer" /\ auth.token = Token

\* The router: a request is let through, or answered with 401.
Begin(req) ==
    /\ reader = "operator"
    /\ call.pc = "idle"
    /\ call' = [Idle EXCEPT !.req = req,
                            !.pc = IF Authorised(req.auth) THEN req.path ELSE "done",
                            !.answer = IF Authorised(req.auth) THEN NULL ELSE 401,
                            !.stable = IF req.path \in Lists THEN Matching(rows, req) ELSE {},
                            !.present = DOMAIN rows]
    /\ UNCHANGED <<reader, rows, history, sampler>>

\* internal_error
DatabaseError ==
    /\ call.pc \notin {"idle", "done"}
    /\ call' = Answer(500)
    /\ UNCHANGED <<reader, rows, history, sampler>>

clamp(limit) == IF limit < 1 THEN 1 ELSE IF limit > 200 THEN 200 ELSE limit

\* A next_cursor that compares with the limit of the query string.
next_cursor_raw(items, req) ==
    IF items # {} /\ Cardinality(items) = req.limit THEN Min(items) ELSE NULL

\* The last item's id when the page is full.
next_cursor(items, req) ==
    IF Cardinality(items) = clamp(req.limit) THEN Min(items) ELSE NULL

\* ORDER BY id DESC LIMIT limit
Page(ids, limit) == {id \in ids : Cardinality({other \in ids : other > id}) < limit}

\* list_dead_letters and list_external_pending: the highest ids below the cursor.
\* The operator asks for the next page while there is one.  A negative age does
\* not convert to a Duration and ends the connection without an answer.
List ==
    /\ call.pc \in Lists
    /\ LET ids == {id \in Matching(rows, call.req) : call.cursor = NULL \/ id < call.cursor}
           items == Page(ids, clamp(call.req.limit))
           next == next_cursor(items, call.req)
       IN  call' = IF call.req.older_than = "negative"
                   THEN Answer(0)
                   ELSE [call EXCEPT !.pages = Append(@, items),
                                     !.cursor = next,
                                     !.pc = IF next = NULL THEN "done" ELSE @,
                                     !.answer = 200]
    /\ UNCHANGED <<reader, rows, history, sampler>>

\* fetch_event_with_deliveries reads the event, then its deliveries.
GetEvent ==
    /\ call.pc = "events"
    /\ call' = IF call.req.id \in Events
               THEN [call EXCEPT !.pc = "deliveries", !.present = Of(rows, call.req.id)]
               ELSE Answer(404)
    /\ UNCHANGED <<reader, rows, history, sampler>>

GetDeliveries ==
    /\ call.pc = "deliveries"
    /\ call' = [Answer(200) EXCEPT !.found = Of(rows, call.req.id)]
    /\ UNCHANGED <<reader, rows, history, sampler>>

\* An UPDATE by id of the rows that satisfy a condition.
Update(cond, row) ==
    /\ IF cond
       THEN /\ rows' = [rows EXCEPT ![call.req.id] = row]
            /\ call' = Answer(200)
       ELSE /\ call' = IF call.pc = "retry" THEN [call EXCEPT !.pc = "exists"] ELSE Answer(404)
            /\ UNCHANGED rows
    /\ UNCHANGED <<reader, history, sampler>>

Found == call.req.id \in DOMAIN rows
Target == rows[call.req.id]

\* retry_delivery's UPDATE skips a leased row.
Retry ==
    /\ call.pc = "retry"
    /\ Update(Found /\ ~Target.locked,
              [Target EXCEPT !.dispatched = "no", !.processed = FALSE, !.dead = FALSE])

\* A follow-up that takes "not updated" for "not found".
RetryExists_missing ==
    /\ call.pc = "exists"
    /\ call' = Answer(404)
    /\ UNCHANGED <<reader, rows, history, sampler>>

\* The follow-up SELECT that tells "locked" from "not found".
RetryExists ==
    /\ call.pc = "exists"
    /\ call' = Answer(IF Found THEN 409 ELSE 404)
    /\ UNCHANGED <<reader, rows, history, sampler>>

Complete == call.pc = "complete" /\ Update(Found, [Target EXCEPT !.processed = TRUE])

Abandon == call.pc = "abandon" /\ Update(Found, [Target EXCEPT !.dead = TRUE])

-----------------------------------------------------------------------------
Count(table, P(_)) == Cardinality({id \in DOMAIN table : P(table[id])})

Dead(row) == row.dead

\* Totals with a pending count that forgets rows completed before their dispatch.
Totals_completed(table) ==
    [pending |-> Count(table, LAMBDA row : row.dispatched = "no" /\ ~row.dead),
     external_pending |-> Count(table, Awaiting),
     dead_lettered |-> Count(table, Dead),
     lag |-> \E id \in DOMAIN table : Pending(table[id])]

\* The second statement of fetch_stats; lag: there is an oldest pending event.
Totals(table) ==
    [pending |-> Count(table, Pending),
     external_pending |-> Count(table, Awaiting),
     dead_lettered |-> Count(table, Dead),
     lag |-> \E id \in DOMAIN table : Pending(table[id])]

\* The third: one group per callback with a row.
PerCallback(table) ==
    [name \in {table[id].callback : id \in DOMAIN table} |->
        LET own == Without(table, {id \in DOMAIN table : table[id].callback # name}) IN
        [pending_managed |-> Count(own, LAMBDA row : Pending(row) /\ row.mode = "managed"),
         pending_external |-> Count(own, LAMBDA row : Pending(row) /\ row.mode = "external"),
         external_pending |-> Count(own, Awaiting),
         dead_lettered |-> Count(own, Dead)]]

\* The fields of an answer so far and those a statement adds.
With(stats, counts) ==
    [field \in DOMAIN stats \cup DOMAIN counts |->
        IF field \in DOMAIN counts THEN counts[field] ELSE stats[field]]

\* fetch_stats, statement by statement.
CountEvents ==
    /\ call.pc = "stats"
    /\ call' = [call EXCEPT !.pc = "totals", !.moved = FALSE,
                            !.stats = [events_total |-> Cardinality(Events)]]
    /\ UNCHANGED <<reader, rows, history, sampler>>

CountDeliveries ==
    /\ call.pc = "totals"
    /\ call' = [call EXCEPT !.pc = "callbacks", !.stats = With(@, Totals(rows))]
    /\ UNCHANGED <<reader, rows, history, sampler>>

CountPerCallback ==
    /\ call.pc = "callbacks"
    /\ call' = [Answer(200) EXCEPT !.stats = With(@, [callbacks |-> PerCallback(rows)])]
    /\ UNCHANGED <<reader, rows, history, sampler>>

-----------------------------------------------------------------------------
\* The gauges of a callback; dead letters have a counter of their own.
Gauges(counts) ==
    [managed |-> counts.pending_managed, external |-> counts.pending_external,
     external_pending |-> counts.external_pending]

Zero == [managed |-> 0, external |-> 0, external_pending |-> 0]

\* run_stats_sampler wakes up.
Tick ==
    /\ reader = "sampler"
    /\ call.pc = "idle"
    /\ sampler.ticks < MaxTicks
    /\ sampler' = [sampler EXCEPT !.ticks = @ + 1]
    /\ call' = [Idle EXCEPT !.pc = "stats", !.req = [path |-> "stats"]]
    /\ UNCHANGED <<reader, rows, history>>

\* The gauges after a fetch: set for the callbacks seen, zeroed for those that
\* were seen last time and are gone.
Published(seen) ==
    [name \in Names |->
        IF name \in DOMAIN seen THEN Gauges(seen[name])
        ELSE IF name \in sampler.last_callbacks THEN Zero
        ELSE sampler.gauges[name]]

\* After a fetch: the gauges are set, or left as they are when it failed.
PublishOr(on_error) ==
    /\ reader = "sampler"
    /\ call.pc = "done"
    /\ LET seen == call.stats.callbacks IN
       sampler' = IF call.answer = 200
                  THEN [sampler EXCEPT !.last_callbacks = DOMAIN seen, !.latest = seen,
                                       !.gauges = Published(seen)]
                  ELSE on_error
    /\ call' = Idle
    /\ UNCHANGED <<reader, rows, history>>

\* Publish that starts afresh after an error.
Publish_forgetful == PublishOr([sampler EXCEPT !.last_callbacks = {}])

Publish == PublishOr(sampler)

Init ==
    /\ reader \in {"operator", "sampler"}
    /\ rows \in Tables
    /\ changes = 0
    /\ published = {rows[id].event : id \in DOMAIN rows}
    /\ deleted = {}
    /\ call = Idle
    /\ sampler = [ticks |-> 0, last_callbacks |-> {}, latest |-> << >>,
                  gauges |-> [name \in Names |-> NULL]]

Operate ==
    \/ \E req \in Requests : Begin(req)
    \/ List
    \/ GetEvent
    \/ GetDeliveries
    \/ Retry
    \/ RetryExists
    \/ Complete
    \/ Abandon

Sample ==
    \/ Tick
    \/ Publish

Next ==
    \/ Work
    \/ Emit
    \/ Insert
    \/ DeleteTerminal
    \/ Operate
    \/ Sample
    \/ CountEvents
    \/ CountDeliveries
    \/ CountPerCallback
    \/ DatabaseError

Spec == Init /\ [][Next]_vars

-----------------------------------------------------------------------------
Listed == UNION {call.pages[i] : i \in DOMAIN call.pages}

(* Following next_cursor to its end lists every row that the list is about   *)
(* from the first request to the last, whatever limit was asked for and      *)
(* whatever other rows come, change or go between two pages; and no row      *)
(* appears on two pages.                                                     *)
PagesComplete ==
    call.pages # << >> =>
        /\ call.pc = "done" /\ call.answer = 200 => call.stable \subseteq Listed
        /\ \A i, j \in DOMAIN call.pages : i < j =>
              \A a \in call.pages[i], b \in call.pages[j] : b < a

(* The answers fit the table although each rests on several statements: a    *)
(* request without the token gets 401; a delivery that exists throughout is  *)
(* never reported missing, one that does not exist never locked; and an      *)
(* event's deliveries are missing from its answer only when retention took   *)
(* the event in between.                                                     *)
AnswersFit ==
    call.req # NULL /\ reader = "operator" =>
        /\ call.answer = 401 <=> ~Authorised(call.req.auth)
        /\ call.answer = 404 /\ call.req.path \in Mutations =>
              call.req.id \notin call.present \cap DOMAIN rows
        /\ call.answer = 409 => call.moved \/ (Found /\ Target.locked)
        /\ call.answer = 200 /\ call.req.path = "events" /\ ~(call.present \subseteq call.found) =>
              call.req.id \in deleted

(* GET /v1/stats adds up: unless the table changed between its statements,   *)
(* the totals are the sums over the callbacks, no delivery is counted twice, *)
(* and a lag is given exactly when a delivery is pending.                    *)
StatsAgree ==
    call.pc = "done" /\ call.answer = 200 /\ call.req.path = "stats" /\ ~call.moved =>
        LET s == call.stats
            per == s.callbacks
        IN  /\ s.pending =
                  SumFunction([n \in DOMAIN per |-> per[n].pending_managed + per[n].pending_external])
            /\ s.external_pending = SumFunction([n \in DOMAIN per |-> per[n].external_pending])
            /\ s.dead_lettered = SumFunction([n \in DOMAIN per |-> per[n].dead_lettered])
            /\ s.pending + s.external_pending + s.dead_lettered =< Cardinality(DOMAIN rows)
            /\ s.lag <=> s.pending > 0

(* No phantom backlog: between two ticks every gauge shows what the last     *)
(* successful fetch found, zero for a callback that had drained by then,     *)
(* also when fetches in between failed.                                      *)
GaugesFresh ==
    call.pc = "idle" =>
        \A name \in Names :
            IF name \in DOMAIN sampler.latest
            THEN sampler.gauges[name] = Gauges(sampler.latest[name])
            ELSE sampler.gauges[name] \in {NULL, Zero}
==============================================================================
