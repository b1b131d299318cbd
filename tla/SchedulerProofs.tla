---------------------------- MODULE SchedulerProofs ----------------------------
(* The tables keep their shape, retention deletes nothing that is needed and *)
(* no event is skipped, for any events, callbacks, processes, batch size and *)
(* numbers of errors, crashes and operator requests.                         *)
EXTENDS Scheduler, FiniteSetTheorems, WellFoundedInduction, TLAPS

\* Everything the rows' order rests on: INSERTs are numbered, up to some number.
Numbered == \E n \in Nat : \A x \in deliveries : x.stmt =< n

\* What holds of the tables however publishers commit, whatever events hold and
\* wherever rescans start: rows belong to events that are there.
TableInv ==
    /\ TypeOK /\ Numbered
    /\ \A p \in Process : proc[p].pc \in {"valid", "invalid"} => proc[p].batch # {}
    /\ \A x \in deliveries : Visible(x.event)
    /\ \A e \in doomed : Visible(e)

\* A publisher's statement decides e or gives it its id.
Publishes(e) ==
    /\ event[e] \in {"unborn", "open"}
    /\ \E state \in EventState \ {"deleted"} : event' = [event EXCEPT ![e] = state]
    /\ UNCHANGED <<deliveries, retention>>

\* An INSERT of rows for callbacks of e.
Writes(e) ==
    /\ Visible(e) /\ UNCHANGED <<event, retention>>
    /\ Insert(e, Valid[e], FALSE) \/ Insert(e, Invalid[e], TRUE)

\* A dispatcher or an operator updates row x.
Changes(x) == LockDelivery(x) \/ RejectDelivery(x) \/ FinishDelivery(x) \/ Operate(x)

\* What a step does to the tables.
DbStep ==
    \/ UNCHANGED <<event, deliveries, retention>>
    \/ \E e \in Event : Publishes(e) \/ Writes(e)
    \/ \E x \in deliveries : Changes(x)
    \/ SelectTerminalEvents
    \/ DeleteTerminalEvents

-----------------------------------------------------------------------------
(* A set of event ids that is not empty has a first one.                     *)
LEMMA FirstIsLeast ==
    ASSUME NEW S \in SUBSET Nat, S # {}
    PROVE  First(S) \in S /\ \A e \in S : First(S) =< e
<1>1. PICK m \in S : \A n \in S : ~(<<n, m>> \in OpToRel(<, Nat))
  BY NatLessThanWellFounded, WFMin, Zenon
<1>2. ASSUME NEW n \in S PROVE m =< n
  <2>1. ~(n < m)
    BY <1>1, Zenon DEF OpToRel
  <2> QED BY <2>1
<1> QED BY <1>2, Zenon DEF First

(* When there are rows, one of them was inserted last.                       *)
LEMMA LastRow ==
    ASSUME TypeOK, Numbered, deliveries # {}
    PROVE  LET last == CHOOSE x \in deliveries : \A y \in deliveries : y.stmt =< x.stmt
           IN  last \in deliveries /\ \A y \in deliveries : y.stmt =< last.stmt
<1>1. PICK n \in Nat : \A x \in deliveries : x.stmt =< n
  BY DEF Numbered
<1> DEFINE gaps == {n - x.stmt : x \in deliveries}
<1>2. \A x \in deliveries : x.stmt \in Nat
  BY DEF TypeOK, Row
<1>3. gaps \in SUBSET Nat /\ gaps # {}
  BY <1>1, <1>2
<1>4. First(gaps) \in gaps /\ \A g \in gaps : First(gaps) =< g
  BY <1>3, FirstIsLeast, Zenon
<1>5. PICK x \in deliveries : First(gaps) = n - x.stmt
  BY <1>4, Zenon
<1>6. ASSUME NEW y \in deliveries PROVE y.stmt =< x.stmt
  <2>1. n - x.stmt =< n - y.stmt
    BY <1>4, <1>5
  <2> QED BY <1>2, <2>1
<1> QED BY <1>6

(* Event ids are positive numbers.                                           *)
LEMMA EventIds == Event \subseteq Nat /\ \A e \in Event : e > 0
  BY SchedulerAssumption

-----------------------------------------------------------------------------
(* INSERT ... ON CONFLICT DO NOTHING: e has the names, nothing is lost, and  *)
(* every new row is e's.                                                     *)
LEMMA InsertAdds ==
    ASSUME TypeOK, Numbered, NEW e \in Event, NEW names \in SUBSET Name,
           NEW dead \in BOOLEAN, Insert(e, names, dead)
    PROVE  /\ deliveries' \subseteq Row /\ Numbered'
           /\ names \subseteq Stored(e)'
           /\ deliveries \subseteq deliveries'
           /\ \A x \in deliveries' : x \in deliveries \/ (x.event = e /\ x.dead_letter = dead)
<1> DEFINE last == IF deliveries = {}
                   THEN 0
                   ELSE (CHOOSE x \in deliveries : \A y \in deliveries : y.stmt =< x.stmt).stmt
           new(n) == [stmt |-> last + 1, event |-> e, name |-> n, dead_letter |-> dead,
                      processed |-> FALSE, calling |-> FALSE]
<1>1. last \in Nat /\ \A x \in deliveries : x.stmt =< last
  BY LastRow DEF TypeOK, Row
<1>2. deliveries' = deliveries \cup {new(n) : n \in names \ Stored(e)}
  BY DEF Insert
<1> HIDE DEF last
<1>3. \A n \in names : new(n) \in Row
  BY <1>1 DEF Row
<1>4. deliveries' \subseteq Row
  BY <1>2, <1>3 DEF TypeOK
<1>5. Numbered'
  <2>1. \A x \in deliveries : x.stmt \in Nat
    BY DEF TypeOK, Row
  <2>2. \A x \in deliveries' : x.stmt =< last + 1
    BY <1>1, <1>2, <2>1
  <2> QED BY <1>1, <2>2 DEF Numbered
<1>6. names \subseteq Stored(e)'
  <2>1. ASSUME NEW n \in names PROVE \E x \in deliveries' : x.event = e /\ x.name = n
    <3>1. CASE n \in Stored(e)
      BY <1>2, <3>1 DEF Stored
    <3>2. CASE n \notin Stored(e)
      <4>1. new(n) \in deliveries'
        BY <1>2, <3>2, Zenon
      <4> QED BY <4>1
    <3> QED BY <3>1, <3>2
  <2> QED BY <2>1 DEF Stored
<1>7. \A x \in deliveries' : x \in deliveries \/ (x.event = e /\ x.dead_letter = dead)
  BY <1>2, SMTT(20)
<1> QED BY <1>2, <1>4, <1>5, <1>6, <1>7

(* Where the loop over a batch may be.                                       *)
LEMMA EnterValues ==
    ASSUME NEW S
    PROVE  /\ Enter(S) \in {"idle", "valid", "invalid"}
           /\ Enter(S) \in {"valid", "invalid"} => S # {}
           /\ Enter(S) = "valid" => Valid[First(S)] # {}
           /\ Enter(S) = "invalid" => Valid[First(S)] = {}
  BY DEF Enter

-----------------------------------------------------------------------------
(* The callbacks of an event have names.                                     *)
LEMMA CallbackNames == ASSUME NEW e \in Event PROVE Valid[e] \cup Invalid[e] \subseteq Name
  BY SchedulerAssumption

(* A process stays what it is when it moves to a well-formed state.          *)
LEMMA MovesKeep ==
    ASSUME TableInv, NEW p \in Process, NEW s \in ProcState, Set(p, s),
           s.pc \in {"valid", "invalid"} => s.batch # {}
    PROVE  /\ proc' \in [Process -> ProcState]
           /\ \A q \in Process : proc'[q].pc \in {"valid", "invalid"} => proc'[q].batch # {}
  BY DEF TableInv, TypeOK, Set

(* The first event of a batch is one of its events.                          *)
LEMMA FirstOfBatch ==
    ASSUME TableInv, NEW p \in Process, proc[p].pc \in {"valid", "invalid"}
    PROVE  First(proc[p].batch) \in Event /\ proc[p] \in ProcState
<1>1. proc[p] \in ProcState /\ proc[p].batch # {}
  BY DEF TableInv, TypeOK
<1>2. proc[p].batch \in SUBSET Nat /\ proc[p].batch \subseteq Event
  BY <1>1, EventIds, Zenon DEF ProcState
<1> QED BY <1>1, <1>2, FirstIsLeast

(* What a step of schedule_new_deliveries leaves of its process, and what it *)
(* writes.                                                                   *)
LEMMA ProcessMoves ==
    ASSUME TableInv, NEW p \in Process, Step(p) \/ WriteError(p) \/ Crash(p)
    PROVE  /\ \E s \in ProcState : Set(p, s) /\ (s.pc \in {"valid", "invalid"} => s.batch # {})
           /\ disturbances' \in Nat
           /\ \/ UNCHANGED <<event, deliveries, retention>>
              \/ \E e \in Event : Writes(e)
<1> DEFINE t == proc[p]
           e == First(t.batch)
           Fine(s) == s \in ProcState /\ (s.pc \in {"valid", "invalid"} => s.batch # {})
           rest == t.batch \ {e}
           next == [t EXCEPT !.pc = Enter(rest), !.batch = rest,
                             !.cursor = IF rest = {} THEN e ELSE t.cursor]
<1>0. t \in ProcState /\ Fine(t) /\ Fine(Down)
  BY DEF TableInv, TypeOK, Down, ProcState
<1>1. disturbances' \in Nat
  <2>1. disturbances' \in {disturbances, disturbances + 1}
    BY Zenon DEF Step, FetchNewEvents, FetchNothing, EnsureDeliveries,
        CreateInvalidDeliveries, WriteRejected, WriteError, Crash, Disturb
  <2> QED BY <2>1 DEF TableInv, TypeOK
<1>2. Fine([t EXCEPT !.pc = "idle", !.batch = {}])
  BY <1>0, Zenon DEF ProcState
<1>3. ASSUME e \in Event, t.batch # {} PROVE Fine(next) /\ Fine([t EXCEPT !.pc = "invalid"])
  <2>1. next \in ProcState /\ next.pc = Enter(rest) /\ next.batch = rest
    <3>1. rest \in SUBSET Event /\ (IF rest = {} THEN e ELSE t.cursor) \in Event \cup {0}
      BY <1>0, <1>3 DEF ProcState
    <3> QED BY <1>0, <3>1, EnterValues, Zenon DEF ProcState
  <2>2. Fine(next)
    <3> HIDE DEF next, rest
    <3> QED BY <2>1, EnterValues
  <2> QED BY <1>0, <1>3, <2>2, Zenon DEF ProcState
<1>4. CASE FetchNewEvents(p)
  <2> DEFINE new == NewEvents(t.cursor)
             s == [t EXCEPT !.pc = Enter(new), !.batch = new]
  <2>1. s \in ProcState /\ s.pc = Enter(new) /\ s.batch = new
    <3>1. new \subseteq Event
      BY DEF NewEvents
    <3> QED BY <1>0, <3>1, EnterValues, Zenon DEF ProcState
  <2>2. Set(p, s) /\ UNCHANGED <<event, deliveries, retention>>
    BY <1>4 DEF FetchNewEvents
  <2> HIDE DEF s
  <2> QED BY <1>1, <2>1, <2>2, EnterValues
<1>5. CASE FetchNothing(p) \/ WriteRejected(p) \/ WriteError(p) \/ Crash(p)
  <2>1. PICK s \in {Down, t, [t EXCEPT !.pc = "idle", !.batch = {}]} : Set(p, s)
    BY <1>5 DEF FetchNothing, WriteRejected, WriteError, Crash, GiveUp
  <2>2. UNCHANGED <<event, deliveries, retention>>
    BY <1>5 DEF FetchNothing, WriteRejected, WriteError, Crash
  <2>3. Fine(s)
    BY <1>0, <1>2, Zenon
  <2> HIDE DEF t
  <2> QED BY <1>1, <2>1, <2>2, <2>3, Zenon
<1>6. CASE EnsureDeliveries(p) \/ CreateInvalidDeliveries(p)
  <2>1. t.batch # {} /\ e \in Event
    BY <1>0, <1>6, FirstOfBatch, Zenon DEF EnsureDeliveries, CreateInvalidDeliveries
  <2>2. \E s \in {next, [t EXCEPT !.pc = "invalid"]} : Set(p, s)
    BY <1>6, Zenon DEF EnsureDeliveries, CreateInvalidDeliveries, Finish
  <2>3. Writes(e)
    BY <1>6, Zenon DEF EnsureDeliveries, CreateInvalidDeliveries, Writes, Accepts
  <2> HIDE DEF e, next
  <2> QED BY <1>1, <1>3, <2>1, <2>2, <2>3, Zenon
<1> QED BY <1>4, <1>5, <1>6 DEF Step

(* Whatever is done to a delivery, its row keeps its event, name and place.  *)
LEMMA RowChanges ==
    ASSUME TypeOK, NEW x \in deliveries, Changes(x)
    PROVE  /\ \E y \in Row : /\ Update(x, y)
                           /\ y.event = x.event /\ y.name = x.name /\ y.stmt = x.stmt
           /\ disturbances' \in Nat
<1>1. x \in Row
  BY DEF TypeOK
<1> DEFINE Same(y) == y \in Row /\ y.event = x.event /\ y.name = x.name /\ y.stmt = x.stmt
<1>2. ASSUME NEW y, Same(y), NEW b \in BOOLEAN
      PROVE  /\ Same([y EXCEPT !.dead_letter = b])
             /\ Same([y EXCEPT !.processed = b])
             /\ Same([y EXCEPT !.calling = b])
  <2>1. Same([y EXCEPT !.dead_letter = b])
    BY <1>2, Zenon DEF Row
  <2>2. Same([y EXCEPT !.processed = b])
    BY <1>2, Zenon DEF Row
  <2>3. Same([y EXCEPT !.calling = b])
    BY <1>2, Zenon DEF Row
  <2> QED BY <2>1, <2>2, <2>3, Zenon
<1>3. \E y : Same(y) /\ Update(x, y)
  <2>1. Same(x) /\ TRUE \in BOOLEAN /\ FALSE \in BOOLEAN
    BY <1>1
  <2> HIDE DEF Same
  <2>2. CASE LockDelivery(x) \/ RejectDelivery(x)
    BY <1>2, <2>1, <2>2, Zenon DEF LockDelivery, RejectDelivery
  <2>3. CASE FinishDelivery(x)
    <3>1. PICK z \in {x, [x EXCEPT !.processed = TRUE]} \cup {[x EXCEPT !.dead_letter = d] : d \in BOOLEAN} :
             Update(x, [z EXCEPT !.calling = FALSE])
      BY <2>3, Zenon DEF FinishDelivery
    <3>2. z = x \/ z = [x EXCEPT !.processed = TRUE] \/ \E d \in BOOLEAN : z = [x EXCEPT !.dead_letter = d]
      OBVIOUS
    <3>3. Same(z)
      BY <1>2, <2>1, <3>2, Zenon
    <3> QED BY <1>2, <2>1, <3>1, <3>3, Zenon
  <2>4. CASE Operate(x)
    <3>1. \/ Update(x, [[x EXCEPT !.processed = FALSE] EXCEPT !.dead_letter = FALSE])
          \/ Update(x, [x EXCEPT !.processed = TRUE])
          \/ Update(x, [x EXCEPT !.dead_letter = TRUE])
      BY <2>4, Zenon DEF Operate
    <3> QED BY <1>2, <2>1, <3>1, Zenon
  <2> QED BY <2>2, <2>3, <2>4 DEF Changes
<1>4. disturbances' \in {disturbances, disturbances + 1}
  BY Zenon DEF Changes, LockDelivery, RejectDelivery, FinishDelivery, Operate, Disturb
<1>5. disturbances' \in Nat
  BY <1>4 DEF TypeOK
<1> QED BY <1>3, <1>5, Zenon

(* Every step keeps TableInv, and does one of a few things to the tables.    *)
LEMMA TableStep ==
    ASSUME TableInv, [Next]_vars
    PROVE  TableInv' /\ DbStep
<1> DEFINE ProcsKept ==
             /\ proc' \in [Process -> ProcState]
             /\ \A q \in Process : proc'[q].pc \in {"valid", "invalid"} => proc'[q].batch # {}
           SameTables == UNCHANGED <<event, deliveries, retention>>
           SameRest == proc' = proc /\ disturbances' = disturbances
<1>1. ASSUME SameRest PROVE ProcsKept /\ disturbances' \in Nat
  BY <1>1 DEF TableInv, TypeOK
<1>2. ASSUME SameTables, ProcsKept, disturbances' \in Nat PROVE TableInv' /\ DbStep
  BY <1>2 DEF retention, TableInv, TypeOK, Numbered, Visible, DbStep
<1>3. ASSUME NEW e \in Event, Begin(e) \/ Commit(e) \/ Abort(e) PROVE TableInv' /\ DbStep
  <2>1. Publishes(e)
    BY <1>3, Zenon DEF Begin, Commit, Abort, Publishes, EventState
  <2>2. SameRest
    BY <1>3 DEF Begin, Commit, Abort
  <2>3. event' \in [Event -> EventState] /\ \A f \in Event : Visible(f) => Visible(f)'
    BY <2>1 DEF Publishes, TableInv, TypeOK, Visible
  <2>4. \A x \in deliveries : x.event \in Event
    BY DEF TableInv, TypeOK, Row
  <2> QED BY <1>1, <2>1, <2>2, <2>3, <2>4, Zenon DEF Publishes, TableInv, TypeOK, Numbered, DbStep, retention
<1>4. ASSUME NEW p \in Process, NEW c \in Event \cup {0}, SameTables,
             Set(p, [Down EXCEPT !.pc = "idle", !.cursor = c]), UNCHANGED disturbances
      PROVE  TableInv' /\ DbStep
  <2> DEFINE s == [Down EXCEPT !.pc = "idle", !.cursor = c]
  <2>1. s \in ProcState /\ s.pc = "idle"
    BY Zenon DEF Down, ProcState
  <2>2. ProcsKept
    <3> HIDE DEF s
    <3>1. Set(p, s)
      BY <1>4 DEF s
    <3> QED BY <2>1, <3>1, MovesKeep
  <2> QED BY <1>2, <1>4, <2>2 DEF TableInv, TypeOK
<1>5. ASSUME NEW r \in Replica, Start(r) PROVE TableInv' /\ DbStep
  <2>1. RecoveredCursor \in Event \cup {0}
    <3>1. CASE deliveries = {}
      BY <3>1 DEF RecoveredCursor
    <3>2. CASE deliveries # {}
      <4>1. PICK x \in deliveries : RecoveredCursor = x.event
        BY <3>2, LastRow, Zenon DEF RecoveredCursor, TableInv
      <4> QED BY <4>1 DEF TableInv, TypeOK, Row
    <3> QED BY <3>1, <3>2
  <2> QED BY <1>4, <1>5, <2>1, Zenon DEF Start, Process
<1>6. ASSUME NEW p \in Rescanner, StartRescan(p) PROVE TableInv' /\ DbStep
  BY <1>4, <1>6, SchedulerAssumption, Zenon DEF StartRescan, Process
<1>7. ASSUME NEW p \in Process, Step(p) \/ WriteError(p) \/ Crash(p) PROVE TableInv' /\ DbStep
  <2>1. PICK s \in ProcState : Set(p, s) /\ (s.pc \in {"valid", "invalid"} => s.batch # {})
    BY <1>7, ProcessMoves
  <2>2. ProcsKept
    BY <2>1, MovesKeep
  <2>3. disturbances' \in Nat
    BY <1>7, ProcessMoves
  <2>4. CASE SameTables
    BY <1>2, <2>2, <2>3, <2>4
  <2>5. ASSUME NEW e \in Event, Writes(e) PROVE TableInv' /\ DbStep
    <3>1. /\ deliveries' \subseteq Row /\ Numbered'
          /\ \A x \in deliveries' : x \in deliveries \/ x.event = e
      BY <2>5, CallbackNames, InsertAdds, Zenon DEF Writes, TableInv
    <3>2. TableInv'
      BY <2>2, <2>3, <2>5, <3>1 DEF Writes, TableInv, TypeOK, Visible, retention
    <3> QED BY <2>5, <3>2 DEF DbStep
  <2> QED BY <1>7, <2>4, <2>5, ProcessMoves
<1>8. ASSUME NEW x \in deliveries, Changes(x) PROVE TableInv' /\ DbStep
  <2>1. PICK y \in Row : y.event = x.event /\ y.name = x.name /\ y.stmt = x.stmt /\ Update(x, y)
    BY <1>8, RowChanges DEF TableInv
  <2>2. /\ event' = event /\ doomed' = doomed /\ proc' = proc
        /\ deliveries' = (deliveries \ {x}) \cup {y}
    BY <2>1 DEF Update
  <2>3. deliveries' \subseteq Row /\ Numbered' /\ \A z \in deliveries' : Visible(z.event)'
    BY <2>1, <2>2 DEF TableInv, TypeOK, Numbered, Visible
  <2>4. revived' \subseteq Event \X Name
    <3>1. <<x.event, x.name>> \in Event \X Name
      BY DEF TableInv, TypeOK, Row
    <3>2. revived' \subseteq revived \cup {<<x.event, x.name>>}
      BY <2>1 DEF Update
    <3> QED BY <3>1, <3>2 DEF TableInv, TypeOK
  <2>5. disturbances' \in Nat
    BY <1>8, RowChanges DEF TableInv
  <2>6. TableInv'
    BY <2>2, <2>3, <2>4, <2>5 DEF TableInv, TypeOK, Visible
  <2> QED BY <1>8, <2>6 DEF DbStep
<1>9. CASE SelectTerminalEvents
  <2>1. SameRest /\ event' = event /\ deliveries' = deliveries
    BY <1>9 DEF SelectTerminalEvents
  <2>2. revived' = {} /\ doomed' \subseteq Event /\ \A e \in doomed' : Visible(e)
    BY <1>9 DEF SelectTerminalEvents, Deletable
  <2> QED BY <1>1, <1>9, <2>1, <2>2 DEF TableInv, TypeOK, Numbered, Visible, DbStep
<1>10. CASE DeleteTerminalEvents
  <2>1. /\ SameRest /\ doomed' = {} /\ revived' = {}
        /\ deliveries' = {x \in deliveries : x.event \notin doomed}
    BY <1>10 DEF DeleteTerminalEvents
  <2>2. event' \in [Event -> EventState]
    BY <1>10 DEF DeleteTerminalEvents, TableInv, TypeOK, EventState
  <2>3. ASSUME NEW x \in deliveries' PROVE Visible(x.event)'
    <3>1. x \in deliveries /\ x.event \notin doomed /\ x.event \in Event
      BY <2>1 DEF TableInv, TypeOK, Row
    <3> QED BY <1>10, <3>1 DEF DeleteTerminalEvents, TableInv, Visible
  <2> QED BY <1>1, <1>10, <2>1, <2>2, <2>3 DEF TableInv, TypeOK, Numbered, DbStep
<1>11. CASE UNCHANGED vars
  BY <1>1, <1>2, <1>11 DEF vars, retention
<1> QED BY <1>3, <1>5, <1>6, <1>7, <1>8, <1>9, <1>10, <1>11 DEF Next, Changes

(* The scheduler starts with empty tables.                                   *)
LEMMA TableInit == Init => TableInv
<1> SUFFICES ASSUME Init PROVE TableInv
  OBVIOUS
<1>1. TypeOK
  BY DEF Init, TypeOK, EventState, Down, ProcState
<1>2. Numbered /\ \A p \in Process : proc[p].pc = "down"
  BY DEF Init, Numbered, Down
<1> QED BY <1>1, <1>2 DEF TableInv, Init

(* Every variable of the scheduler keeps its type, with commits out of       *)
(* order, events of both kinds of callbacks and rescans from anywhere: the   *)
(* cursor is always the id of an event or 0, and a batch that is being       *)
(* written always has a first event.                                         *)
THEOREM SchedulerTypeCorrect == Spec => []TypeOK
<1>1. TableInv /\ [Next]_vars => TableInv'
  BY TableStep
<1>2. TableInv => TypeOK
  BY DEF TableInv
<1> QED BY <1>1, <1>2, TableInit, PTL DEF Spec

-----------------------------------------------------------------------------
\* What the retention worker has selected and not yet deleted still has its rows, and
\* those of them that are pending were revived since.
RetentionInv ==
    /\ TableInv
    /\ \A e \in doomed : Scheduled(e)
    /\ \A x \in deliveries : x.event \in doomed /\ Pending(x) => <<x.event, x.name>> \in revived

(* What has its rows keeps them when a row changes.                          *)
LEMMA RowChangeSchedules ==
    ASSUME TypeOK, NEW x \in deliveries, Changes(x), NEW e \in Event
    PROVE  Stored(e) \subseteq Stored(e)'
<1>1. PICK y \in Row : y.event = x.event /\ y.name = x.name /\ Update(x, y)
  BY RowChanges
<1>2. deliveries' = (deliveries \ {x}) \cup {y}
  BY <1>1 DEF Update
<1> QED BY <1>1, <1>2 DEF Stored

(* An INSERT takes no row away, and inserts nothing pending for an event     *)
(* that is scheduled: its valid callbacks conflict.                          *)
LEMMA WriteKeepsScheduled ==
    ASSUME TableInv, NEW e \in Event, Writes(e)
    PROVE  /\ deliveries \subseteq deliveries'
           /\ \A x \in deliveries' : Scheduled(x.event) /\ Pending(x) => x \in deliveries
<1>1. CASE Insert(e, Valid[e], FALSE)
  <2>1. /\ deliveries \subseteq deliveries'
        /\ \A x \in deliveries' : x \in deliveries \/ x.event = e
    BY <1>1, CallbackNames, InsertAdds, Zenon DEF TableInv
  <2>2. ASSUME Scheduled(e) PROVE deliveries' = deliveries
    <3>1. Valid[e] \ Stored(e) = {}
      BY <2>2 DEF Scheduled, Foremost
    <3> QED BY <1>1, <3>1 DEF Insert
  <2> QED BY <2>1, <2>2
<1>2. CASE Insert(e, Invalid[e], TRUE)
  <2>1. /\ deliveries \subseteq deliveries'
        /\ \A x \in deliveries' : x \in deliveries \/ (x.event = e /\ x.dead_letter)
    BY <1>2, CallbackNames, InsertAdds, Zenon DEF TableInv
  <2> QED BY <2>1 DEF Pending
<1> QED BY <1>1, <1>2, Zenon DEF Writes

(* With windows longer than any backlog, no step undoes what the retention   *)
(* worker saw when it selected, but for the revived rows.                    *)
LEMMA RetentionStep ==
    ASSUME LongWindow, RetentionInv, [Next]_vars
    PROVE  RetentionInv'
<1>1. TableInv' /\ DbStep
  BY TableStep DEF RetentionInv
<1>2. \A e \in doomed : e \in Event /\ Scheduled(e)
  BY DEF RetentionInv, TableInv, TypeOK
<1> DEFINE Revived == \A x \in deliveries :
                        x.event \in doomed /\ Pending(x) => <<x.event, x.name>> \in revived
           AllScheduled == \A e \in doomed : Scheduled(e)
<1>3. CASE UNCHANGED <<deliveries, retention>>
  BY <1>1, <1>3 DEF RetentionInv, Scheduled, Stored, retention
<1>4. ASSUME NEW f \in Event, Writes(f) PROVE RetentionInv'
  <2>1. doomed' = doomed /\ revived' = revived
    BY <1>4 DEF Writes, retention
  <2>2. /\ deliveries \subseteq deliveries'
        /\ \A x \in deliveries' : Scheduled(x.event) /\ Pending(x) => x \in deliveries
    BY <1>4, WriteKeepsScheduled DEF RetentionInv
  <2>3. AllScheduled'
    BY <1>2, <2>1, <2>2 DEF Scheduled, Stored
  <2>4. Revived'
    BY <1>2, <2>1, <2>2 DEF RetentionInv
  <2> QED BY <1>1, <2>3, <2>4 DEF RetentionInv
<1>5. ASSUME NEW x \in deliveries, Changes(x) PROVE RetentionInv'
  <2>1. PICK y \in Row : y.event = x.event /\ y.name = x.name /\ Update(x, y)
    BY <1>5, RowChanges DEF RetentionInv, TableInv
  <2>2. /\ doomed' = doomed /\ revived \subseteq revived'
        /\ deliveries' = (deliveries \ {x}) \cup {y}
        /\ x.event \in doomed /\ ~Pending(x) /\ Pending(y) => <<x.event, x.name>> \in revived'
    BY <2>1 DEF Update
  <2>3. AllScheduled'
    <3>1. \A e \in doomed : Stored(e) \subseteq Stored(e)'
      BY <1>2, <1>5, RowChangeSchedules DEF RetentionInv, TableInv
    <3> QED BY <1>2, <2>2, <3>1 DEF Scheduled
  <2>4. Revived'
    <3>1. \A z \in deliveries' : z \in deliveries \/ z = y
      BY <2>2
    <3> QED BY <2>1, <2>2, <3>1, Zenon DEF RetentionInv
  <2> QED BY <1>1, <2>3, <2>4 DEF RetentionInv
<1>6. CASE SelectTerminalEvents
  <2>1. deliveries' = deliveries /\ \A e \in doomed' : Terminal(e) /\ Scheduled(e)
    BY <1>6 DEF SelectTerminalEvents, Deletable
  <2> QED BY <1>1, <2>1 DEF RetentionInv, Scheduled, Stored, Terminal
<1>7. CASE DeleteTerminalEvents
  BY <1>1, <1>7 DEF DeleteTerminalEvents, RetentionInv
<1> QED BY <1>1, <1>3, <1>4, <1>5, <1>6, <1>7 DEF DbStep, Publishes

(* Nothing is deleted that was not selected.                                 *)
LEMMA DeletedWasDoomed ==
    ASSUME TableInv, [Next]_vars, NEW e \in Event, Visible(e), event'[e] = "deleted"
    PROVE  e \in doomed
<1>1. DbStep
  BY TableStep
<1>2. ASSUME NEW f \in Event, Publishes(f) PROVE event'[e] # "deleted"
  BY <1>2 DEF Publishes, TableInv, TypeOK, Visible
<1>3. CASE event' = event
  BY <1>3 DEF Visible
<1>4. CASE DeleteTerminalEvents
  BY <1>4 DEF DeleteTerminalEvents, Visible
<1>5. ASSUME NEW x \in deliveries, Changes(x) PROVE event' = event
  BY <1>5, RowChanges DEF TableInv, Update
<1> QED BY <1>1, <1>2, <1>3, <1>4, <1>5, Zenon DEF DbStep, Writes, SelectTerminalEvents

(* delete_terminal_events selects from a snapshot and deletes by id later.   *)
(* Provided that its windows outlast the scheduling backlog, the deliveries  *)
(* that go with an event while they are pending are those that dispatchers   *)
(* or operators made pending again in between: with any processes, crashes,  *)
(* rescans, requests under way and order of commits, nothing is inserted     *)
(* into a selected event that would have had to be sent.                     *)
THEOREM PendingRowsSurvive ==
    ASSUME LongWindow
    PROVE  Spec => RetentionSparesPending
<1>1. RetentionInv /\ [Next]_vars => RetentionInv'
  BY RetentionStep
<1>2. Init => RetentionInv
  BY TableInit DEF RetentionInv, Init
<1>3. RetentionInv /\ [Next]_vars =>
        [\A x \in deliveries :
            event'[x.event] = "deleted" /\ Pending(x) => <<x.event, x.name>> \in revived]_vars
  <2> SUFFICES ASSUME RetentionInv, [Next]_vars, NEW x \in deliveries,
                      event'[x.event] = "deleted", Pending(x)
               PROVE  <<x.event, x.name>> \in revived
    BY Zenon
  <2>1. x.event \in Event /\ Visible(x.event)
    BY DEF RetentionInv, TableInv, TypeOK, Row
  <2>2. x.event \in doomed
    BY <2>1, DeletedWasDoomed DEF RetentionInv
  <2> QED BY <2>2 DEF RetentionInv
<1> QED BY <1>1, <1>2, <1>3, PTL DEF Spec, RetentionSparesPending

-----------------------------------------------------------------------------
\* Ids are given out in order, and those below a committed one are decided.
CommitInv ==
    \A e, f \in Event : e < f =>
        /\ event[f] # "unborn" => event[e] # "unborn"
        /\ event[f] \in {"committed", "deleted"} => event[e] # "open"

\* An event with this id was there, and all events up to it have their rows.
Reached(c) == c = 0 \/ event[c] \in {"committed", "deleted"}
Complete(c) == \A e \in Event : e =< c /\ Visible(e) => Scheduled(e)

\* A row is the last trace of a prefix, so a cursor recovered from it is sound.
RowsInv == \A x \in deliveries : Complete(x.event)

\* create_invalid_deliveries comes first for e, or ensure_deliveries is done.
Begun(e) == Valid[e] = {} \/ ~Visible(e) \/ Scheduled(e)

\* A process's cursor is sound, and its batch leaves no gap behind it.
ProcOK(s) ==
    /\ Reached(s.cursor) /\ Complete(s.cursor)
    /\ s.pc \in {"valid", "invalid"} => s.batch # {}
    /\ s.pc = "valid" => Valid[First(s.batch)] # {}
    /\ s.pc = "invalid" => Begun(First(s.batch))
    /\ \A b \in s.batch : event[b] \in {"committed", "deleted"}
    /\ \A b \in s.batch, e \in Event : e =< b /\ Visible(e) => e \in s.batch \/ Scheduled(e)

SkipInv ==
    /\ TableInv /\ CommitInv /\ RowsInv
    /\ \A p \in Process : ProcOK(proc[p])

-----------------------------------------------------------------------------
\* What every step leaves as it is: decided events stay decided, only an open
\* event becomes visible, and a visible one keeps its rows.
Keeps ==
    \A e \in Event :
        /\ event[e] \in {"committed", "deleted"} => event'[e] \in {"committed", "deleted"}
        /\ Visible(e)' => Visible(e) \/ event[e] = "open"
        /\ Visible(e)' /\ Scheduled(e) => Scheduled(e)'

(* A step that changes no event and removes no row keeps what is scheduled.  *)
LEMMA RowsGrow ==
    ASSUME event' = event, deliveries \subseteq deliveries'
    PROVE  Keeps
  BY DEF Keeps, Visible, Scheduled, Stored

(* A sound cursor stays sound: no event can become visible behind it.        *)
LEMMA CursorKept ==
    ASSUME TypeOK, CommitInv, Keeps, NEW c \in Event \cup {0}, Reached(c), Complete(c)
    PROVE  Reached(c)' /\ Complete(c)'
<1>1. Reached(c)'
  BY DEF Reached, Keeps
<1>2. ASSUME NEW e \in Event, e =< c, Visible(e)' PROVE Scheduled(e)'
  <2>1. e \in Nat /\ c \in Nat /\ e > 0
    BY EventIds
  <2>2. event[e] # "open"
    BY <1>2, <2>1 DEF CommitInv, Reached
  <2>3. Scheduled(e)
    BY <1>2, <2>2 DEF Keeps, Complete
  <2> QED BY <1>2, <2>3 DEF Keeps
<1> QED BY <1>1, <1>2 DEF Complete

(* A process that does nothing stays sound, whatever the others do.          *)
LEMMA ProcKept ==
    ASSUME TypeOK, CommitInv, Keeps, NEW s \in ProcState, ProcOK(s)
    PROVE  ProcOK(s)'
<1>1. Reached(s.cursor)' /\ Complete(s.cursor)'
  <2>1. s.cursor \in Event \cup {0} /\ Reached(s.cursor) /\ Complete(s.cursor)
    BY DEF ProcState, ProcOK
  <2> QED BY <2>1, CursorKept
<1>2. \A b \in s.batch : event'[b] \in {"committed", "deleted"}
  BY DEF ProcOK, ProcState, Keeps
<1>3. ASSUME NEW b \in s.batch, NEW e \in Event, e =< b, Visible(e)'
      PROVE  e \in s.batch \/ Scheduled(e)'
  <2>1. b \in Event /\ e \in Nat /\ b \in Nat
    BY EventIds DEF ProcState
  <2>2. event[e] # "open"
    BY <1>3, <2>1 DEF CommitInv, ProcOK
  <2>3. e \in s.batch \/ Scheduled(e)
    BY <1>3, <2>2 DEF Keeps, ProcOK
  <2> QED BY <1>3, <2>3 DEF Keeps
<1>4. s.pc = "invalid" => Begun(First(s.batch))'
  <2> SUFFICES ASSUME s.pc = "invalid" PROVE Begun(First(s.batch))'
    OBVIOUS
  <2> DEFINE b == First(s.batch)
  <2>1. s.batch # {} /\ s.batch \subseteq Event /\ s.batch \in SUBSET Nat
    BY EventIds, Zenon DEF ProcOK, ProcState
  <2>2. b \in s.batch /\ b \in Event
    BY <2>1, FirstIsLeast
  <2>3. event[b] # "open" /\ Begun(b)
    BY <2>2 DEF ProcOK
  <2> HIDE DEF b
  <2>4. Begun(b)'
    BY <2>2, <2>3 DEF Keeps, Begun
  <2> QED BY <2>4 DEF b, Begun
<1> QED BY <1>1, <1>2, <1>3, <1>4 DEF ProcOK

(* When one process takes a step, the others stay sound.                     *)
LEMMA OneProcMoves ==
    ASSUME TypeOK, CommitInv, Keeps, \A q \in Process : ProcOK(proc[q]),
           NEW p \in Process, NEW s, Set(p, s), ProcOK(s)'
    PROVE  \A q \in Process : ProcOK(proc[q])'
<1>1. ASSUME NEW q \in Process PROVE ProcOK(proc[q])'
  <2>1. CASE q = p
    <3>1. proc'[q] = s
      BY <2>1, SMTT(20) DEF Set, TypeOK
    <3> QED BY <3>1 DEF ProcOK, Reached, Complete, Begun
  <2>2. CASE q # p
    <3>1. proc'[q] = proc[q] /\ proc[q] \in ProcState
      BY <2>2 DEF Set, TypeOK
    <3>2. ProcOK(proc[q])
      OBVIOUS
    <3> DEFINE t == proc[q]
    <3>3. \A u \in ProcState : ProcOK(u) => ProcOK(u)'
      BY ProcKept, SMTT(20)
    <3> QED BY <3>1, <3>2, <3>3 DEF ProcOK, Reached, Complete, Begun
  <2> QED BY <2>1, <2>2, SMTT(20)
<1> QED BY <1>1

(* When no process takes a step, all stay sound.                             *)
LEMMA NoProcMoves ==
    ASSUME TypeOK, CommitInv, Keeps, \A q \in Process : ProcOK(proc[q]), proc' = proc
    PROVE  \A q \in Process : ProcOK(proc[q])'
<1>1. \A u \in ProcState : ProcOK(u) => ProcOK(u)'
  BY ProcKept
<1>2. \A q \in Process : proc[q] \in ProcState
  BY DEF TypeOK
<1> QED BY <1>1, <1>2, SMTT(20) DEF ProcOK, Reached, Complete, Begun

(* Rows that stay are still traces of complete prefixes.                     *)
LEMMA RowKept ==
    ASSUME TableInv, CommitInv, RowsInv, Keeps, NEW x \in deliveries
    PROVE  Complete(x.event)'
<1>1. x.event \in Event \cup {0} /\ Reached(x.event) /\ Complete(x.event)
  BY DEF TableInv, TypeOK, Row, RowsInv, Reached, Visible
<1>2. \A c \in Event \cup {0} : Reached(c) /\ Complete(c) => Complete(c)'
  BY CursorKept DEF TableInv
<1> QED BY <1>1, <1>2

-----------------------------------------------------------------------------
(* A step of p that writes nothing keeps the invariant if it keeps p sound.  *)
LEMMA ProcStep ==
    ASSUME SkipInv, TableInv', NEW p \in Process, NEW s \in ProcState, Set(p, s), ProcOK(s),
           event' = event, deliveries' = deliveries
    PROVE  SkipInv'
<1>1. Keeps
  BY RowsGrow
<1>3. CommitInv' /\ RowsInv'
  BY DEF SkipInv, CommitInv, RowsInv, Complete, Visible, Scheduled, Stored
<1>4. ProcOK(s)'
  BY DEF ProcOK, Begun, Reached, Complete, Visible, Scheduled, Stored
<1>5. \A q \in Process : ProcOK(proc[q])'
  BY <1>1, <1>4, OneProcMoves DEF SkipInv, TableInv
<1> QED BY <1>3, <1>5 DEF SkipInv

(* A process that is idle, with a sound cursor and no batch, is sound.       *)
LEMMA IdleIsSound ==
    ASSUME NEW c \in Event \cup {0}, Reached(c), Complete(c)
    PROVE  /\ [Down EXCEPT !.pc = "idle", !.cursor = c] \in ProcState
           /\ ProcOK([Down EXCEPT !.pc = "idle", !.cursor = c])
  BY Zenon DEF Down, ProcState, ProcOK

(* Before the first event there is nothing to miss.                          *)
LEMMA ZeroIsSound == Reached(0) /\ Complete(0)
  BY EventIds DEF Reached, Complete

(* A process that has ended has no cursor to be wrong about.                 *)
LEMMA DownIsSound == Down \in ProcState /\ ProcOK(Down)
  BY ZeroIsSound DEF Down, ProcState, ProcOK

(* run_scheduler starts from the event of the row inserted last.             *)
LEMMA StartKeeps ==
    ASSUME SkipInv, TableInv', NEW r \in Replica, Start(r)
    PROVE  SkipInv'
<1>1. RecoveredCursor \in Event \cup {0} /\ Reached(RecoveredCursor) /\ Complete(RecoveredCursor)
  <2>1. CASE deliveries = {}
    BY <2>1, ZeroIsSound DEF RecoveredCursor
  <2>2. CASE deliveries # {}
    <3>1. PICK x \in deliveries : RecoveredCursor = x.event
      BY <2>2, LastRow, Zenon DEF RecoveredCursor, SkipInv, TableInv
    <3> QED BY <3>1 DEF SkipInv, TableInv, TypeOK, Row, RowsInv, Reached, Visible
  <2> QED BY <2>1, <2>2
<1>2. \A c \in Event \cup {0} : Reached(c) /\ Complete(c) =>
         /\ [Down EXCEPT !.pc = "idle", !.cursor = c] \in ProcState
         /\ ProcOK([Down EXCEPT !.pc = "idle", !.cursor = c])
  BY IdleIsSound, Zenon
<1> DEFINE s == [Down EXCEPT !.pc = "idle", !.cursor = RecoveredCursor]
<1>3. s \in ProcState /\ ProcOK(s)
  BY <1>1, <1>2, Zenon
<1>4. Set(r, s) /\ event' = event /\ deliveries' = deliveries
  BY DEF Start
<1>5. r \in Process
  BY DEF Process
<1> HIDE DEF s
<1> QED BY <1>3, <1>4, <1>5, ProcStep

(* A rescan from before the first event is sound.                            *)
LEMMA StartRescanKeeps ==
    ASSUME SkipInv, TableInv', RescanFrom \subseteq {0}, NEW p \in Rescanner, StartRescan(p)
    PROVE  SkipInv'
<1> DEFINE s == [Down EXCEPT !.pc = "idle", !.cursor = 0]
<1>1. Set(p, s)
  BY Zenon DEF StartRescan
<1>2. s \in ProcState /\ ProcOK(s)
  BY ZeroIsSound, IdleIsSound, Zenon
<1>3. event' = event /\ deliveries' = deliveries /\ p \in Process
  BY DEF StartRescan, Process
<1> HIDE DEF s
<1> QED BY <1>1, <1>2, <1>3, ProcStep

(* LIMIT after ORDER BY id takes a prefix: with an event, the batch has      *)
(* every visible event between the cursor and it.                            *)
LEMMA BatchIsPrefix ==
    ASSUME NEW c \in Nat, NEW b \in NewEvents(c), NEW e \in Event, c < e, e =< b, Visible(e)
    PROVE  e \in NewEvents(c)
<1> DEFINE new == {f \in Event : Visible(f) /\ f > c}
           below(g) == {f \in new : f < g}
<1>1. b \in new /\ Cardinality(below(b)) < ScheduleBatchSize
  BY DEF NewEvents
<1>2. e \in new
  BY EventIds
<1>3. ASSUME NEW f \in below(e) PROVE f \in below(b)
  <2>1. f \in Nat /\ e \in Nat /\ b \in Nat
    BY <1>1, EventIds
  <2>2. f \in new /\ f < e
    OBVIOUS
  <2>3. f < b
    BY <2>1, <2>2
  <2> QED BY <2>2, <2>3
<1>4. IsFiniteSet(below(b))
  <2>1. below(b) \subseteq Event
    OBVIOUS
  <2> QED BY <2>1, FS_Subset, SchedulerAssumption
<1>5. /\ Cardinality(below(e)) \in Nat /\ Cardinality(below(b)) \in Nat
      /\ Cardinality(below(e)) =< Cardinality(below(b))
  <2>1. IsFiniteSet(below(e)) /\ Cardinality(below(e)) =< Cardinality(below(b))
    BY <1>3, <1>4, FS_Subset
  <2> QED BY <1>4, <2>1, FS_CardinalityType
<1>6. Cardinality(below(e)) < ScheduleBatchSize
  BY <1>1, <1>5, SchedulerAssumption
<1> QED BY <1>2, <1>6 DEF NewEvents

(* A fetch leaves no gap between the cursor and its batch.                   *)
LEMMA FetchKeeps ==
    ASSUME SkipInv, TableInv', NEW p \in Process, FetchNewEvents(p)
    PROVE  SkipInv'
<1> DEFINE c == proc[p].cursor
           new == NewEvents(c)
           s == [proc[p] EXCEPT !.pc = Enter(new), !.batch = new]
<1>1. proc[p] \in ProcState /\ ProcOK(proc[p])
  BY DEF SkipInv, TableInv, TypeOK
<1>2. new \subseteq Event /\ \A b \in new : Visible(b)
  BY DEF NewEvents
<1>3. s \in ProcState /\ s.cursor = c /\ s.batch = new /\ s.pc = Enter(new)
  BY <1>1, <1>2, EnterValues, Zenon DEF ProcState
<1>4. ASSUME NEW b \in new, NEW e \in Event, e =< b, Visible(e)
      PROVE  e \in new \/ Scheduled(e)
  <2>1. c \in Nat /\ e \in Nat
    <3>1. c \in Event \cup {0}
      BY <1>1 DEF ProcState
    <3> HIDE DEF c
    <3> QED BY <3>1, EventIds
  <2>2. CASE e =< c
    BY <1>1, <1>4, <2>2 DEF ProcOK, Complete
  <2>3. CASE c < e
    <3>1. e \in NewEvents(c)
      BY <1>4, <2>1, <2>3, BatchIsPrefix
    <3> QED BY <3>1
  <2> QED BY <2>1, <2>2, <2>3
<1>5. ProcOK(s)
  <2>1. Reached(c) /\ Complete(c)
    BY <1>1 DEF ProcOK
  <2>2. \A b \in new : event[b] \in {"committed", "deleted"}
    BY <1>2 DEF Visible
  <2> HIDE DEF new, s, c
  <2> QED BY <1>3, <1>4, <2>1, <2>2, EnterValues DEF ProcOK, Begun
<1>6. Set(p, s) /\ event' = event /\ deliveries' = deliveries
  BY DEF FetchNewEvents
<1> HIDE DEF s
<1> QED BY <1>3, <1>5, <1>6, ProcStep, SMTT(20)

(* An empty fetch, a failed write and a crash leave the cursor or give it up.*)
LEMMA GiveUpKeeps ==
    ASSUME SkipInv, TableInv', NEW p \in Process,
           FetchNothing(p) \/ WriteRejected(p) \/ WriteError(p) \/ Crash(p)
    PROVE  SkipInv'
<1>1. proc[p] \in ProcState /\ ProcOK(proc[p])
  BY DEF SkipInv, TableInv, TypeOK
<1> DEFINE dropped == [proc[p] EXCEPT !.pc = "idle", !.batch = {}]
<1>2. dropped \in ProcState /\ ProcOK(dropped)
  BY <1>1, Zenon DEF ProcState, ProcOK
<1>3. PICK s \in {Down, proc[p], dropped} : Set(p, s)
  BY DEF FetchNothing, WriteRejected, WriteError, Crash, GiveUp
<1>4. event' = event /\ deliveries' = deliveries
  BY DEF FetchNothing, WriteRejected, WriteError, Crash
<1>5. s \in ProcState /\ ProcOK(s)
  BY <1>1, <1>2, DownIsSound
<1> QED BY <1>3, <1>4, <1>5, ProcStep

-----------------------------------------------------------------------------
(* The INSERT for the first event of a batch completes the prefix up to it.  *)
LEMMA InsertCompletes ==
    ASSUME SkipInv, TableInv', NEW p \in Process, proc[p].batch # {}, NEW e, e = First(proc[p].batch),
           Visible(e), event' = event, NEW names \in SUBSET Name, NEW dead \in BOOLEAN,
           Insert(e, names, dead), Foremost(e) \subseteq names \cup Stored(e)
    PROVE  /\ e \in proc[p].batch /\ e \in Event
           /\ Keeps /\ Scheduled(e)' /\ Complete(e)'
           /\ RowsInv'
<1>1. proc[p] \in ProcState /\ ProcOK(proc[p]) /\ TableInv /\ TypeOK /\ Numbered /\ CommitInv /\ RowsInv
  BY DEF SkipInv, TableInv, TypeOK
<1>2. proc[p].batch \subseteq Event /\ proc[p].batch \in SUBSET Nat
  BY <1>1, EventIds, Zenon DEF ProcState
<1>3. e \in proc[p].batch /\ e \in Event /\ \A f \in proc[p].batch : e =< f
  BY <1>2, FirstIsLeast
<1>4. /\ names \subseteq Stored(e)'
      /\ deliveries \subseteq deliveries'
      /\ \A x \in deliveries' : x \in deliveries \/ x.event = e
  BY <1>1, <1>3, InsertAdds
<1>5. Keeps
  BY <1>4, RowsGrow
<1>6. Scheduled(e)'
  BY <1>4, SMTT(20) DEF Scheduled, Stored
<1>7. Complete(e)'
  <2>1. ASSUME NEW f \in Event, f =< e, Visible(f)' PROVE Scheduled(f)'
    <3>1. CASE f = e
      BY <1>6, <3>1
    <3>2. CASE f # e
      <4>1. f \in Nat /\ e \in Nat
        BY <1>3, EventIds
      <4>2. f \notin proc[p].batch
        BY <1>3, <2>1, <3>2, <4>1
      <4>3. Visible(f)
        BY <2>1, SMTT(20) DEF Visible
      <4>4. Scheduled(f)
        BY <1>1, <1>3, <2>1, <4>2, <4>3, SMTT(20) DEF ProcOK
      <4> QED BY <1>5, <2>1, <4>4 DEF Keeps
    <3> QED BY <3>1, <3>2
  <2> QED BY <2>1 DEF Complete
<1>8. RowsInv'
  <2>1. ASSUME NEW x \in deliveries' PROVE Complete(x.event)'
    <3>1. CASE x \in deliveries
      BY <1>1, <1>5, <3>1, RowKept
    <3>2. CASE x.event = e
      BY <1>7, <3>2, SMTT(20)
    <3> QED BY <1>4, <3>1, <3>2, SMTT(20)
  <2> QED BY <2>1 DEF RowsInv
<1> QED BY <1>3, <1>5, <1>6, <1>7, <1>8, SMTT(20)

(* After it the event leaves the batch, and the cursor follows with the last.*)
LEMMA FinishIsSound ==
    ASSUME TypeOK, CommitInv, Keeps, event' = event,
           NEW t \in ProcState, ProcOK(t), NEW s \in ProcState, NEW e \in Event,
           Visible(e), Scheduled(e)', Complete(e)', s.batch = t.batch \ {e},
           s.pc = Enter(s.batch), s.cursor = IF s.batch = {} THEN e ELSE t.cursor
    PROVE  ProcOK(s)'
<1>1. Reached(s.cursor)' /\ Complete(s.cursor)'
  <2>1. CASE s.batch = {}
    <3>1. Reached(e)'
      BY DEF Reached, Visible
    <3> QED BY <2>1, <3>1
  <2>2. CASE s.batch # {}
    <3>1. t.cursor \in Event \cup {0} /\ Reached(t.cursor) /\ Complete(t.cursor)
      BY DEF ProcState, ProcOK
    <3>2. Reached(t.cursor)' /\ Complete(t.cursor)'
      BY <3>1, CursorKept
    <3> QED BY <2>2, <3>2
  <2> QED BY <2>1, <2>2
<1>2. \A b \in s.batch : event'[b] \in {"committed", "deleted"}
  BY DEF ProcOK
<1>3. ASSUME NEW b \in s.batch, NEW f \in Event, f =< b, Visible(f)'
      PROVE  f \in s.batch \/ Scheduled(f)'
  <2>1. f \in t.batch \/ Scheduled(f)
    BY <1>3, SMTT(20) DEF ProcOK, Visible
  <2> QED BY <1>3, <2>1 DEF Keeps
<1> QED BY <1>1, <1>2, <1>3, EnterValues, SMTT(20) DEF ProcOK, Begun

(* So the INSERTs of an event keep SkipInv.                                  *)
LEMMA InsertKeeps ==
    ASSUME SkipInv, TableInv', NEW p \in Process, proc[p].batch # {},
           NEW e, e = First(proc[p].batch),
           Visible(e), NEW names \in SUBSET Name, NEW dead \in BOOLEAN,
           Insert(e, names, dead), Foremost(e) \subseteq names \cup Stored(e),
           Finish(p, e), event' = event
    PROVE  SkipInv'
<1>1. /\ proc[p] \in ProcState /\ ProcOK(proc[p]) /\ TypeOK /\ CommitInv
      /\ \A q \in Process : ProcOK(proc[q])
  BY DEF SkipInv, TableInv, TypeOK
<1>2. e \in Event /\ Keeps /\ Scheduled(e)' /\ Complete(e)' /\ RowsInv'
  BY InsertCompletes, Zenon
<1>3. PICK t \in ProcState : t = proc[p]
  BY <1>1
<1>4. PICK s \in ProcState :
         /\ Set(p, s)
         /\ s.batch = t.batch \ {e}
         /\ s.pc = Enter(s.batch)
         /\ s.cursor = IF s.batch = {} THEN e ELSE t.cursor
  <2> DEFINE rest == t.batch \ {e}
             u == [t EXCEPT !.pc = Enter(rest), !.batch = rest,
                            !.cursor = IF rest = {} THEN e ELSE t.cursor]
  <2>1. Set(p, u)
    BY <1>3, Zenon DEF Finish
  <2>2. u \in ProcState /\ u.batch = rest /\ u.pc = Enter(rest)
        /\ u.cursor = IF rest = {} THEN e ELSE t.cursor
    BY <1>2, EnterValues, Zenon DEF ProcState
  <2> QED BY <2>1, <2>2, Zenon
<1>5. ProcOK(s)'
  <2>1. ProcOK(t)
    BY <1>1, <1>3, Zenon
  <2> QED BY <1>1, <1>2, <1>4, <2>1, FinishIsSound, Zenon
<1>6. \A q \in Process : ProcOK(proc[q])'
  BY <1>1, <1>2, <1>4, <1>5, OneProcMoves, SMTT(20)
<1>7. CommitInv'
  BY DEF SkipInv, CommitInv
<1> QED BY <1>2, <1>6, <1>7, SMTT(20) DEF SkipInv

(* ensure_deliveries writes the rows of the valid callbacks; the event stays *)
(* in the batch when others were rejected.                                   *)
LEMMA EnsureDeliveriesKeeps ==
    ASSUME SkipInv, TableInv', NEW p \in Process, EnsureDeliveries(p)
    PROVE  SkipInv'
<1>1. proc[p] \in ProcState /\ ProcOK(proc[p]) /\ proc[p].pc = "valid"
  BY SMTT(20) DEF SkipInv, TableInv, TypeOK, EnsureDeliveries
<1>2. PICK e \in Event : e = First(proc[p].batch)
  BY <1>1, FirstOfBatch, SMTT(20) DEF SkipInv
<1>3. proc[p].batch # {} /\ Valid[e] # {}
  BY <1>1, <1>2 DEF ProcOK
<1>4. Valid[e] \in SUBSET Name
  BY SchedulerAssumption, Zenon
<1>5. /\ Visible(e) /\ Insert(e, Valid[e], FALSE) /\ event' = event
      /\ Set(p, [proc[p] EXCEPT !.pc = "invalid"]) \/ Finish(p, e)
  BY <1>2, Zenon DEF EnsureDeliveries, Accepts
<1>6. Foremost(e) \subseteq Valid[e] \cup Stored(e)
  BY <1>3 DEF Foremost
<1>7. CASE Set(p, [proc[p] EXCEPT !.pc = "invalid"])
  <2>1. Keeps /\ Scheduled(e)' /\ RowsInv'
    BY <1>2, <1>3, <1>4, <1>5, <1>6, InsertCompletes, Zenon
  <2>2. TypeOK /\ CommitInv /\ \A q \in Process : ProcOK(proc[q])
    BY DEF SkipInv, TableInv
  <2>3. PICK t \in ProcState : t = proc[p] /\ ProcOK(t)
    BY <1>1, Zenon
  <2>4. PICK s \in ProcState :
           Set(p, s) /\ s.cursor = t.cursor /\ s.batch = t.batch /\ s.pc = "invalid"
    <3>1. [t EXCEPT !.pc = "invalid"] \in ProcState
      BY ZenonT(30) DEF ProcState
    <3> QED BY <1>7, <2>3, <3>1, Zenon DEF ProcState
  <2>5. ProcOK(s)'
    <3>1. ProcOK(t)'
      BY <2>1, <2>2, <2>3, ProcKept, SMTT(20)
    <3>2. Begun(e)' /\ e = First(s.batch)
      BY <1>2, <2>1, <2>3, <2>4, SMTT(20) DEF Begun
    <3>3. Begun(First(s.batch))'
      BY <3>2 DEF Begun
    <3> QED BY <1>3, <2>3, <2>4, <3>1, <3>3, Zenon DEF ProcOK
  <2>6. \A q \in Process : ProcOK(proc[q])'
    BY <2>1, <2>2, <2>4, <2>5, OneProcMoves, Zenon
  <2>7. CommitInv'
    BY <1>5 DEF SkipInv, CommitInv
  <2> QED BY <2>1, <2>6, <2>7 DEF SkipInv
<1>8. CASE Finish(p, e)
  BY <1>2, <1>3, <1>4, <1>5, <1>6, <1>8, InsertKeeps, Zenon
<1> QED BY <1>5, <1>7, <1>8

(* create_invalid_deliveries completes an event: its valid callbacks, if it  *)
(* has any, have their rows.                                                 *)
LEMMA CreateInvalidDeliveriesKeeps ==
    ASSUME SkipInv, TableInv', NEW p \in Process, CreateInvalidDeliveries(p)
    PROVE  SkipInv'
<1> DEFINE e == First(proc[p].batch)
<1>1. proc[p] \in ProcState /\ ProcOK(proc[p]) /\ proc[p].pc = "invalid"
  BY SMTT(20) DEF SkipInv, TableInv, TypeOK, CreateInvalidDeliveries
<1>2. proc[p].batch # {} /\ Begun(e)
  BY <1>1, SMTT(20) DEF ProcOK
<1>3. e \in Event
  BY <1>1, FirstOfBatch DEF SkipInv
<1>4. Invalid[e] \in SUBSET Name
  BY <1>3, SchedulerAssumption, Zenon
<1>5. Visible(e) /\ Insert(e, Invalid[e], TRUE) /\ Finish(p, e) /\ event' = event
  BY Zenon DEF CreateInvalidDeliveries, Accepts
<1>6. Foremost(e) \subseteq Invalid[e] \cup Stored(e)
  BY <1>2, <1>5 DEF Begun, Foremost, Scheduled
<1> HIDE DEF e
<1>7. e = First(proc[p].batch)
  BY DEF e
<1> QED BY <1>2, <1>4, <1>5, <1>6, <1>7, InsertKeeps, Zenon

-----------------------------------------------------------------------------
(* What is done to a delivery keeps what is scheduled.                       *)
LEMMA RowChangeKeeps ==
    ASSUME SkipInv, TableInv', NEW x \in deliveries, Changes(x)
    PROVE  SkipInv'
<1>1. PICK y \in Row : y.event = x.event /\ Update(x, y)
  BY RowChanges DEF SkipInv, TableInv
<1>2. deliveries' = (deliveries \ {x}) \cup {y}
  BY <1>1 DEF Update
<1>3. event' = event /\ proc' = proc
  BY <1>1 DEF Update
<1>4. \A e \in Event : Stored(e) \subseteq Stored(e)'
  BY RowChangeSchedules DEF SkipInv, TableInv
<1>5. Keeps
  BY <1>3, <1>4 DEF Keeps, Visible, Scheduled
<1>8. CommitInv'
  BY <1>3 DEF SkipInv, CommitInv
<1>9. RowsInv'
  <2>1. \A z \in deliveries : Complete(z.event)'
    BY <1>5, RowKept DEF SkipInv, TableInv
  <2>2. \A z \in deliveries' : \E u \in deliveries : z.event = u.event
    BY <1>1, <1>2
  <2> QED BY <2>1, <2>2 DEF RowsInv
<1>10. \A q \in Process : ProcOK(proc[q])'
  BY <1>3, <1>5, NoProcMoves DEF SkipInv, TableInv
<1> QED BY <1>8, <1>9, <1>10, SMTT(20) DEF SkipInv

(* Retention selects visible events.                                         *)
LEMMA SelectKeeps ==
    ASSUME SkipInv, TableInv', SelectTerminalEvents
    PROVE  SkipInv'
<1>1. event' = event /\ deliveries' = deliveries /\ proc' = proc
  BY DEF SelectTerminalEvents
<1>3. CommitInv' /\ RowsInv'
  BY <1>1 DEF SkipInv, CommitInv, RowsInv, Complete, Visible, Scheduled, Stored
<1>4. Keeps
  BY <1>1, RowsGrow
<1>5. \A q \in Process : ProcOK(proc[q])'
  BY <1>1, <1>4, NoProcMoves DEF SkipInv, TableInv
<1> QED BY <1>3, <1>5 DEF SkipInv

(* The cascade takes the rows of deleted events and no others.               *)
LEMMA DeleteKeeps ==
    ASSUME SkipInv, TableInv', DeleteTerminalEvents
    PROVE  SkipInv'
<1>1. /\ \A e \in Event : event'[e] = IF e \in doomed THEN "deleted" ELSE event[e]
      /\ deliveries' = {x \in deliveries : x.event \notin doomed}
      /\ proc' = proc
  BY DEF DeleteTerminalEvents
<1>3. Keeps
  BY <1>1 DEF Keeps, Visible, Scheduled, Stored
<1>4. CommitInv'
  BY <1>1 DEF SkipInv, TableInv, CommitInv, Visible
<1>6. RowsInv'
  BY <1>1, <1>3, RowKept DEF SkipInv, TableInv, RowsInv
<1>7. \A q \in Process : ProcOK(proc[q])'
  BY <1>1, <1>3, NoProcMoves DEF SkipInv, TableInv
<1> QED BY <1>4, <1>6, <1>7 DEF SkipInv

(* Publishers that commit in the order of their ids leave no gap behind.     *)
LEMMA PublisherKeeps ==
    ASSUME SkipInv, TableInv', CommitInOrder, NEW e \in Event, Begin(e) \/ Commit(e) \/ Abort(e)
    PROVE  SkipInv'
<1>1. deliveries' = deliveries /\ proc' = proc
  BY SMTT(20) DEF Begin, Commit, Abort
<1>2. PICK st \in {"open", "committed", "aborted"} :
         /\ \A f \in Event : event'[f] = IF f = e THEN st ELSE event[f]
         /\ st = "open" => event[e] = "unborn"
         /\ st # "open" => event[e] = "open"
         /\ st = "committed" => \A f \in Event : f < e => event[f] # "open"
  BY SMTT(20) DEF Begin, Commit, Abort, SkipInv, TableInv, TypeOK
<1>4. Keeps
  BY <1>1, <1>2 DEF Keeps, Visible, Scheduled, Stored
<1>6. CommitInv'
  <2>1. ASSUME NEW f \in Event, NEW g \in Event, f < g, event'[g] # "unborn"
        PROVE  event'[f] # "unborn"
    <3>1. CASE g = e /\ st = "open"
      BY <1>2, <2>1, <3>1 DEF Begin, Commit, Abort
    <3>2. CASE ~(g = e /\ st = "open")
      BY <1>2, <2>1, <3>2 DEF SkipInv, TableInv, CommitInv
    <3> QED BY <3>1, <3>2
  <2>2. ASSUME NEW f \in Event, NEW g \in Event, f < g, event'[g] \in {"committed", "deleted"}
        PROVE  event'[f] # "open"
    <3>1. f \in Nat /\ g \in Nat /\ f # g
      BY <2>2, EventIds
    <3>2. CASE g = e
      BY <1>2, <2>2, <3>1, <3>2
    <3>3. CASE g # e
      <4>1. event[f] # "open" /\ event[g] # "unborn"
        BY <1>2, <2>2, <3>3 DEF SkipInv, CommitInv
      <4>2. event[f] # "unborn"
        BY <2>2, <4>1, SMTT(20) DEF SkipInv, CommitInv
      <4> QED BY <1>2, <4>1, <4>2
    <3> QED BY <3>2, <3>3
  <2> QED BY <2>1, <2>2 DEF CommitInv
<1>7. RowsInv'
  BY <1>1, <1>4, RowKept DEF SkipInv, TableInv, RowsInv
<1>8. \A q \in Process : ProcOK(proc[q])'
  BY <1>1, <1>4, NoProcMoves DEF SkipInv, TableInv
<1> QED BY <1>6, <1>7, <1>8 DEF SkipInv

-----------------------------------------------------------------------------
(* The scheduler starts with nothing behind it.                              *)
LEMMA SkipInit == Init => SkipInv
<1> SUFFICES ASSUME Init PROVE SkipInv
  OBVIOUS
<1>2. TableInv /\ CommitInv /\ RowsInv
  BY TableInit DEF Init, CommitInv, RowsInv
<1>3. \A p \in Process : ProcOK(proc[p])
  BY DownIsSound DEF Init
<1> QED BY <1>2, <1>3 DEF SkipInv

(* Every step keeps SkipInv.                                                 *)
LEMMA SkipStep ==
    ASSUME CommitInOrder, RescanFrom \subseteq {0}, SkipInv, [Next]_vars
    PROVE  SkipInv'
<1>0. TableInv'
  BY TableStep DEF SkipInv
<1>1. ASSUME NEW e \in Event, Begin(e) \/ Commit(e) \/ Abort(e) PROVE SkipInv'
  BY <1>0, <1>1, PublisherKeeps
<1>2. ASSUME NEW r \in Replica, Start(r) PROVE SkipInv'
  BY <1>0, <1>2, StartKeeps
<1>3. ASSUME NEW p \in Rescanner, StartRescan(p) PROVE SkipInv'
  BY <1>0, <1>3, StartRescanKeeps
<1>4. ASSUME NEW p \in Process, Step(p) \/ WriteError(p) \/ Crash(p) PROVE SkipInv'
  <2>1. CASE FetchNewEvents(p)
    BY <1>0, <2>1, FetchKeeps
  <2>2. CASE FetchNothing(p) \/ WriteRejected(p) \/ WriteError(p) \/ Crash(p)
    BY <1>0, <2>2, GiveUpKeeps
  <2>3. CASE EnsureDeliveries(p)
    BY <1>0, <2>3, EnsureDeliveriesKeeps
  <2>4. CASE CreateInvalidDeliveries(p)
    BY <1>0, <2>4, CreateInvalidDeliveriesKeeps
  <2> QED BY <1>4, <2>1, <2>2, <2>3, <2>4 DEF Step
<1>5. ASSUME NEW x \in deliveries, Changes(x) PROVE SkipInv'
  BY <1>0, <1>5, RowChangeKeeps
<1>6. CASE SelectTerminalEvents
  BY <1>0, <1>6, SelectKeeps
<1>7. CASE DeleteTerminalEvents
  BY <1>0, <1>7, DeleteKeeps, SMTT(20)
<1>8. CASE UNCHANGED vars
  <2>1. event' = event /\ deliveries' = deliveries /\ proc' = proc
    BY <1>8 DEF vars
  <2>2. \A q \in Process : ProcOK(proc[q])'
    BY <2>1, RowsGrow, NoProcMoves DEF SkipInv, TableInv
  <2> QED BY <1>0, <2>1, <2>2 DEF SkipInv, CommitInv, RowsInv, Complete, Visible, Scheduled, Stored
<1> QED BY <1>1, <1>2, <1>3, <1>4, <1>5, <1>6, <1>7, <1>8 DEF Next, Changes

(* schedule_new_deliveries skips no event.  Provided that publishers commit  *)
(* in the order of their ids and that rescans start before the first event,  *)
(* no interleaving of any number of replicas, rescans, crashes, errors,      *)
(* operator requests and retention leaves a visible event behind a replica's *)
(* cursor, the one recover_cursor finds included, without a row for each     *)
(* valid callback, or for each rejected one when none is valid.              *)
THEOREM NothingSkipped ==
    ASSUME CommitInOrder, RescanFrom \subseteq {0}
    PROVE  Spec => []NoEventSkipped
<1>1. SkipInv /\ [Next]_vars => SkipInv'
  BY SkipStep
<1>2. SkipInv => NoEventSkipped
  <2>1. ASSUME SkipInv, NEW r \in Replica, NEW e \in Event, Visible(e), e =< proc[r].cursor
        PROVE  Scheduled(e)
    BY <2>1 DEF SkipInv, Process, ProcOK, Complete
  <2> QED BY <2>1 DEF NoEventSkipped
<1> QED BY <1>1, <1>2, SkipInit, PTL DEF Spec
=============================================================================
