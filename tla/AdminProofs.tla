----------------------------- MODULE AdminProofs -----------------------------
(* The admin API and the statistics sampler over a changing table, for any   *)
(* tables, requests and limits.                                              *)
EXTENDS Admin, FiniteSetTheorems, WellFoundedInduction, TLAPS

-----------------------------------------------------------------------------
(* A set of numbers that is not empty has a least one.                       *)
LEMMA HasLeast ==
    ASSUME NEW S \in SUBSET Nat, S # {}
    PROVE  \E m \in S : \A n \in S : m =< n
<1>1. PICK m \in S : \A n \in S : ~(<<n, m>> \in OpToRel(<, Nat))
  BY NatLessThanWellFounded, WFMin, Zenon
<1>2. ASSUME NEW n \in S PROVE m =< n
  <2>1. ~(n < m)
    BY <1>1, Zenon DEF OpToRel
  <2> QED BY <2>1
<1> QED BY <1>2, Zenon

(* Min finds it.                                                             *)
LEMMA MinIsLeast ==
    ASSUME NEW S \in SUBSET Nat, S # {}
    PROVE  Min(S) \in S /\ \A i \in S : Min(S) =< i
  BY HasLeast, Zenon DEF Min

Higher(ids, id) == {other \in ids : other > id}

(* How many ids come before one in a list in descending order: the further   *)
(* down, the more.                                                           *)
LEMMA HigherCount ==
    ASSUME NEW ids \in SUBSET Nat, IsFiniteSet(ids), NEW a \in ids
    PROVE  /\ IsFiniteSet(Higher(ids, a)) /\ Cardinality(Higher(ids, a)) \in Nat
           /\ \A b \in ids : b > a => Cardinality(Higher(ids, b)) < Cardinality(Higher(ids, a))
<1>1. \A b \in ids : IsFiniteSet(Higher(ids, b)) /\ Cardinality(Higher(ids, b)) \in Nat
  <2> TAKE b \in ids
  <2>1. Higher(ids, b) \in SUBSET ids
    BY DEF Higher
  <2> QED BY <2>1, FS_Subset, FS_CardinalityType
<1>2. ASSUME NEW b \in ids, b > a
      PROVE  Cardinality(Higher(ids, b)) < Cardinality(Higher(ids, a))
  <2> DEFINE rest == Higher(ids, a) \ {b}
  <2>1. b \in Higher(ids, a) /\ Higher(ids, b) \in SUBSET rest
    <3>1. ASSUME NEW c \in ids, c > b PROVE c > a /\ c # b
      <4>1. a \in Nat /\ b \in Nat /\ c \in Nat
        OBVIOUS
      <4> QED BY <1>2, <3>1, <4>1
    <3> QED BY <1>2, <3>1, Zenon DEF Higher
  <2>2. IsFiniteSet(rest) /\ Cardinality(rest) = Cardinality(Higher(ids, a)) - 1
    BY <1>1, <2>1, FS_RemoveElement
  <2> HIDE DEF rest
  <2>3. Cardinality(Higher(ids, b)) =< Cardinality(rest)
    BY <2>1, <2>2, FS_Subset
  <2> QED BY <1>1, <2>2, <2>3
<1> QED BY <1>1, <1>2

(* ORDER BY id DESC LIMIT n: the page is a set of n ids above all others, or *)
(* holds everything.                                                         *)
LEMMA PageIsTop ==
    ASSUME NEW ids \in SUBSET Nat, IsFiniteSet(ids), NEW n \in Nat \ {0}
    PROVE  /\ Page(ids, n) \subseteq ids
           /\ \A a \in Page(ids, n), b \in ids \ Page(ids, n) : b < a
           /\ Cardinality(Page(ids, n)) = n => Page(ids, n) # {}
           /\ Cardinality(Page(ids, n)) # n => Page(ids, n) = ids
<1> DEFINE C(id) == Cardinality(Higher(ids, id))
           items == Page(ids, n)
<1>1. items = {id \in ids : C(id) < n}
  BY DEF Page, Higher
<1>2. \A a \in ids : C(a) \in Nat /\ IsFiniteSet(Higher(ids, a))
  BY HigherCount
<1>3. \A a, b \in ids : b > a => C(b) < C(a)
  BY HigherCount
<1> HIDE DEF C, items
<1>4. items \in SUBSET ids /\ IsFiniteSet(items) /\ Cardinality(items) \in Nat
  <2>1. items \in SUBSET ids
    BY <1>1
  <2> QED BY <2>1, FS_Subset, FS_CardinalityType, Zenon
<1>5. \A a \in items, b \in ids \ items : b < a
  BY <1>1, <1>2, <1>3
<1>6. Cardinality(items) = n => items # {}
  BY FS_EmptySet
<1>7. Cardinality(items) =< n
  <2>1. CASE items = {}
    BY <2>1, FS_EmptySet
  <2>2. CASE items # {}
    <3> DEFINE left == {n - C(a) : a \in items}
    <3>1. left \in SUBSET Nat /\ left # {}
      <4>1. ASSUME NEW a \in items PROVE n - C(a) \in Nat
        <5>1. C(a) \in Nat /\ C(a) < n
          BY <1>1, <1>2
        <5> QED BY <5>1
      <4> QED BY <2>2, <4>1, Zenon
    <3>2. PICK m \in left : \A k \in left : m =< k
      BY <3>1, HasLeast, Zenon
    <3>3. PICK a \in items : m = n - C(a)
      OBVIOUS
    <3>4. \A x \in items : C(x) =< C(a)
      BY <1>1, <1>2, <3>2, <3>3
    <3> DEFINE all == Higher(ids, a) \cup {a}
    <3>5. items \in SUBSET all
      <4>1. ASSUME NEW x \in items PROVE x > a \/ x = a
        <5>1. x \in ids /\ a \in ids /\ C(x) =< C(a) /\ C(x) \in Nat /\ C(a) \in Nat
          BY <1>1, <1>2, <3>4, Zenon
        <5>2. x \in Nat /\ a \in Nat
          BY <5>1, Zenon
        <5>3. ~(a > x)
          BY <1>3, <5>1
        <5> QED BY <5>2, <5>3
      <4> QED BY <1>1, <4>1, Zenon DEF Higher
    <3>6. IsFiniteSet(all) /\ Cardinality(all) = C(a) + 1
      <4>1. a \notin Higher(ids, a) /\ IsFiniteSet(Higher(ids, a))
        BY <1>1, <1>2 DEF Higher
      <4> QED BY <4>1, FS_AddElement DEF C
    <3> HIDE DEF all
    <3>7. Cardinality(items) =< Cardinality(all)
      BY <3>5, <3>6, FS_Subset
    <3> QED BY <1>1, <1>2, <1>4, <3>6, <3>7
  <2> QED BY <2>1, <2>2
<1>8. ASSUME ids \ items # {} PROVE Cardinality(items) >= n
  <2> DEFINE counts == {C(b) : b \in ids \ items}
  <2>1. counts \in SUBSET Nat /\ counts # {}
    BY <1>2, <1>8, Zenon
  <2>2. PICK m \in counts : \A k \in counts : m =< k
    BY <2>1, HasLeast, Zenon
  <2>3. PICK b \in ids \ items : m = C(b)
    OBVIOUS
  <2>4. Higher(ids, b) \in SUBSET items
    <3>1. ASSUME NEW x \in ids, x > b PROVE x \in items
      <4>1. C(x) < C(b) /\ C(x) \in Nat /\ C(b) \in Nat
        BY <1>2, <1>3, <3>1
      <4>2. C(x) \notin counts
        BY <2>2, <2>3, <4>1
      <4> QED BY <4>2, Zenon
    <3> QED BY <3>1, Zenon DEF Higher
  <2>5. C(b) =< Cardinality(items)
    BY <1>4, <2>4, FS_Subset DEF C
  <2>6. C(b) \in Nat /\ ~(C(b) < n)
    BY <1>1, <1>2
  <2> QED BY <1>4, <2>5, <2>6
<1>9. Cardinality(items) # n => items = ids
  <2> HAVE Cardinality(items) # n
  <2>1. ~(Cardinality(items) >= n)
    BY <1>4, <1>7
  <2>2. ids \ items = {}
    BY <1>8, <2>1, Zenon
  <2> QED BY <1>4, <2>2, Zenon
<1> QED BY <1>4, <1>5, <1>6, <1>9 DEF items

-----------------------------------------------------------------------------
\* Where a request to a path can be, and what fields it keeps.
OnPath(pc, path) ==
    \/ pc = path /\ path \in Lists \cup Mutations \cup {"events", "stats"}
    \/ pc = "deliveries" /\ path = "events"
    \/ pc = "exists" /\ path = "retry"
    \/ pc \in {"totals", "callbacks"} /\ path = "stats"

Fields ==
    {"pc", "req", "pages", "cursor", "found", "stats", "answer", "stable", "present", "moved"}

\* The sampler only fetches statistics; the operator makes one request.
CallInv ==
    /\ reader \in {"operator", "sampler"}
    /\ DOMAIN call = Fields
    /\ call.pc \notin {"idle", "done"} => OnPath(call.pc, call.req.path)
    /\ reader = "sampler" =>
          call.pages = << >> /\ (call.pc \notin {"idle", "done"} => call.req.path = "stats")
    /\ reader = "operator" =>
          IF call.pc = "idle" THEN call.req = NULL ELSE call.req \in Requests

\* A delivery keeps its event, and goes only with it.
Sound(table, gone) ==
    /\ IsFiniteSet(DOMAIN table) /\ DOMAIN table \subseteq Nat
    /\ \A id \in DOMAIN table :
          /\ table[id] \in Row /\ table[id].event \notin gone
          /\ id \in DOMAIN Inserts => table[id].event = Inserts[id].event

Finished(c) == c.pc = "done" /\ c.answer = 200

\* The pages so far are in descending order down to the cursor, and hold the rows
\* the list is about all the time from there on up.
PagesOK(c, table) ==
    LET listed == UNION {c.pages[i] : i \in DOMAIN c.pages} IN
    /\ c.pages \in Seq(SUBSET Nat)
    /\ \A i, j \in DOMAIN c.pages : i < j =>
          \A a \in c.pages[i], b \in c.pages[j] : b < a
    /\ c.pc \in Lists =>
          /\ c.stable \subseteq Matching(table, c.req)
          /\ IF c.cursor = NULL
             THEN c.pages = << >>
             ELSE /\ c.cursor \in Nat
                  /\ \A a \in listed : c.cursor =< a
                  /\ \A id \in c.stable : c.cursor =< id => id \in listed
    /\ c.pc \notin Lists \cup {"done"} => c.pages = << >>
    /\ Finished(c) /\ c.pages # << >> => c.stable \subseteq listed

\* What a request has seen is still there, or went with its event.
AnswerOK(c, table, gone) ==
    /\ c.pc = "done" => (c.answer = 401 <=> ~Authorised(c.req.auth))
    /\ c.pc # "done" => Authorised(c.req.auth) /\ c.answer \in {NULL, 200}
    /\ c.pc \notin Lists \cup {"done"} => c.answer = NULL
    /\ \A id \in c.present \ DOMAIN table : id \in DOMAIN Inserts => Inserts[id].event \in gone
    /\ c.pc = "exists" => c.moved \/ c.req.id \notin DOMAIN table \/ table[c.req.id].locked
    /\ c.answer = 404 /\ c.req.path \in Mutations => c.req.id \notin c.present \cap DOMAIN table
    /\ c.answer = 409 => c.moved \/ (c.req.id \in DOMAIN table /\ table[c.req.id].locked)
    /\ c.pc = "deliveries" => c.req.id \in gone \/ c.present \subseteq Of(table, c.req.id)
    /\ Finished(c) /\ c.req.path = "events" =>
          c.req.id \in gone \/ c.present \subseteq c.found

\* last_callbacks is the last fetch's, and the gauges show it.
GaugesInv ==
    /\ DOMAIN sampler = {"ticks", "last_callbacks", "latest", "gauges"}
    /\ DOMAIN sampler.latest = sampler.last_callbacks
    /\ \A name \in Names :
          IF name \in DOMAIN sampler.latest
          THEN sampler.gauges[name] = Gauges(sampler.latest[name])
          ELSE sampler.gauges[name] \in {NULL, Zero}

AdminInv ==
    /\ CallInv
    /\ Sound(rows, deleted)
    /\ PagesOK(call, rows)
    /\ reader = "operator" /\ call.pc # "idle" => AnswerOK(call, rows, deleted)

-----------------------------------------------------------------------------
(* Publish sets the gauges of the callbacks it saw, zeroes those it saw last *)
(* time only, and leaves everything as it is after an error.                 *)
LEMMA PublishGauges ==
    ASSUME GaugesInv, Publish
    PROVE  GaugesInv'
<1> DEFINE seen == call.stats.callbacks
<1>1. CASE call.answer # 200
  BY <1>1, SMT DEF Publish, PublishOr, GaugesInv
<1>2. CASE call.answer = 200
  <2>1. sampler' = [sampler EXCEPT !.last_callbacks = DOMAIN seen, !.latest = seen,
                                   !.gauges = Published(seen)]
    BY <1>2, SMT DEF Publish, PublishOr
  <2> HIDE DEF seen
  <2>2. /\ DOMAIN sampler' = {"ticks", "last_callbacks", "latest", "gauges"}
        /\ sampler'.last_callbacks = DOMAIN seen /\ sampler'.latest = seen
        /\ sampler'.gauges = Published(seen)
    BY <2>1 DEF GaugesInv
  <2>3. \A name \in Names :
          IF name \in DOMAIN seen
          THEN Published(seen)[name] = Gauges(seen[name])
          ELSE Published(seen)[name] \in {NULL, Zero}
    <3> SUFFICES ASSUME NEW name \in Names
                 PROVE  IF name \in DOMAIN seen
                        THEN Published(seen)[name] = Gauges(seen[name])
                        ELSE Published(seen)[name] \in {NULL, Zero}
      BY Zenon
    <3>1. Published(seen)[name] =
            IF name \in DOMAIN seen THEN Gauges(seen[name])
            ELSE IF name \in sampler.last_callbacks THEN Zero
            ELSE sampler.gauges[name]
      BY Zenon DEF Published
    <3>2. name \notin sampler.last_callbacks => sampler.gauges[name] \in {NULL, Zero}
      BY Zenon DEF GaugesInv
    <3> QED BY <3>1, <3>2, Zenon
  <2> QED BY <2>2, <2>3, Zenon DEF GaugesInv
<1> QED BY <1>1, <1>2, Zenon

(* A tick leaves the gauges alone.                                           *)
LEMMA TickGauges ==
    ASSUME GaugesInv, Tick
    PROVE  GaugesInv'
<1>1. /\ DOMAIN sampler' = DOMAIN sampler /\ sampler'.latest = sampler.latest
      /\ sampler'.gauges = sampler.gauges /\ sampler'.last_callbacks = sampler.last_callbacks
  BY DEF Tick, GaugesInv
<1> QED BY <1>1, Zenon DEF GaugesInv

(* Nothing else touches the sampler's state.                                 *)
LEMMA GaugesStep ==
    ASSUME GaugesInv, [Next]_vars
    PROVE  GaugesInv'
<1>1. CASE Tick
  BY <1>1, TickGauges
<1>2. CASE Publish
  BY <1>2, PublishGauges
<1>3. CASE ~Tick /\ ~Publish
  <2>1. UNCHANGED sampler
    BY <1>3, Zenon DEF Next, Sample, Operate, Work, Emit, Insert, DeleteTerminal, Becomes, Begin, List,
       GetEvent, GetDeliveries, Retry, Complete, Abandon, Update, RetryExists, CountEvents,
       CountDeliveries, CountPerCallback, DatabaseError, vars, history
  <2> QED BY <2>1, Zenon DEF GaugesInv
<1> QED BY <1>1, <1>2, <1>3, Zenon

(* No phantom backlog, whatever the callbacks, the table and the failures.   *)
THEOREM GaugesSound == Spec => []GaugesFresh
<1>1. Init => GaugesInv
  BY DEF Init, GaugesInv
<1>2. GaugesInv => GaugesFresh
  BY Zenon DEF GaugesInv, GaugesFresh
<1> QED BY <1>1, <1>2, GaugesStep, PTL DEF Spec

-----------------------------------------------------------------------------
\* What a change of the table does to the deliveries.
Changed(table, gone, new, lost) ==
    /\ gone \subseteq lost
    /\ \A id \in DOMAIN new \ DOMAIN table : id \in DOMAIN Inserts /\ Inserts[id].event \notin gone
    /\ \A id \in DOMAIN table \ DOMAIN new : table[id].event \in lost
    /\ \A id \in DOMAIN table \cap DOMAIN new : new[id].event = table[id].event

(* A statement on a row leaves its event and its type alone.                 *)
LEMMA SuccessorRow ==
    ASSUME NEW x \in Row, NEW y \in Successors(x)
    PROVE  y \in Row /\ y.event = x.event
<1>1. \A r \in Row, b \in BOOLEAN : LET n == [r EXCEPT !.locked = b] IN n \in Row /\ n.event = r.event
  BY DEF Row
<1>2. \A r \in Row, b \in BOOLEAN : LET n == [r EXCEPT !.dead = b] IN n \in Row /\ n.event = r.event
  BY DEF Row
<1>3. \A r \in Row, b \in BOOLEAN : LET n == [r EXCEPT !.processed = b] IN n \in Row /\ n.event = r.event
  BY DEF Row
<1>4. \A r \in Row, d \in {"no", "recent", "old"} :
          LET n == [r EXCEPT !.dispatched = d] IN n \in Row /\ n.event = r.event
  BY DEF Row
<1> DEFINE u == [x EXCEPT !.locked = FALSE]
           v == [u EXCEPT !.dispatched = "recent"]
<1>5. \/ \E b \in BOOLEAN : y = [x EXCEPT !.locked = b] \/ y = [u EXCEPT !.dead = b]
      \/ \E b \in BOOLEAN : y = [v EXCEPT !.processed = b]
      \/ \E b \in BOOLEAN : y = [x EXCEPT !.processed = b] \/ y = [x EXCEPT !.dead = b]
      \/ \E d \in {"no", "old"} : y = [x EXCEPT !.dispatched = d]
  BY Zenon DEF Successors
<1>6. u \in Row /\ u.event = x.event
  BY <1>1, Zenon
<1>7. v \in Row /\ v.event = u.event
  <2> HIDE DEF u
  <2> QED BY <1>4, <1>6, Zenon
<1>8. \A b \in BOOLEAN :
          /\ [v EXCEPT !.processed = b] \in Row /\ [v EXCEPT !.processed = b].event = v.event
          /\ [u EXCEPT !.dead = b] \in Row /\ [u EXCEPT !.dead = b].event = u.event
  <2> HIDE DEF u, v
  <2> QED BY <1>2, <1>3, <1>6, <1>7, Zenon
<1> HIDE DEF u, v
<1>9. CASE \E b \in BOOLEAN : y = [x EXCEPT !.locked = b] \/ y = [u EXCEPT !.dead = b]
  BY <1>1, <1>6, <1>8, <1>9, Zenon
<1>10. CASE \E b \in BOOLEAN : y = [v EXCEPT !.processed = b]
  BY <1>6, <1>7, <1>8, <1>10, Zenon
<1>11. CASE \E b \in BOOLEAN : y = [x EXCEPT !.processed = b] \/ y = [x EXCEPT !.dead = b]
  BY <1>2, <1>3, <1>11, ZenonT(30)
<1>12. CASE \E d \in {"no", "old"} : y = [x EXCEPT !.dispatched = d]
  BY <1>4, <1>12, Zenon
<1> QED BY <1>5, <1>9, <1>10, <1>11, <1>12, Zenon

(* One row changes.                                                          *)
LEMMA UpdateTable ==
    ASSUME NEW table, NEW gone, Sound(table, gone), NEW id \in DOMAIN table, NEW y \in Row,
           y.event = table[id].event
    PROVE  LET new == [table EXCEPT ![id] = y]
           IN  Sound(new, gone) /\ Changed(table, gone, new, gone)
<1> DEFINE new == [table EXCEPT ![id] = y]
<1>1. DOMAIN new = DOMAIN table /\ \A k \in DOMAIN table : new[k] = IF k = id THEN y ELSE table[k]
  BY Zenon
<1> HIDE DEF new
<1>2. Sound(new, gone)
  BY <1>1, Zenon DEF Sound
<1>3. Changed(table, gone, new, gone)
  BY <1>1, Zenon DEF Changed
<1> QED BY <1>2, <1>3, Zenon DEF new

(* A row comes.                                                              *)
LEMMA InsertTable ==
    ASSUME NEW table, NEW gone, Sound(table, gone), NEW id \in DOMAIN Inserts \ DOMAIN table,
           Inserts[id].event \notin gone
    PROVE  LET new == [i \in DOMAIN table \cup {id} |-> IF i = id THEN Inserts[id] ELSE table[i]]
           IN  Sound(new, gone) /\ Changed(table, gone, new, gone)
<1> DEFINE new == [i \in DOMAIN table \cup {id} |-> IF i = id THEN Inserts[id] ELSE table[i]]
<1>1. /\ DOMAIN new = DOMAIN table \cup {id} /\ new[id] = Inserts[id]
      /\ \A k \in DOMAIN table : new[k] = table[k]
  BY Zenon
<1> HIDE DEF new
<1>2. Inserts[id] \in Row /\ id \in Nat
  BY AdminAssumption, Zenon
<1>3. IsFiniteSet(DOMAIN new)
  BY <1>1, FS_AddElement, Zenon DEF Sound
<1>4. Sound(new, gone)
  BY <1>1, <1>2, <1>3, Zenon DEF Sound
<1>5. Changed(table, gone, new, gone)
  BY <1>1, Zenon DEF Changed
<1> QED BY <1>4, <1>5, Zenon DEF new

(* An event goes with its rows.                                              *)
LEMMA DeleteFromTable ==
    ASSUME NEW table, NEW gone, Sound(table, gone), NEW event
    PROVE  LET new == Without(table, Of(table, event))
           IN  Sound(new, gone \cup {event}) /\ Changed(table, gone, new, gone \cup {event})
<1> DEFINE new == Without(table, Of(table, event))
<1>1. /\ DOMAIN new = DOMAIN table \ Of(table, event)
      /\ \A k \in DOMAIN new : new[k] = table[k] /\ table[k].event # event
  BY Zenon DEF Without, Of
<1>2. \A k \in DOMAIN table \ DOMAIN new : table[k].event = event
  BY <1>1, Zenon DEF Of
<1> HIDE DEF new
<1>3. IsFiniteSet(DOMAIN new)
  <2>1. DOMAIN new \in SUBSET DOMAIN table /\ IsFiniteSet(DOMAIN table)
    BY <1>1, Zenon DEF Sound
  <2> QED BY <2>1, FS_Subset, Zenon
<1>4. Sound(new, gone \cup {event})
  BY <1>1, <1>3, Zenon DEF Sound
<1>5. Changed(table, gone, new, gone \cup {event})
  BY <1>1, <1>2, Zenon DEF Changed
<1> QED BY <1>4, <1>5, Zenon DEF new

(* The pages stay right when the table changes: what left the list is no     *)
(* longer among the rows it is about all the time.                           *)
LEMMA PagesStay ==
    ASSUME NEW c, NEW d, NEW table, NEW new, PagesOK(c, table),
           d.pc = c.pc, d.req = c.req, d.pages = c.pages, d.cursor = c.cursor, d.answer = c.answer,
           d.stable \subseteq c.stable,
           c.pc \in Lists => d.stable \subseteq Matching(new, c.req)
    PROVE  PagesOK(d, new)
<1>1. Finished(d) <=> Finished(c)
  BY SMT DEF Finished
<1> QED BY <1>1, Zenon DEF PagesOK

(* So do the answers.                                                        *)
LEMMA AnswerStays ==
    ASSUME NEW c, NEW d, NEW table, NEW new, NEW gone, NEW lost, AnswerOK(c, table, gone),
           Sound(table, gone), Changed(table, gone, new, lost),
           d.pc = c.pc, d.req = c.req, d.answer = c.answer, d.present = c.present,
           d.found = c.found, d.moved
    PROVE  AnswerOK(d, new, lost)
<1>1. \A id \in c.present \ DOMAIN table : id \in DOMAIN Inserts => Inserts[id].event \in gone
  BY SMT DEF AnswerOK
<1>2. /\ \A id \in c.present \ DOMAIN new : id \in DOMAIN Inserts => Inserts[id].event \in lost
      /\ \A id \in c.present \ DOMAIN table : id \notin DOMAIN new
  <2>1. \A id \in DOMAIN table : id \in DOMAIN Inserts => table[id].event = Inserts[id].event
    BY Zenon DEF Sound
  <2> QED BY <1>1, <2>1, Zenon DEF Changed
<1>3. \A id : id \in gone => id \in lost
  BY Zenon DEF Changed
<1>4. c.present \subseteq Of(table, c.req.id) =>
        c.req.id \in lost \/ c.present \subseteq Of(new, c.req.id)
  BY Zenon DEF Changed, Of
<1> QED BY <1>2, <1>3, <1>4 DEF AnswerOK, Finished

(* A change of the table by the rest of the service.                         *)
LEMMA BecomesStep ==
    ASSUME AdminInv, NEW table, Becomes(table), Sound(table, deleted'),
           Changed(rows, deleted, table, deleted')
    PROVE  AdminInv'
<1>1. /\ DOMAIN call' = Fields /\ call'.pc = call.pc /\ call'.req = call.req
      /\ call'.pages = call.pages /\ call'.cursor = call.cursor /\ call'.answer = call.answer
      /\ call'.present = call.present /\ call'.found = call.found /\ call'.moved
      /\ call'.stable =
           call.stable \cap IF call.pc \in Lists THEN Matching(table, call.req) ELSE {}
  BY DEF AdminInv, CallInv, Becomes, Fields
<1>2. rows' = table /\ reader' = reader
  BY Zenon DEF Becomes
<1>3. PagesOK(call', table)
  BY <1>1, PagesStay, Zenon DEF AdminInv
<1>4. reader = "operator" /\ call.pc # "idle" => AnswerOK(call', table, deleted')
  BY <1>1, AnswerStays, Zenon DEF AdminInv
<1>5. CallInv'
  BY <1>1, <1>2, Zenon DEF AdminInv, CallInv
<1> QED BY <1>1, <1>2, <1>3, <1>4, <1>5, Zenon DEF AdminInv

(* The four changes.                                                         *)
LEMMA TableStep ==
    ASSUME AdminInv, Work \/ Emit \/ Insert \/ DeleteTerminal
    PROVE  AdminInv'
<1>1. Sound(rows, deleted)
  BY Zenon DEF AdminInv
<1>2. CASE Work
  <2>1. PICK id \in DOMAIN rows : \E y \in Successors(rows[id]) :
          Becomes([rows EXCEPT ![id] = y]) /\ deleted' = deleted
    BY <1>2, Zenon DEF Work
  <2>2. PICK y \in Successors(rows[id]) : Becomes([rows EXCEPT ![id] = y]) /\ deleted' = deleted
    BY <2>1, Zenon
  <2>3. rows[id] \in Row
    BY <1>1, Zenon DEF Sound
  <2>4. y \in Row /\ y.event = rows[id].event
    BY <2>3, SuccessorRow
  <2> DEFINE new == [rows EXCEPT ![id] = y]
  <2>5. Sound(new, deleted) /\ Changed(rows, deleted, new, deleted)
    BY <1>1, <2>4, UpdateTable, Zenon
  <2> QED BY <2>2, <2>5, BecomesStep, Zenon
<1>3. CASE Insert
  <2>1. PICK id \in DOMAIN Inserts \ DOMAIN rows :
          /\ Inserts[id].event \notin deleted
          /\ Becomes([i \in DOMAIN rows \cup {id} |-> IF i = id THEN Inserts[id] ELSE rows[i]])
          /\ deleted' = deleted
    BY <1>3, Zenon DEF Insert, Events
  <2> DEFINE new == [i \in DOMAIN rows \cup {id} |-> IF i = id THEN Inserts[id] ELSE rows[i]]
  <2>2. Sound(new, deleted) /\ Changed(rows, deleted, new, deleted)
    BY <1>1, <2>1, InsertTable, Zenon
  <2> QED BY <2>1, <2>2, BecomesStep, Zenon
<1>4. CASE DeleteTerminal
  <2>1. PICK event : deleted' = deleted \cup {event} /\ Becomes(Without(rows, Of(rows, event)))
    BY <1>4, Zenon DEF DeleteTerminal
  <2> DEFINE new == Without(rows, Of(rows, event))
  <2>2. Sound(new, deleted') /\ Changed(rows, deleted, new, deleted')
    BY <1>1, <2>1, DeleteFromTable, Zenon
  <2> QED BY <2>1, <2>2, BecomesStep, Zenon
<1>5. CASE Emit
  <2>1. Becomes(rows) /\ deleted' = deleted
    BY <1>5, Zenon DEF Emit
  <2>2. Changed(rows, deleted, rows, deleted)
    BY Zenon DEF Changed
  <2> QED BY <1>1, <2>1, <2>2, BecomesStep, Zenon
<1> QED BY <1>2, <1>3, <1>4, <1>5, Zenon

-----------------------------------------------------------------------------
(* The router lets a request through or answers it.                          *)
LEMMA BeginStep ==
    ASSUME AdminInv, NEW req \in Requests, Begin(req)
    PROVE  AdminInv'
<1> DEFINE let_in == Authorised(req.auth)
<1>1. /\ DOMAIN call' = Fields /\ call'.req = req /\ call'.pages = << >> /\ call'.cursor = NULL
      /\ call'.pc = (IF let_in THEN req.path ELSE "done")
      /\ call'.answer = (IF let_in THEN NULL ELSE 401)
      /\ call'.stable = (IF req.path \in Lists THEN Matching(rows, req) ELSE {})
      /\ call'.present = DOMAIN rows /\ call'.moved = FALSE
  BY DEF Begin, Idle, Fields
<1>2. /\ reader = "operator" /\ reader' = reader /\ rows' = rows /\ deleted' = deleted
      /\ Sound(rows, deleted)
  BY Zenon DEF AdminInv, Begin, history
<1>3. req.path \in Lists \cup Mutations \cup {"events", "stats"}
  BY AdminAssumption, Zenon
<1>4. CallInv'
  BY <1>1, <1>2, <1>3 DEF CallInv, OnPath, Lists, Mutations
<1>5. PagesOK(call', rows)
  <2>1. << >> \in Seq(SUBSET Nat) /\ DOMAIN << >> = {}
    OBVIOUS
  <2>2. call'.pc \in Lists => call'.stable \subseteq Matching(rows, call'.req)
    BY <1>1, Zenon DEF Lists
  <2> QED BY <1>1, <2>1, <2>2, Zenon DEF PagesOK
<1>6. AnswerOK(call', rows, deleted)
  BY <1>1, <1>3, AdminAssumption DEF AnswerOK, Finished, Lists, Mutations
<1> QED BY <1>2, <1>4, <1>5, <1>6, Zenon DEF AdminInv

(* A cursor is no id, or there is none.                                      *)
LEMMA NullIsNoId == NULL \notin Nat
  BY AdminAssumption

(* The limit is clamped to a positive number.                                *)
LEMMA ClampedLimit ==
    ASSUME NEW limit \in Int
    PROVE  clamp(limit) \in Nat \ {0}
  BY DEF clamp

(* A page continues a list: it is below the cursor, it ends where the next   *)
(* one begins, and without a next one nothing is left.                       *)
LEMMA ListStep ==
    ASSUME AdminInv, List
    PROVE  AdminInv'
<1> DEFINE ids == {id \in Matching(rows, call.req) : call.cursor = NULL \/ id < call.cursor}
           n == clamp(call.req.limit)
           items == Page(ids, n)
           next == next_cursor(items, call.req)
           listed == UNION {call.pages[i] : i \in DOMAIN call.pages}
<1>1. /\ CallInv /\ Sound(rows, deleted) /\ PagesOK(call, rows) /\ call.pc \in Lists
      /\ reader' = reader /\ rows' = rows /\ deleted' = deleted
  BY Zenon DEF AdminInv, List, history
<1>2. call.pc # "idle" /\ call.pc # "done" /\ call.req.path = call.pc
  BY <1>1 DEF CallInv, OnPath, Lists, Mutations
<1>3. reader = "operator" /\ call.req \in Requests /\ AnswerOK(call, rows, deleted)
  BY <1>1, <1>2 DEF AdminInv, CallInv, Lists
<1>4. call.req.limit \in Int
  BY <1>1, <1>2, <1>3, AdminAssumption, Zenon
<1>5. n \in Nat \ {0}
  BY <1>4, ClampedLimit
<1>6. CASE call.req.older_than = "negative"
  <2>1. call' = Answer(0)
    BY <1>6, Zenon DEF List
  <2>2. /\ DOMAIN call' = Fields /\ call'.req = call.req /\ call'.pages = call.pages
        /\ call'.pc = "done" /\ call'.answer = 0 /\ call'.present = call.present
        /\ call'.moved = call.moved /\ call'.found = call.found
    BY <1>1, <2>1 DEF Answer, CallInv, Fields
  <2>3. CallInv'
    BY <1>1, <1>3, <2>2, Zenon DEF CallInv
  <2>4. ~Finished(call')
    BY <2>2 DEF Finished
  <2>5. PagesOK(call', rows)
    BY <1>1, <2>2, <2>4 DEF PagesOK, Lists
  <2>6. AnswerOK(call', rows, deleted)
    BY <1>1, <1>2, <1>3, <2>2, <2>4 DEF AnswerOK, Lists
  <2> QED BY <1>1, <2>3, <2>5, <2>6, Zenon DEF AdminInv
<1>7. CASE call.req.older_than # "negative"
  <2>1. call' = [call EXCEPT !.pages = Append(call.pages, items), !.cursor = next,
                             !.pc = IF next = NULL THEN "done" ELSE call.pc, !.answer = 200]
    BY <1>7, SMT DEF List
  <2>2. ids \in SUBSET Nat /\ IsFiniteSet(ids)
    <3>1. ids \in SUBSET DOMAIN rows
      BY DEF Matching
    <3> HIDE DEF ids
    <3> QED BY <1>1, <3>1, FS_Subset DEF Sound
  <2> HIDE DEF ids, n
  <2>3. /\ items \subseteq ids
        /\ \A a \in items, b \in ids \ items : b < a
        /\ Cardinality(items) = n => items # {}
        /\ Cardinality(items) # n => items = ids
    BY <1>5, <2>2, PageIsTop
  <2> HIDE DEF items
  <2>4. next = IF Cardinality(items) = n THEN Min(items) ELSE NULL
    BY DEF next_cursor, n
  <2>5. items \in SUBSET Nat
    BY <2>2, <2>3, Zenon
  <2>6. /\ next = NULL => items = ids
        /\ next # NULL => next \in items /\ \A a \in items : next =< a
    <3>1. CASE Cardinality(items) = n
      <4>1. Min(items) \in items /\ \A a \in items : Min(items) =< a
        BY <2>3, <2>5, <3>1, MinIsLeast
      <4>2. Min(items) # NULL
        BY <2>5, <4>1, NullIsNoId, Zenon
      <4> QED BY <2>4, <3>1, <4>1, <4>2, Zenon
    <3>2. CASE Cardinality(items) # n
      BY <2>3, <2>4, <3>2, Zenon
    <3> QED BY <3>1, <3>2, Zenon
  <2> HIDE DEF next
  <2>7. /\ DOMAIN call' = Fields /\ call'.req = call.req
        /\ call'.pages = Append(call.pages, items) /\ call'.cursor = next
        /\ call'.pc = (IF next = NULL THEN "done" ELSE call.pc) /\ call'.answer = 200
        /\ call'.present = call.present /\ call'.moved = call.moved
        /\ call'.found = call.found /\ call'.stable = call.stable
    BY <1>1, <2>1 DEF CallInv, Fields
  <2>8. CallInv'
    BY <1>1, <1>2, <1>3, <2>7, Zenon DEF CallInv
  <2>9. AnswerOK(call', rows, deleted)
    BY <1>1, <1>2, <1>3, <2>7 DEF AnswerOK, Finished, Lists, Mutations
  <2>10. PagesOK(call', rows)
    <3> DEFINE len == Len(call.pages)
               more == UNION {call'.pages[i] : i \in DOMAIN call'.pages}
    <3>1. /\ call.pages \in Seq(SUBSET Nat) /\ call.stable \subseteq Matching(rows, call.req)
          /\ \A i, j \in DOMAIN call.pages : i < j =>
                \A a \in call.pages[i], b \in call.pages[j] : b < a
          /\ IF call.cursor = NULL
             THEN call.pages = << >>
             ELSE /\ call.cursor \in Nat
                  /\ \A a \in listed : call.cursor =< a
                  /\ \A id \in call.stable : call.cursor =< id => id \in listed
      BY <1>1, Zenon DEF PagesOK
    <3>2. /\ call'.pages \in Seq(SUBSET Nat) /\ len \in Nat
          /\ DOMAIN call.pages = 1..len /\ DOMAIN call'.pages = 1..(len + 1)
          /\ call'.pages[len + 1] = items /\ \A i \in 1..len : call'.pages[i] = call.pages[i]
      BY <2>5, <2>7, <3>1
    <3>3. more = listed \cup items
      <4>1. \A i : i \in 1..(len + 1) <=> i \in 1..len \/ i = len + 1
        BY <3>2
      <4> HIDE DEF len
      <4> QED BY <3>2, <4>1, Zenon
    <3>4. listed \subseteq Nat
      <4>1. \A i \in DOMAIN call.pages : call.pages[i] \in SUBSET Nat
        BY <3>1
      <4> QED BY <4>1, Zenon
    <3>5. \A id \in ids : call.cursor # NULL => id < call.cursor
      BY Zenon DEF ids
    <3>6. \A a \in listed, b \in items : b < a
      <4> SUFFICES ASSUME NEW a \in listed, NEW b \in items PROVE b < a
        BY Zenon
      <4>1. call.cursor # NULL
        BY <3>1
      <4>2. call.cursor \in Nat /\ call.cursor =< a /\ b < call.cursor
        BY <2>3, <3>1, <3>5, <4>1, Zenon
      <4> QED BY <2>5, <3>4, <4>2
    <3>7. \A i, j \in DOMAIN call'.pages : i < j =>
            \A a \in call'.pages[i], b \in call'.pages[j] : b < a
      <4> SUFFICES ASSUME NEW i \in 1..(len + 1), NEW j \in 1..(len + 1), i < j,
                          NEW a \in call'.pages[i], NEW b \in call'.pages[j]
                   PROVE  b < a
        BY <3>2, Zenon
      <4>1. i \in 1..len /\ (j \in 1..len \/ j = len + 1)
        BY <3>2
      <4>2. a \in call.pages[i] /\ i \in DOMAIN call.pages
        BY <3>2, <4>1, Zenon
      <4>3. CASE j \in 1..len
        BY <3>1, <3>2, <4>2, <4>3, Zenon
      <4>4. CASE j = len + 1
        BY <3>2, <3>6, <4>2, <4>4, Zenon
      <4> QED BY <4>1, <4>3, <4>4, Zenon
    <3>8. \A id \in call.stable : id \in listed \/ id \in ids
      <4> SUFFICES ASSUME NEW id \in call.stable, id \notin listed PROVE id \in ids
        BY Zenon
      <4>1. id \in Matching(rows, call.req) /\ id \in Nat
        BY <1>1, <3>1, Zenon DEF Sound, Matching
      <4>2. call.cursor = NULL \/ id < call.cursor
        BY <3>1, <4>1
      <4> QED BY <4>1, <4>2, Zenon DEF ids
    <3>9. CASE next = NULL
      <4>1. call.stable \subseteq more
        BY <2>6, <3>3, <3>8, <3>9, Zenon
      <4>2. call'.pc = "done" /\ call'.pages \in Seq(SUBSET Nat)
        BY <2>7, <3>2, <3>9, Zenon
      <4> QED BY <2>7, <3>7, <4>1, <4>2, Zenon DEF PagesOK, Lists
    <3>10. CASE next # NULL
      <4>1. next \in Nat /\ next \in items
        BY <2>5, <2>6, <3>10, Zenon
      <4>2. \A a \in more : next =< a
        <5>1. \A a \in listed : next =< a
          BY <2>5, <3>4, <3>6, <4>1
        <5> QED BY <2>6, <3>3, <3>10, <5>1, Zenon
      <4>3. \A id \in call.stable : next =< id => id \in more
        <5> SUFFICES ASSUME NEW id \in call.stable, next =< id, id \notin more PROVE FALSE
          BY Zenon
        <5>1. id \in ids \ items
          BY <3>3, <3>8, Zenon
        <5>2. id < next /\ id \in Nat
          BY <2>2, <2>3, <4>1, <5>1, Zenon
        <5> QED BY <4>1, <5>2
      <4>4. call'.pc = call.pc /\ call'.pc # "done"
        BY <1>2, <2>7, <3>10, Zenon
      <4>5. ~Finished(call')
        BY <4>4 DEF Finished
      <4> QED BY <1>1, <2>7, <3>1, <3>2, <3>7, <3>10, <4>1, <4>2, <4>3, <4>4, <4>5, Zenon DEF PagesOK
    <3> QED BY <3>9, <3>10, Zenon
  <2> QED BY <1>1, <1>3, <2>8, <2>9, <2>10, Zenon DEF AdminInv
<1> QED BY <1>6, <1>7, Zenon

-----------------------------------------------------------------------------
(* A request that is not a list has no pages.                                *)
LEMMA PagesWithout ==
    ASSUME NEW c, NEW d, NEW table, NEW new, PagesOK(c, table), c.pc \notin Lists \cup {"done"},
           d.pages = c.pages, d.pc \notin Lists
    PROVE  PagesOK(d, new)
<1>1. d.pages = << >> /\ << >> \in Seq(SUBSET Nat) /\ DOMAIN << >> = {}
  BY SMT DEF PagesOK
<1> QED BY <1>1, Zenon DEF PagesOK

(* The event and then its deliveries, which go only together.                *)
LEMMA EventStep ==
    ASSUME AdminInv, GetEvent \/ GetDeliveries
    PROVE  AdminInv'
<1>1. /\ CallInv /\ Sound(rows, deleted) /\ PagesOK(call, rows)
      /\ call.pc \in {"events", "deliveries"}
      /\ reader' = reader /\ rows' = rows /\ deleted' = deleted
  BY Zenon DEF AdminInv, GetEvent, GetDeliveries, history
<1>2. call.req.path = "events" /\ call.pc \notin Lists \cup {"done"} /\ call.pc # "idle"
  BY <1>1 DEF CallInv, OnPath, Lists, Mutations
<1>3. reader = "operator" /\ call.req \in Requests /\ AnswerOK(call, rows, deleted)
  BY <1>1, <1>2 DEF AdminInv, CallInv
<1>4. /\ DOMAIN call' = Fields /\ call'.req = call.req /\ call'.pages = call.pages
      /\ call'.pc \in {"deliveries", "done"}
  <2>1. \/ \E ids : call' = [call EXCEPT !.pc = "deliveries", !.present = ids]
        \/ \E status, ids : call' = [[call EXCEPT !.pc = "done", !.answer = status] EXCEPT !.found = ids]
        \/ \E status : call' = [call EXCEPT !.pc = "done", !.answer = status]
    BY ZenonT(30) DEF GetEvent, GetDeliveries, Answer
  <2>2. DOMAIN call = Fields
    BY <1>1, Zenon DEF CallInv
  <2> QED BY <2>1, <2>2, Zenon DEF Fields
<1>5. CallInv'
  BY <1>1, <1>2, <1>3, <1>4 DEF CallInv, OnPath
<1>6. PagesOK(call', rows)
  <2>1. call'.pc \notin Lists
    BY <1>4 DEF Lists
  <2> QED BY <1>1, <1>2, <1>4, <2>1, PagesWithout, Zenon
<1>7. AnswerOK(call', rows, deleted)
  <2>1. CASE GetEvent /\ call.req.id \in Events
    <3>1. /\ call'.pc = "deliveries" /\ call'.present = Of(rows, call.req.id)
          /\ call'.answer = call.answer
      BY <1>1, <2>1 DEF GetEvent, CallInv, Fields
    <3>2. call.answer = NULL /\ Authorised(call.req.auth)
      BY <1>2, <1>3 DEF AnswerOK
    <3>3. call'.present \subseteq DOMAIN rows
      BY <3>1, Zenon DEF Of
    <3> QED BY <1>4, <3>1, <3>2, <3>3, AdminAssumption DEF AnswerOK, Finished, Lists
  <2>2. CASE GetEvent /\ call.req.id \notin Events
    <3>1. call'.pc = "done" /\ call'.present = call.present /\ call'.answer = 404
      BY <1>1, <2>2 DEF GetEvent, Answer, CallInv, Fields
    <3> QED BY <1>2, <1>3, <1>4, <3>1 DEF AnswerOK, Finished, Mutations
  <2>3. CASE GetDeliveries
    <3>1. /\ call.pc = "deliveries" /\ call'.pc = "done" /\ call'.present = call.present
          /\ call'.answer = 200 /\ call'.found = Of(rows, call.req.id)
      BY <1>1, <2>3 DEF GetDeliveries, Answer, CallInv, Fields
    <3> QED BY <1>2, <1>3, <1>4, <3>1 DEF AnswerOK
  <2> QED BY <2>1, <2>2, <2>3, Zenon
<1> QED BY <1>1, <1>5, <1>6, <1>7, Zenon DEF AdminInv

(* retry, complete and abandon: one UPDATE, and the SELECT that tells locked *)
(* from missing.                                                             *)
LEMMA MutationStep ==
    ASSUME AdminInv, Retry \/ Complete \/ Abandon \/ RetryExists
    PROVE  AdminInv'
<1>1. /\ CallInv /\ Sound(rows, deleted) /\ PagesOK(call, rows)
      /\ call.pc \in Mutations \cup {"exists"} /\ reader' = reader /\ deleted' = deleted
  BY Zenon DEF AdminInv, Retry, Complete, Abandon, RetryExists, Update, Mutations, history
<1>2. call.req.path \in Mutations /\ call.pc \notin Lists \cup {"done"} /\ call.pc # "idle"
  BY <1>1 DEF CallInv, OnPath, Lists, Mutations
<1>3. reader = "operator" /\ call.req \in Requests /\ AnswerOK(call, rows, deleted)
  BY <1>1, <1>2 DEF AdminInv, CallInv, Mutations
<1>4. /\ DOMAIN call' = Fields /\ call'.req = call.req /\ call'.pages = call.pages
      /\ call'.present = call.present /\ call'.moved = call.moved
      /\ \/ call'.pc = "exists" /\ call.pc = "retry" /\ call'.answer = call.answer
         \/ call'.pc = "done"
  <2>1. \/ call' = [call EXCEPT !.pc = "exists"] /\ call.pc = "retry"
        \/ \E status : call' = Answer(status)
    BY DEF Retry, Complete, Abandon, RetryExists, Update
  <2> QED BY <1>1, <2>1, ZenonT(30) DEF Answer, CallInv, Fields
<1>5. CallInv'
  BY <1>1, <1>2, <1>3, <1>4 DEF CallInv, OnPath, Mutations
<1>6. PagesOK(call', rows')
  <2>1. call'.pc \notin Lists
    BY <1>4 DEF Lists
  <2> QED BY <1>1, <1>2, <1>4, <2>1, PagesWithout, Zenon
<1>7. /\ call.answer = NULL /\ Authorised(call.req.auth)
      /\ \A id \in call.present \ DOMAIN rows : id \in DOMAIN Inserts => Inserts[id].event \in deleted
      /\ call.pc = "exists" => call.moved \/ call.req.id \notin DOMAIN rows \/ rows[call.req.id].locked
  BY <1>2, <1>3 DEF AnswerOK
<1>8. CASE RetryExists
  <2>1. rows' = rows /\ call'.pc = "done" /\ call'.answer = IF Found THEN 409 ELSE 404
    BY <1>1, <1>8 DEF RetryExists, Answer, CallInv, Fields
  <2>2. call.pc = "exists"
    BY <1>8 DEF RetryExists
  <2>3. AnswerOK(call', rows, deleted)
    BY <1>2, <1>4, <1>7, <2>1, <2>2 DEF AnswerOK, Finished, Found, Mutations
  <2> QED BY <1>1, <1>5, <1>6, <2>1, <2>3, Zenon DEF AdminInv
<1>9. ASSUME NEW cond, NEW y, Update(cond, y), cond => Found /\ y \in Row /\ y.event = Target.event,
             call.pc = "retry" /\ ~cond => ~Found \/ Target.locked, ~cond /\ call.pc # "retry" => ~Found
      PROVE  AdminInv'
  <2>1. CASE cond
    <3>1. rows' = [rows EXCEPT ![call.req.id] = y] /\ call' = Answer(200)
      BY <1>9, <2>1, SMT DEF Update
    <3>2. call'.pc = "done" /\ call'.answer = 200
      BY <1>1, <3>1 DEF Answer, CallInv, Fields
    <3>3. Sound(rows', deleted)
      BY <1>1, <1>9, <2>1, <3>1, UpdateTable, Zenon DEF Found, Target
    <3>4. DOMAIN rows' = DOMAIN rows
      BY <3>1, Zenon
    <3>5. AnswerOK(call', rows', deleted)
      BY <1>2, <1>4, <1>7, <3>2, <3>4 DEF AnswerOK, Finished, Mutations
    <3> QED BY <1>1, <1>5, <1>6, <3>3, <3>5, Zenon DEF AdminInv
  <2>2. CASE ~cond /\ call.pc = "retry"
    <3>1. rows' = rows /\ call' = [call EXCEPT !.pc = "exists"]
      BY <1>9, <2>2, SMT DEF Update
    <3>2. call'.pc = "exists" /\ call'.answer = call.answer
      BY <1>1, <3>1 DEF CallInv, Fields
    <3>3. AnswerOK(call', rows, deleted)
      BY <1>2, <1>4, <1>7, <1>9, <2>2, <3>2, AdminAssumption
         DEF AnswerOK, Finished, Found, Target, Lists
    <3> QED BY <1>1, <1>5, <1>6, <3>1, <3>3, Zenon DEF AdminInv
  <2>3. CASE ~cond /\ call.pc # "retry"
    <3>1. rows' = rows /\ call' = Answer(404)
      BY <1>9, <2>3, SMT DEF Update
    <3>2. call'.pc = "done" /\ call'.answer = 404
      BY <1>1, <3>1 DEF Answer, CallInv, Fields
    <3>3. AnswerOK(call', rows, deleted)
      BY <1>2, <1>4, <1>7, <1>9, <2>3, <3>2 DEF AnswerOK, Finished, Found, Mutations
    <3> QED BY <1>1, <1>5, <1>6, <3>1, <3>3, Zenon DEF AdminInv
  <2> QED BY <2>1, <2>2, <2>3, Zenon
<1>10. Found => Target \in Row
  BY <1>1, Zenon DEF Sound, Found, Target
<1>11. CASE Retry
  <2> DEFINE y == [Target EXCEPT !.dispatched = "no", !.processed = FALSE, !.dead = FALSE]
  <2>1. Found => y \in Row /\ y.event = Target.event
    BY <1>10, Zenon DEF Row
  <2>2. call.pc = "retry" /\ Update(Found /\ ~Target.locked, y)
    BY <1>11, Zenon DEF Retry
  <2> HIDE DEF y
  <2> QED BY <1>9, <2>1, <2>2, Zenon
<1>12. CASE Complete
  <2> DEFINE y == [Target EXCEPT !.processed = TRUE]
  <2>1. Found => y \in Row /\ y.event = Target.event
    BY <1>10, Zenon DEF Row
  <2>2. call.pc = "complete" /\ Update(Found, y)
    BY <1>12, Zenon DEF Complete
  <2> HIDE DEF y
  <2> QED BY <1>9, <2>1, <2>2, Zenon
<1>13. CASE Abandon
  <2> DEFINE y == [Target EXCEPT !.dead = TRUE]
  <2>1. Found => y \in Row /\ y.event = Target.event
    BY <1>10, Zenon DEF Row
  <2>2. call.pc = "abandon" /\ Update(Found, y)
    BY <1>13, Zenon DEF Abandon
  <2> HIDE DEF y
  <2> QED BY <1>9, <2>1, <2>2, Zenon
<1> QED BY <1>8, <1>11, <1>12, <1>13, Zenon

-----------------------------------------------------------------------------
(* The statements of fetch_stats, for the endpoint and for the sampler.      *)
LEMMA CountStep ==
    ASSUME AdminInv, CountEvents \/ CountDeliveries \/ CountPerCallback
    PROVE  AdminInv'
<1>1. /\ CallInv /\ Sound(rows, deleted) /\ PagesOK(call, rows)
      /\ call.pc \in {"stats", "totals", "callbacks"}
      /\ reader' = reader /\ rows' = rows /\ deleted' = deleted
  BY Zenon DEF AdminInv, CountEvents, CountDeliveries, CountPerCallback, history
<1>2. call.req.path = "stats" /\ call.pc \notin Lists \cup {"done"} /\ call.pc # "idle"
  BY <1>1 DEF CallInv, OnPath, Lists, Mutations
<1>3. /\ DOMAIN call' = Fields /\ call'.req = call.req /\ call'.pages = call.pages
      /\ call'.present = call.present
      /\ \/ call'.pc \in {"totals", "callbacks"} /\ call'.answer = call.answer
         \/ call'.pc = "done" /\ call'.answer = 200
  <2>1. \/ \E s : call' = [call EXCEPT !.pc = "totals", !.moved = FALSE, !.stats = s]
        \/ \E s : call' = [call EXCEPT !.pc = "callbacks", !.stats = s]
        \/ \E s : call' = [[call EXCEPT !.pc = "done", !.answer = 200] EXCEPT !.stats = s]
    BY ZenonT(30) DEF CountEvents, CountDeliveries, CountPerCallback, Answer
  <2> QED BY <1>1, <2>1, ZenonT(30) DEF CallInv, Fields
<1>4. CallInv'
  BY <1>1, <1>2, <1>3 DEF CallInv, OnPath
<1>5. PagesOK(call', rows)
  <2>1. call'.pc \notin Lists
    BY <1>3 DEF Lists
  <2> QED BY <1>1, <1>2, <1>3, <2>1, PagesWithout, Zenon
<1>6. ASSUME reader = "operator"
      PROVE  AnswerOK(call', rows, deleted)
  <2>1. AnswerOK(call, rows, deleted)
    BY <1>2, <1>6 DEF AdminInv
  <2> QED BY <1>2, <1>3, <2>1, AdminAssumption DEF AnswerOK, Finished, Mutations, Lists
<1> QED BY <1>1, <1>4, <1>5, <1>6, Zenon DEF AdminInv

(* The sampler starts a fetch, or is done with one.                          *)
LEMMA SampleStep ==
    ASSUME AdminInv, Sample
    PROVE  AdminInv'
<1>1. /\ reader = "sampler" /\ reader' = reader /\ rows' = rows /\ deleted' = deleted
      /\ Sound(rows, deleted)
  BY Zenon DEF AdminInv, Sample, Tick, Publish, PublishOr, history
<1>2. /\ DOMAIN call' = Fields /\ call'.pages = << >>
      /\ \/ call'.pc = "idle" /\ call'.answer = NULL
         \/ call'.pc = "stats" /\ call'.req.path = "stats"
  <2>1. call' = Idle \/ call' = [Idle EXCEPT !.pc = "stats", !.req = [path |-> "stats"]]
    BY Zenon DEF Sample, Tick, Publish, PublishOr
  <2>2. [path |-> "stats"].path = "stats"
    OBVIOUS
  <2>3. CASE call' = Idle
    BY <2>3 DEF Idle, Fields
  <2>4. ASSUME NEW req, call' = [Idle EXCEPT !.pc = "stats", !.req = req]
        PROVE  /\ DOMAIN call' = Fields /\ call'.pages = << >>
               /\ call'.pc = "stats" /\ call'.req = req
    BY <2>4 DEF Idle, Fields
  <2> QED BY <2>1, <2>2, <2>3, <2>4, Zenon
<1>3. CallInv'
  BY <1>1, <1>2 DEF CallInv, OnPath
<1>4. PagesOK(call', rows)
  <2>1. << >> \in Seq(SUBSET Nat) /\ DOMAIN << >> = {} /\ call'.pc \notin Lists
    BY <1>2 DEF Lists
  <2> QED BY <1>2, <2>1, Zenon DEF PagesOK
<1> QED BY <1>1, <1>3, <1>4, SMT DEF AdminInv

(* A statement fails: the request is answered with 500.                      *)
LEMMA ErrorStep ==
    ASSUME AdminInv, DatabaseError
    PROVE  AdminInv'
<1>1. /\ CallInv /\ Sound(rows, deleted) /\ PagesOK(call, rows)
      /\ call.pc \notin {"idle", "done"} /\ call' = Answer(500)
      /\ reader' = reader /\ rows' = rows /\ deleted' = deleted
  BY SMT DEF AdminInv, DatabaseError, history
<1>2. /\ DOMAIN call' = Fields /\ call'.req = call.req /\ call'.pages = call.pages
      /\ call'.present = call.present /\ call'.pc = "done" /\ call'.answer = 500
  BY <1>1 DEF Answer, CallInv, Fields
<1>3. CallInv'
  BY <1>1, <1>2 DEF CallInv
<1>4. PagesOK(call', rows)
  <2>1. call'.pc \notin Lists /\ ~Finished(call') /\ call'.pc = "done"
    BY <1>2 DEF Lists, Finished
  <2>2. call'.pages = call.pages
    BY <1>2
  <2>3. /\ call.pages \in Seq(SUBSET Nat)
        /\ \A i, j \in DOMAIN call.pages : i < j =>
              \A a \in call.pages[i], b \in call.pages[j] : b < a
    BY <1>1, Zenon DEF PagesOK
  <2>4. call'.pc \in Lists \cup {"done"}
    BY <2>1, Zenon
  <2> QED BY <2>1, <2>2, <2>3, <2>4, Zenon DEF PagesOK
<1>5. ASSUME reader = "operator"
      PROVE  AnswerOK(call', rows, deleted)
  <2>1. AnswerOK(call, rows, deleted)
    BY <1>1, <1>5 DEF AdminInv
  <2> QED BY <1>1, <1>2, <2>1 DEF AnswerOK, Finished
<1> QED BY <1>1, <1>3, <1>4, <1>5, Zenon DEF AdminInv

(* Nothing asked, nothing deleted.                                           *)
LEMMA AdminInit ==
    ASSUME Init
    PROVE  AdminInv
<1>1. /\ DOMAIN call = Fields /\ call.pages = << >> /\ call.pc = "idle" /\ call.req = NULL
      /\ call.answer = NULL /\ reader \in {"operator", "sampler"}
  BY DEF Init, Idle, Fields
<1>2. CallInv
  BY <1>1 DEF CallInv
<1>3. Sound(rows, deleted)
  <2>1. rows \in Tables /\ deleted = {}
    BY DEF Init
  <2>2. /\ IsFiniteSet(DOMAIN rows) /\ DOMAIN rows \subseteq Nat
        /\ \A id \in DOMAIN rows : rows[id] \in Row /\ \A new \in DOMAIN Inserts : id < new
    BY <2>1, AdminAssumption, Zenon
  <2>3. DOMAIN Inserts \subseteq Nat
    BY AdminAssumption, Zenon
  <2>4. \A id \in DOMAIN rows : id \notin DOMAIN Inserts
    BY <2>2, <2>3
  <2> QED BY <2>1, <2>2, <2>4, Zenon DEF Sound
<1>4. PagesOK(call, rows)
  <2>1. << >> \in Seq(SUBSET Nat) /\ DOMAIN << >> = {} /\ call.pc \notin Lists
    BY <1>1 DEF Lists
  <2> QED BY <1>1, <2>1, Zenon DEF PagesOK
<1> QED BY <1>1, <1>2, <1>3, <1>4, Zenon DEF AdminInv

(* One step per action.                                                      *)
LEMMA AdminStep ==
    ASSUME AdminInv, [Next]_vars
    PROVE  AdminInv'
<1>1. CASE Work \/ Emit \/ Insert \/ DeleteTerminal
  BY <1>1, TableStep, Zenon
<1>2. CASE \E req \in Requests : Begin(req)
  BY <1>2, BeginStep, Zenon
<1>3. CASE List
  BY <1>3, ListStep, Zenon
<1>4. CASE GetEvent \/ GetDeliveries
  BY <1>4, EventStep, Zenon
<1>5. CASE Retry \/ Complete \/ Abandon \/ RetryExists
  BY <1>5, MutationStep, Zenon
<1>6. CASE CountEvents \/ CountDeliveries \/ CountPerCallback
  BY <1>6, CountStep, Zenon
<1>7. CASE Sample
  BY <1>7, SampleStep, Zenon
<1>8. CASE DatabaseError
  BY <1>8, ErrorStep, Zenon
<1>9. CASE UNCHANGED vars
  <2>1. reader' = reader /\ rows' = rows /\ deleted' = deleted /\ call' = call
    BY <1>9, Zenon DEF vars, history
  <2> QED BY <2>1, Zenon DEF AdminInv, CallInv
<1> QED BY <1>1, <1>2, <1>3, <1>4, <1>5, <1>6, <1>7, <1>8, <1>9, Zenon DEF Next, Operate

(* CallInv, Sound, PagesOK and AnswerOK hold in every reachable state: the   *)
(* routes keep what the theorems about listings and answers rest on.         *)
LEMMA AdminInvariant == Spec => []AdminInv
  BY AdminInit, AdminStep, PTL DEF Spec

(* PagesComplete: for every table, limit and interleaving of other changes,  *)
(* following next_cursor to its end lists every row that the list is about   *)
(* all the time, and no row twice.                                           *)
THEOREM PagesListed == Spec => []PagesComplete
<1>1. AdminInv => PagesComplete
  BY Zenon DEF AdminInv, PagesOK, PagesComplete, Listed, Finished
<1> QED BY <1>1, AdminInvariant, PTL

(* AnswersFit: 401 exactly without the token; a delivery that is there       *)
(* throughout is never reported missing and a missing one never locked; an   *)
(* event's deliveries are missing only when retention took the event.        *)
THEOREM AnswersSound == Spec => []AnswersFit
<1>1. ASSUME AdminInv, call.req # NULL, reader = "operator"
      PROVE  /\ call.answer = 401 <=> ~Authorised(call.req.auth)
             /\ call.answer = 404 /\ call.req.path \in Mutations =>
                   call.req.id \notin call.present \cap DOMAIN rows
             /\ call.answer = 409 => call.moved \/ (Found /\ Target.locked)
             /\ call.answer = 200 /\ call.req.path = "events"
                   /\ ~(call.present \subseteq call.found) => call.req.id \in deleted
  <2>1. CallInv /\ Sound(rows, deleted) /\ call.pc # "idle"
    BY <1>1 DEF AdminInv, CallInv
  <2>2. AnswerOK(call, rows, deleted)
    BY <1>1, <2>1 DEF AdminInv
  <2>3. call.answer = 401 <=> ~Authorised(call.req.auth)
    BY <2>2, AdminAssumption DEF AnswerOK
  <2>4. call.answer = 409 => call.moved \/ (Found /\ Target.locked)
    BY <2>2 DEF AnswerOK, Found, Target
  <2>5. call.answer = 404 /\ call.req.path \in Mutations =>
            call.req.id \notin call.present \cap DOMAIN rows
    BY <2>2 DEF AnswerOK
  <2>6. ASSUME call.answer = 200, call.req.path = "events", ~(call.present \subseteq call.found)
        PROVE  call.req.id \in deleted
    <3>1. call.pc = "done"
      BY <2>1, <2>2, <2>6, AdminAssumption DEF AnswerOK, CallInv, OnPath, Lists, Mutations
    <3>2. Finished(call)
      BY <2>6, <3>1 DEF Finished
    <3> QED BY <2>2, <2>6, <3>2 DEF AnswerOK
  <2> QED BY <2>3, <2>4, <2>5, <2>6
<1>2. AdminInv => AnswersFit
  BY <1>1 DEF AnswersFit
<1> QED BY <1>2, AdminInvariant, PTL

-----------------------------------------------------------------------------
(* The fold behind a sum of counts is the count of their union, by induction *)
(* on the size of the set summed over: the totals of fetch_stats against its *)
(* groups.                                                                   *)
LEMMA SumIsCount ==
    ASSUME NEW ids, IsFiniteSet(ids), NEW key, NEW f, IsFiniteSet(DOMAIN f),
           \A n \in DOMAIN f : f[n] = Cardinality({id \in ids : key[id] = n})
    PROVE  SumFunction(f) = Cardinality({id \in ids : key[id] \in DOMAIN f})
<1> DEFINE S == DOMAIN f
           Part(s) == {id \in ids : key[id] \in s}
           First(s) == CHOOSE x \in s : TRUE
           Body(h) == [s \in SUBSET S |-> IF s = {} THEN 0 ELSE f[First(s)] + h[s \ {First(s)}]]
           g == [s \in SUBSET S |-> Cardinality(Part(s))]
           iter == CHOOSE h : h = Body(h)
<1>1. SumFunction(f) = iter[S]
  BY Zenon DEF SumFunction, SumFunctionOnSet, FoldFunctionOnSet, MapThenFoldSet
<1>2. \A s \in SUBSET S : s # {} => First(s) \in s
  BY Zenon
<1> HIDE DEF First
<1>3. \A s \in SUBSET S : IsFiniteSet(Part(s)) /\ Cardinality(Part(s)) \in Nat
  <2> SUFFICES ASSUME NEW s \in SUBSET S PROVE IsFiniteSet(Part(s)) /\ Cardinality(Part(s)) \in Nat
    OBVIOUS
  <2>1. Part(s) \subseteq ids
    BY Zenon
  <2> QED BY <2>1, FS_Subset, FS_CardinalityType, Zenon
<1>4. ASSUME NEW s \in SUBSET S, s # {}
      PROVE  Cardinality(Part(s)) = f[First(s)] + Cardinality(Part(s \ {First(s)}))
  <2> DEFINE x == First(s)
             own == {id \in ids : key[id] = x}
             rest == Part(s \ {x})
  <2>1. x \in s /\ x \in S /\ s \ {x} \in SUBSET S
    BY <1>2, <1>4, Zenon
  <2> HIDE DEF x
  <2>2. own \subseteq ids
    BY Zenon
  <2>3. IsFiniteSet(own) /\ IsFiniteSet(rest) /\ Cardinality(own) \in Nat /\ Cardinality(rest) \in Nat
    BY <1>3, <2>1, <2>2, FS_Subset, FS_CardinalityType, Zenon
  <2>4. own \cup rest = Part(s) /\ own \cap rest = {}
    BY <2>1, Zenon
  <2>5. f[x] = Cardinality(own)
    BY <2>1, Zenon
  <2> HIDE DEF own, rest, Part
  <2>6. Cardinality(own \cup rest) = Cardinality(own) + Cardinality(rest) - Cardinality(own \cap rest)
    BY <2>3, FS_Union, Zenon
  <2>7. Cardinality(own \cap rest) = 0
    BY <2>4, FS_EmptySet, Zenon
  <2>8. Cardinality(Part(s)) = Cardinality(own) + Cardinality(rest) - 0
    BY <2>4, <2>6, <2>7, Zenon
  <2>9. Cardinality(Part(s)) = Cardinality(own) + Cardinality(rest)
    BY <2>3, <2>8
  <2> QED BY <2>5, <2>9, Zenon DEF x, rest
<1>5. Part({}) = {} /\ Cardinality({}) = 0
  BY FS_EmptySet, Zenon
<1>6. g = Body(g)
  <2>1. ASSUME NEW s \in SUBSET S
        PROVE  g[s] = IF s = {} THEN 0 ELSE f[First(s)] + g[s \ {First(s)}]
    <3> HIDE DEF Part
    <3>1. s \ {First(s)} \in SUBSET S
      BY Zenon
    <3> QED BY <1>4, <1>5, <3>1, Zenon
  <2> QED BY <2>1, Zenon
<1>7. iter = Body(iter)
  <2> HIDE DEF Body, g
  <2> QED BY <1>6, Zenon
<1>8. \A s \in SUBSET S : iter[s] = IF s = {} THEN 0 ELSE f[First(s)] + iter[s \ {First(s)}]
  <2> HIDE DEF iter
  <2> QED BY <1>7, Zenon
<1> HIDE DEF iter, Body, Part
<1>9. ASSUME NEW s \in SUBSET S, iter[s] # Cardinality(Part(s)) PROVE FALSE
  <2> DEFINE Wrong == {t \in SUBSET S : iter[t] # Cardinality(Part(t))}
             Sizes == {Cardinality(t) : t \in Wrong}
  <2>1. \A t \in SUBSET S : IsFiniteSet(t) /\ Cardinality(t) \in Nat
    BY FS_Subset, FS_CardinalityType, Zenon
  <2>2. s \in Wrong /\ \A t \in Wrong : Cardinality(t) \in Nat
    BY <1>9, <2>1, Zenon
  <2>3. PICK t \in Wrong : \A u \in Wrong : Cardinality(t) =< Cardinality(u)
    <3> HIDE DEF Wrong
    <3>1. Sizes \in SUBSET Nat /\ Cardinality(s) \in Sizes
      BY <2>2, Zenon
    <3>2. PICK m \in Sizes : \A n \in Sizes : m =< n
      <4> HIDE DEF Sizes
      <4> QED BY <3>1, HasLeast, Zenon
    <3> QED BY <3>2, Zenon
  <2>4. t # {}
    BY <1>5, <1>8, Zenon
  <2> DEFINE x == First(t)
  <2>5. x \in t
    BY <1>2, <2>4, Zenon
  <2>6. t \ {x} \in SUBSET S /\ iter[t] = f[x] + iter[t \ {x}]
    BY <1>8, <2>4, Zenon
  <2>7. Cardinality(Part(t)) = f[x] + Cardinality(Part(t \ {x}))
    BY <1>4, <2>4, Zenon
  <2>8. t \ {x} \in Wrong
    BY <2>6, <2>7, Zenon
  <2> HIDE DEF x, Wrong
  <2>9. Cardinality(t \ {x}) = Cardinality(t) - 1
    BY <2>1, <2>3, <2>5, FS_RemoveElement, Zenon DEF Wrong
  <2>10. Cardinality(t) \in Nat
    BY <2>1, <2>3, Zenon DEF Wrong
  <2> QED BY <2>3, <2>8, <2>9, <2>10
<1> QED BY <1>1, <1>9, Zenon DEF Part

\* The totals in an answer are those of the table.
HasTotals(stats, table) ==
    \A field \in DOMAIN Totals(table) :
        field \in DOMAIN stats /\ stats[field] = Totals(table)[field]

\* While nothing else changes the table, the statements of fetch_stats see the same rows.
StatsInv ==
    ~call.moved =>
        /\ call.pc = "callbacks" => HasTotals(call.stats, rows)
        /\ Finished(call) /\ call.req.path = "stats" =>
              HasTotals(call.stats, rows) /\ call.stats.callbacks = PerCallback(rows)

(* The statements of fetch_stats, one after the other.                       *)
LEMMA CountStats ==
    ASSUME AdminInv, StatsInv, CountEvents \/ CountDeliveries \/ CountPerCallback
    PROVE  StatsInv'
<1>1. DOMAIN call = Fields
  BY Zenon DEF AdminInv, CallInv
<1>2. CASE CountEvents
  <2>1. \E s : call' = [call EXCEPT !.pc = "totals", !.moved = FALSE, !.stats = s]
    BY <1>2, Zenon DEF CountEvents
  <2>2. call'.pc = "totals"
    BY <1>1, <2>1, Zenon DEF Fields
  <2> QED BY <2>2 DEF StatsInv, Finished
<1>3. CASE CountDeliveries
  <2> DEFINE s == With(call.stats, Totals(rows))
  <2>1. call' = [call EXCEPT !.pc = "callbacks", !.stats = s] /\ rows' = rows
    BY <1>3, Zenon DEF CountDeliveries
  <2>2. HasTotals(s, rows)
    <3> DEFINE t == Totals(rows)
    <3> HIDE DEF t
    <3> QED BY Zenon DEF HasTotals, With, t
  <2> HIDE DEF s
  <2>3. call'.pc = "callbacks" /\ call'.stats = s
    BY <1>1, <2>1, Zenon DEF Fields
  <2>4. call'.pc # "done"
    BY <2>3
  <2> QED BY <2>1, <2>2, <2>3, <2>4, Zenon DEF StatsInv, Finished
<1>4. CASE CountPerCallback
  <2> DEFINE s == With(call.stats, [callbacks |-> PerCallback(rows)])
  <2>1. /\ call' = [[call EXCEPT !.pc = "done", !.answer = 200] EXCEPT !.stats = s]
        /\ rows' = rows /\ call.pc = "callbacks"
    <3>1. call.stats = Answer(200).stats
      BY <1>1, ZenonT(30) DEF Answer, Fields
    <3> QED BY <1>4, <3>1, ZenonT(30) DEF CountPerCallback, Answer
  <2>2. s.callbacks = PerCallback(rows)
    BY DEF With
  <2>3. HasTotals(call.stats, rows) => HasTotals(s, rows)
    <3>1. \A field \in DOMAIN Totals(rows) : field # "callbacks"
      BY DEF Totals
    <3>2. DOMAIN [callbacks |-> PerCallback(rows)] = {"callbacks"}
      OBVIOUS
    <3> DEFINE one == [callbacks |-> PerCallback(rows)]
    <3>3. s = With(call.stats, one) /\ DOMAIN one = {"callbacks"}
      BY <3>2, Zenon
    <3> HIDE DEF one, s
    <3> QED BY <3>1, <3>3, Zenon DEF HasTotals, With
  <2> HIDE DEF s
  <2>4. call'.pc = "done" /\ call'.stats = s /\ call'.moved = call.moved
    BY <1>1, <2>1, ZenonT(30) DEF Fields
  <2>5. call'.pc # "callbacks"
    BY <2>4
  <2> QED BY <2>1, <2>2, <2>3, <2>4, <2>5, Zenon DEF StatsInv
<1> QED BY <1>2, <1>3, <1>4, Zenon

(* Any other step marks the request as overtaken, or belongs to another      *)
(* request.                                                                  *)
LEMMA OtherStats ==
    ASSUME AdminInv, AdminInv', StatsInv, Next,
           ~CountEvents, ~CountDeliveries, ~CountPerCallback
    PROVE  StatsInv'
<1>1. /\ DOMAIN call = Fields /\ DOMAIN call' = Fields
      /\ call.pc \notin {"idle", "done"} => OnPath(call.pc, call.req.path)
      /\ call'.pc \notin {"idle", "done"} => OnPath(call'.pc, call'.req.path)
  BY Zenon DEF AdminInv, CallInv
<1>2. SUFFICES \/ call'.moved = TRUE
               \/ call'.req.path # "stats"
               \/ call'.pc # "callbacks" /\ ~Finished(call')
  <2>1. call'.req.path # "stats" => call'.pc # "callbacks"
    BY <1>1 DEF OnPath, Lists, Mutations
  <2> QED BY <2>1, Zenon DEF StatsInv
<1>3. CASE Work \/ Emit \/ Insert \/ DeleteTerminal
  <2>1. \E s : call' = [call EXCEPT !.moved = TRUE, !.stable = s]
    BY <1>3, Zenon DEF Work, Emit, Insert, DeleteTerminal, Becomes
  <2> QED BY <1>1, <2>1, Zenon DEF Fields
<1>4. ASSUME NEW req \in Requests, Begin(req)
      PROVE  call'.pc # "callbacks" /\ ~Finished(call')
  <2>1. /\ call'.pc = (IF Authorised(req.auth) THEN req.path ELSE "done")
        /\ call'.answer = (IF Authorised(req.auth) THEN NULL ELSE 401)
    BY <1>4 DEF Begin, Idle
  <2>2. req.path \in Lists \cup Mutations \cup {"events", "stats"}
    BY AdminAssumption, Zenon
  <2>3. req.path # "callbacks" /\ req.path # "done"
    BY <2>2 DEF Lists, Mutations
  <2> QED BY <2>1, <2>3 DEF Finished
<1>5. CASE List \/ GetEvent \/ GetDeliveries \/ Retry \/ Complete \/ Abandon \/ RetryExists
  <2>1. call.pc \in Lists \cup Mutations \cup {"events", "deliveries", "exists"}
    BY <1>5 DEF List, GetEvent, GetDeliveries, Retry, Complete, Abandon, RetryExists, Mutations
  <2>2. call.req.path # "stats"
    BY <1>1, <2>1 DEF OnPath, Lists, Mutations
  <2>3. call'.req = call.req
    <3>1. ASSUME NEW status PROVE Answer(status).req = call.req
      BY <1>1, Zenon DEF Answer, Fields
    <3>2. CASE List
      <4>1. \/ \E status : call' = Answer(status)
            \/ \E pages, cursor, pc, status :
                  call' = [call EXCEPT !.pages = pages, !.cursor = cursor, !.pc = pc,
                                       !.answer = status]
        BY <3>2, ZenonT(30) DEF List
      <4>2. ASSUME NEW status, call' = Answer(status) PROVE call'.req = call.req
        BY <3>1, <4>2, Zenon
      <4> QED BY <1>1, <4>1, <4>2, Zenon DEF Fields
    <3>3. CASE GetEvent
      <4>1. \/ \E status : call' = Answer(status)
            \/ \E ids : call' = [call EXCEPT !.pc = "deliveries", !.present = ids]
        BY <3>3, ZenonT(30) DEF GetEvent
      <4>2. ASSUME NEW status, call' = Answer(status) PROVE call'.req = call.req
        BY <3>1, <4>2, Zenon
      <4> QED BY <1>1, <4>1, <4>2, Zenon DEF Fields
    <3>4. CASE GetDeliveries
      <4>1. \E status, ids : call' = [Answer(status) EXCEPT !.found = ids]
        BY <3>4, ZenonT(30) DEF GetDeliveries
      <4>2. \A status : DOMAIN Answer(status) = Fields
        BY <1>1, Zenon DEF Answer
      <4> QED BY <3>1, <4>1, <4>2, Zenon DEF Fields
    <3>5. CASE Retry \/ Complete \/ Abandon \/ RetryExists
      <4>1. \/ \E status : call' = Answer(status)
            \/ call' = [call EXCEPT !.pc = "exists"]
        BY <3>5, ZenonT(30) DEF Retry, Complete, Abandon, RetryExists, Update
      <4>2. ASSUME NEW status, call' = Answer(status) PROVE call'.req = call.req
        BY <3>1, <4>2, Zenon
      <4> QED BY <1>1, <4>1, <4>2, Zenon DEF Fields
    <3> QED BY <1>5, <3>2, <3>3, <3>4, <3>5, Zenon
  <2> QED BY <2>2, <2>3, Zenon
<1>6. CASE Sample
  <2>1. call' = Idle \/ \E req : call' = [Idle EXCEPT !.pc = "stats", !.req = req]
    BY <1>6, Zenon DEF Sample, Tick, Publish, PublishOr
  <2>2. ASSUME NEW req, call' = [Idle EXCEPT !.pc = "stats", !.req = req]
        PROVE  call'.pc = "stats"
    BY <2>2 DEF Idle
  <2>3. Idle.pc = "idle"
    BY DEF Idle
  <2>4. call'.pc \in {"idle", "stats"}
    BY <2>1, <2>2, <2>3, Zenon
  <2> QED BY <2>4 DEF Finished
<1>7. CASE DatabaseError
  <2>1. call' = [call EXCEPT !.pc = "done", !.answer = 500]
    BY <1>7, SMT DEF DatabaseError, Answer
  <2> QED BY <1>1, <2>1 DEF Fields, Finished
<1> QED BY <1>3, <1>4, <1>5, <1>6, <1>7, Zenon DEF Next, Operate

\* Those of some rows that are a callback's.
Group(table, ids, name) == {id \in ids : table[id].callback = name}

(* The third statement of fetch_stats counts, for each callback, the rows    *)
(* the second counts for all of them.                                        *)
LEMMA GroupCounts ==
    ASSUME NEW table, IsFiniteSet(DOMAIN table), \A id \in DOMAIN table : table[id] \in Row,
           NEW name \in DOMAIN PerCallback(table)
    PROVE  LET per == PerCallback(table)[name]
               Rows(P(_)) == Group(table, {id \in DOMAIN table : P(table[id])}, name)
           IN  /\ per.pending_managed + per.pending_external = Cardinality(Rows(Pending))
               /\ per.external_pending = Cardinality(Rows(Awaiting))
               /\ per.dead_lettered = Cardinality(Rows(Dead))
<1> DEFINE own == Without(table, {id \in DOMAIN table : table[id].callback # name})
           Ids(P(_)) == {id \in DOMAIN own : P(own[id])}
           managed == Ids(LAMBDA row : Pending(row) /\ row.mode = "managed")
           external == Ids(LAMBDA row : Pending(row) /\ row.mode = "external")
           pending == Group(table, {id \in DOMAIN table : Pending(table[id])}, name)
<1>1. PerCallback(table)[name] =
        [pending_managed |-> Cardinality(managed), pending_external |-> Cardinality(external),
         external_pending |-> Cardinality(Ids(Awaiting)),
         dead_lettered |-> Cardinality(Ids(Dead))]
  BY Zenon DEF PerCallback, Count
<1>2. /\ DOMAIN own = {id \in DOMAIN table : table[id].callback = name}
      /\ \A id \in DOMAIN own : own[id] = table[id]
  BY Zenon DEF Without
<1>3. /\ Ids(Awaiting) = Group(table, {id \in DOMAIN table : Awaiting(table[id])}, name)
      /\ Ids(Dead) = Group(table, {id \in DOMAIN table : Dead(table[id])}, name)
  BY <1>2, Zenon DEF Group
<1>4. /\ managed = {id \in pending : table[id].mode = "managed"}
      /\ external = {id \in pending : table[id].mode = "external"}
  BY <1>2, Zenon DEF Group
<1>5. pending \subseteq DOMAIN table
  BY Zenon DEF Group
<1>6. \A id \in pending : table[id].mode \in {"managed", "external"}
  BY <1>5 DEF Row
<1> HIDE DEF managed, external, pending
<1>7. managed \cup external = pending /\ managed \cap external = {}
  BY <1>4, <1>6
<1>8. /\ IsFiniteSet(managed) /\ IsFiniteSet(external)
      /\ Cardinality(managed) \in Nat /\ Cardinality(external) \in Nat
  <2>1. managed \subseteq DOMAIN table /\ external \subseteq DOMAIN table
    BY <1>4, <1>5, Zenon
  <2> QED BY <2>1, FS_Subset, FS_CardinalityType, Zenon
<1>9. Cardinality(pending) = Cardinality(managed) + Cardinality(external)
  <2>1. Cardinality(managed \cup external) =
          Cardinality(managed) + Cardinality(external) - Cardinality(managed \cap external)
    BY <1>8, FS_Union, Zenon
  <2>2. Cardinality(managed \cap external) = 0
    BY <1>7, FS_EmptySet, Zenon
  <2>3. Cardinality(pending) = Cardinality(managed) + Cardinality(external) - 0
    BY <1>7, <2>1, <2>2, Zenon
  <2> QED BY <1>8, <2>3
<1> HIDE DEF Ids
<1> QED BY <1>1, <1>3, <1>9 DEF pending

(* For a table of any size, the totals are the sums over the callbacks, no   *)
(* row is counted twice, and the oldest pending event is there when a row is *)
(* pending.                                                                  *)
LEMMA TotalsAreSums ==
    ASSUME NEW table, IsFiniteSet(DOMAIN table), \A id \in DOMAIN table : table[id] \in Row
    PROVE  LET t == Totals(table)
               per == PerCallback(table)
           IN  /\ t.pending =
                     SumFunction([n \in DOMAIN per |-> per[n].pending_managed + per[n].pending_external])
               /\ t.external_pending = SumFunction([n \in DOMAIN per |-> per[n].external_pending])
               /\ t.dead_lettered = SumFunction([n \in DOMAIN per |-> per[n].dead_lettered])
               /\ t.pending + t.external_pending + t.dead_lettered =< Cardinality(DOMAIN table)
               /\ t.lag <=> t.pending > 0
<1> DEFINE ids == DOMAIN table
           t == Totals(table)
           per == PerCallback(table)
           key == [id \in ids |-> table[id].callback]
           pending == {id \in ids : Pending(table[id])}
           awaiting == {id \in ids : Awaiting(table[id])}
           dead == {id \in ids : Dead(table[id])}
<1>1. /\ t.pending = Cardinality(pending) /\ t.external_pending = Cardinality(awaiting)
      /\ t.dead_lettered = Cardinality(dead)
      /\ t.lag <=> \E id \in ids : Pending(table[id])
  BY DEF Totals, Count
<1>2. DOMAIN per = {table[id].callback : id \in ids}
  BY Zenon DEF PerCallback
<1>3. IsFiniteSet(DOMAIN per)
  <2>1. key \in Surjection(ids, DOMAIN per)
    BY <1>2, Zenon DEF Surjection
  <2> QED BY <2>1, FS_Surjection, Zenon
<1>4. ASSUME NEW some \in SUBSET ids, NEW f, DOMAIN f = DOMAIN per,
             \A n \in DOMAIN per : f[n] = Cardinality(Group(table, some, n))
      PROVE  Cardinality(some) = SumFunction(f)
  <2>1. IsFiniteSet(some) /\ IsFiniteSet(DOMAIN f)
    BY <1>3, <1>4, FS_Subset, Zenon
  <2>2. \A n : Group(table, some, n) = {id \in some : key[id] = n}
    BY Zenon DEF Group
  <2>3. {id \in some : key[id] \in DOMAIN f} = some
    BY <1>2, <1>4, Zenon
  <2> HIDE DEF key, per
  <2>4. \A n \in DOMAIN f : f[n] = Cardinality({id \in some : key[id] = n})
    BY <1>4, <2>2, Zenon
  <2>5. SumFunction(f) = Cardinality({id \in some : key[id] \in DOMAIN f})
    BY <2>1, <2>4, SumIsCount
  <2> QED BY <2>3, <2>5, Zenon
<1>5. /\ Cardinality(pending) =
            SumFunction([n \in DOMAIN per |-> per[n].pending_managed + per[n].pending_external])
      /\ Cardinality(awaiting) = SumFunction([n \in DOMAIN per |-> per[n].external_pending])
      /\ Cardinality(dead) = SumFunction([n \in DOMAIN per |-> per[n].dead_lettered])
  <2> DEFINE p == [n \in DOMAIN per |-> per[n].pending_managed + per[n].pending_external]
             a == [n \in DOMAIN per |-> per[n].external_pending]
             l == [n \in DOMAIN per |-> per[n].dead_lettered]
  <2>1. \A n \in DOMAIN per :
          /\ per[n].pending_managed + per[n].pending_external =
                Cardinality(Group(table, pending, n))
          /\ per[n].external_pending = Cardinality(Group(table, awaiting, n))
          /\ per[n].dead_lettered = Cardinality(Group(table, dead, n))
    BY GroupCounts, Zenon
  <2>2. pending \in SUBSET ids /\ awaiting \in SUBSET ids /\ dead \in SUBSET ids
    BY Zenon
  <2> HIDE DEF pending, awaiting, dead, per
  <2>3. /\ DOMAIN p = DOMAIN per
        /\ \A n \in DOMAIN per : p[n] = Cardinality(Group(table, pending, n))
    BY <2>1, Zenon
  <2>4. /\ DOMAIN a = DOMAIN per
        /\ \A n \in DOMAIN per : a[n] = Cardinality(Group(table, awaiting, n))
    BY <2>1, Zenon
  <2>5. /\ DOMAIN l = DOMAIN per
        /\ \A n \in DOMAIN per : l[n] = Cardinality(Group(table, dead, n))
    BY <2>1, Zenon
  <2> HIDE DEF p, a, l
  <2>6. /\ Cardinality(pending) = SumFunction(p) /\ Cardinality(awaiting) = SumFunction(a)
        /\ Cardinality(dead) = SumFunction(l)
    BY <1>4, <2>2, <2>3, <2>4, <2>5, Zenon
  <2> QED BY <2>6, Zenon DEF p, a, l
<1>6. /\ pending \cap awaiting = {} /\ (pending \cup awaiting) \cap dead = {}
      /\ (pending \cup awaiting) \cup dead \subseteq ids
  BY Zenon DEF Pending, Awaiting, Dead
<1>7. /\ IsFiniteSet(pending) /\ IsFiniteSet(awaiting) /\ IsFiniteSet(dead)
      /\ IsFiniteSet(pending \cup awaiting)
  BY <1>6, FS_Subset, FS_Union, Zenon
<1>8. pending = {} <=> ~\E id \in ids : Pending(table[id])
  BY Zenon
<1> HIDE DEF pending, awaiting, dead, ids, t, per
<1>9. /\ Cardinality(pending) \in Nat /\ Cardinality(awaiting) \in Nat /\ Cardinality(dead) \in Nat
      /\ Cardinality(pending \cup awaiting) \in Nat
      /\ Cardinality((pending \cup awaiting) \cup dead) \in Nat
      /\ Cardinality(ids) \in Nat /\ Cardinality({}) = 0
      /\ Cardinality(pending) = 0 <=> pending = {}
  BY <1>7, FS_Union, FS_CardinalityType, FS_EmptySet, Zenon DEF ids
<1>10. /\ Cardinality(pending \cup awaiting) = Cardinality(pending) + Cardinality(awaiting) - 0
       /\ Cardinality((pending \cup awaiting) \cup dead) =
            Cardinality(pending \cup awaiting) + Cardinality(dead) - 0
  <2>1. Cardinality(pending \cap awaiting) = 0 /\ Cardinality((pending \cup awaiting) \cap dead) = 0
    BY <1>6, <1>9, Zenon
  <2>2. /\ Cardinality(pending \cup awaiting) =
             Cardinality(pending) + Cardinality(awaiting) - Cardinality(pending \cap awaiting)
        /\ Cardinality((pending \cup awaiting) \cup dead) =
             Cardinality(pending \cup awaiting) + Cardinality(dead)
             - Cardinality((pending \cup awaiting) \cap dead)
    BY <1>7, FS_Union, Zenon
  <2> QED BY <2>1, <2>2, Zenon
<1>11. Cardinality((pending \cup awaiting) \cup dead) =< Cardinality(ids)
  BY <1>6, FS_Subset, Zenon DEF ids
<1>12. t.pending + t.external_pending + t.dead_lettered =< Cardinality(ids)
  BY <1>1, <1>9, <1>10, <1>11
<1>13. t.lag <=> t.pending > 0
  BY <1>1, <1>8, <1>9
<1> QED BY <1>1, <1>5, <1>12, <1>13, Zenon DEF ids, t, per

(* StatsAgree: GET /v1/stats adds up, for every table and every interleaving *)
(* that leaves the table alone between its statements.                       *)
THEOREM StatsSound == Spec => []StatsAgree
<1>1. Init => StatsInv
  <2>1. Init => call.pc = "idle"
    BY DEF Init, Idle
  <2> QED BY <2>1 DEF StatsInv, Finished
<1>2. AdminInv /\ AdminInv' /\ StatsInv /\ [Next]_vars => StatsInv'
  <2> SUFFICES ASSUME AdminInv, AdminInv', StatsInv, [Next]_vars
               PROVE  StatsInv'
    OBVIOUS
  <2>1. CASE Next
    BY <2>1, CountStats, OtherStats, Zenon
  <2>2. CASE UNCHANGED vars
    <3>1. call' = call /\ rows' = rows
      BY <2>2, Zenon DEF vars
    <3> QED BY <3>1, Zenon DEF StatsInv
  <2> QED BY <2>1, <2>2, Zenon
<1>3. AdminInv /\ StatsInv => StatsAgree
  <2> SUFFICES ASSUME AdminInv, StatsInv, Finished(call), call.req.path = "stats", ~call.moved
               PROVE  StatsAgree
    BY Zenon DEF StatsAgree, Finished
  <2> DEFINE s == call.stats
             t == Totals(rows)
  <2>1. HasTotals(s, rows) /\ s.callbacks = PerCallback(rows)
    BY Zenon DEF StatsInv
  <2>2. DOMAIN t = {"pending", "external_pending", "dead_lettered", "lag"}
    BY DEF Totals
  <2>3. /\ s.pending = t.pending /\ s.external_pending = t.external_pending
        /\ s.dead_lettered = t.dead_lettered /\ s.lag = t.lag
    BY <2>1, <2>2, Zenon DEF HasTotals
  <2>4. IsFiniteSet(DOMAIN rows) /\ \A id \in DOMAIN rows : rows[id] \in Row
    BY Zenon DEF AdminInv, Sound
  <2> HIDE DEF s, t
  <2> QED BY <2>1, <2>3, <2>4, TotalsAreSums, Zenon DEF StatsAgree, s, t
<1> QED BY <1>1, <1>2, <1>3, AdminInvariant, PTL DEF Spec
===============================================================================
