------------------------------- MODULE MCAdmin -------------------------------
(* A small instance of Admin. *)
EXTENDS Admin, TLC

NewRow(event, callback, mode) ==
    [event |-> event, callback |-> callback, mode |-> mode, dispatched |-> "no",
     processed |-> FALSE, dead |-> FALSE, locked |-> FALSE]

Managed(event) == NewRow(event, "mail", "managed")
External(event) == NewRow(event, "audit", "external")

\* Two events with two deliveries each: new ones, dead letters, hung ones, and
\* one of each kind, a leased and a completed one among them.
SmallTables ==
    {<<Managed("e"), External("e"), Managed("f"), External("f")>>,
     <<[Managed("e") EXCEPT !.dead = TRUE], [External("e") EXCEPT !.dead = TRUE],
       [Managed("f") EXCEPT !.dead = TRUE], [External("f") EXCEPT !.dead = TRUE]>>,
     <<[External("e") EXCEPT !.dispatched = "old"], [External("f") EXCEPT !.dispatched = "recent"],
       [External("g") EXCEPT !.dispatched = "old"]>>,
     <<[Managed("e") EXCEPT !.processed = TRUE],
       [External("e") EXCEPT !.dead = TRUE, !.processed = TRUE],
       [Managed("f") EXCEPT !.locked = TRUE], [External("f") EXCEPT !.dispatched = "recent"]>>}

\* The first delivery of an event published later and another one of an old event.
Later == (5 :> External("h")) @@ (6 :> Managed("e"))

Right == [scheme |-> "bearer", token |-> "secret"]

ListRequest(path, limit, name, older) ==
    [path |-> path, auth |-> Right, limit |-> limit, callback_name |-> name, older_than |-> older]

SomeRequests ==
    {ListRequest("dead-letters", n, name, NULL) : n \in {-1, 2, 201}, name \in {NULL, "audit"}}
    \cup {ListRequest("external-pending", n, NULL, o) : n \in {0, 1}, o \in {NULL, "old", "negative"}}
    \cup {[path |-> p, auth |-> Right, id |-> id] :
            p \in {"retry", "complete", "abandon"}, id \in {3, 5}}
    \cup {[path |-> "events", auth |-> Right, id |-> e] : e \in {"e", "h"}}
    \cup {[path |-> "stats", auth |-> a] :
            a \in {Right, NULL, [Right EXCEPT !.scheme = "basic"], [Right EXCEPT !.token = "other"]}}
==============================================================================
