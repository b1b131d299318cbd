------------------------------- MODULE Lifecycle -------------------------------
(***************************************************************************)
(* What the dispatcher promises about a delivery, whatever the number of   *)
(* replicas, crashes and lost answers: the states an operator or a         *)
(* receiver can observe, and the only ways from one to the next.  Leases,  *)
(* attempt counters, clocks and batches are not part of the promise;       *)
(* Dispatch is shown to implement it.                                      *)
(***************************************************************************)
EXTENDS Naturals

CONSTANTS
    Delivery,   \* ids of deliveries
    Mode,       \* Mode[d]: "managed" or "external"
    MaxCycles   \* completion cycles an external delivery is given

VARIABLE
    life        \* life[d]: what can be observed of delivery d

Status == {"pending",    \* to be sent to its receiver
           "accepted",   \* external: sent, the receiver has to report completion
           "done",
           "dead"}

Life == [status   : Status,
         sent     : BOOLEAN,  \* a request went out since the last operator retry
         recorded : Nat]      \* successes recorded since then

TypeOK == life \in [Delivery -> Life]

Init == life = [d \in Delivery |-> [status |-> "pending", sent |-> FALSE, recorded |-> 0]]

-------------------------------------------------------------------------------
\* How often a success may be recorded: one completion cycle each.
Limit(d) == IF Mode[d] = "managed" THEN 1 ELSE MaxCycles

Become(d, status, sent, recorded) ==
    life'[d] = [status |-> status, sent |-> sent, recorded |-> recorded]

\* A request goes out; never for a dead letter.
Send(d) ==
    /\ life[d].status # "dead"
    /\ Become(d, life[d].status, TRUE, life[d].recorded)

\* The receiver's success is recorded.  The delivery may have been completed
\* while the request was out.
Deliver(d) ==
    /\ life[d].status \in {"pending", "done"}
    /\ life[d].sent
    /\ life[d].recorded < Limit(d)
    /\ Become(d, IF life[d].status = "done" \/ Mode[d] = "managed"
                 THEN "done" ELSE "accepted",
              TRUE, life[d].recorded + 1)

\* Nobody completed an external delivery: it is sent again.
Redeliver(d) ==
    /\ life[d].status = "accepted"
    /\ Become(d, "pending", life[d].sent, life[d].recorded)

\* Attempts or completion cycles are exhausted, or the target is rejected.
GiveUp(d) ==
    /\ life[d].status \in {"pending", "accepted"}
    /\ Become(d, "dead", life[d].sent, life[d].recorded)

\* The receiver or an operator completes it.
Complete(d) == Become(d, "done", life[d].sent, life[d].recorded)

\* An operator starts it afresh.
Retry(d) == Become(d, "pending", FALSE, 0)

Step(d) ==
    \/ Send(d)
    \/ Deliver(d)
    \/ Redeliver(d)
    \/ GiveUp(d)
    \/ Complete(d)
    \/ Retry(d)

\* One sweep moves several deliveries at once.
Next == \A d \in Delivery : Step(d) \/ life'[d] = life[d]

Spec == Init /\ [][Next]_life
===============================================================================
