----------------------------- MODULE MCScheduler -----------------------------
(* Small instances of Scheduler. *)
EXTENDS Scheduler

\* Every event has a rejected callback, and the second a valid one beside it.
SomeValid == [e \in Event |-> IF e = 2 THEN {"a"} ELSE {}]
SomeInvalid == [e \in Event |-> {"b"}]
==============================================================================
