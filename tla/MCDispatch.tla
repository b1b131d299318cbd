------------------------------ MODULE MCDispatch ------------------------------
(* Small instances of Dispatch. *)
EXTENDS Dispatch

AllManaged == [d \in Delivery |-> "managed"]
AllExternal == [d \in Delivery |-> "external"]
NoPoison == [r \in Replica |-> {}]
PoisonTwo == [r \in Replica |-> {2}]
NoSkew == [r \in Replica |-> 0]
AheadOne == [r \in Replica |-> IF r = CHOOSE s \in Replica : TRUE THEN 1 ELSE 0]
Schedule == <<1, 2>>

\* What the client makes of the Retry-After headers it may find at time 3: none
\* it can parse, seconds, seconds past LastInstant, and dates to come and past.
W == INSTANCE Webhook WITH U32 <- 65536

ParsedHeaders ==
    {W!parse_retry_after(h, 3) :
        h \in [is : {"other", "seconds"}, value : {2, 20}] \cup [is : {"date"}, value : {1, 5}]}
===============================================================================
