---------------------------- MODULE WakeLoopProofs ----------------------------
(***************************************************************************)
(* Proofs about WakeLoop: the bounds of its counters, and that /ready      *)
(* follows the loop for every poll_interval, cycle length and number of    *)
(* faults.                                                                 *)
(***************************************************************************)
EXTENDS WakeLoop, TLAPS

Running == pc \notin {"exited", "stopped"}

\* While no scheduling error intervenes, the time since the last completed cycle
\* is what the sleep took, at most poll_interval, and what the cycle has taken.
Punctual ==
    since_cycle >= 0 /\ clean =>
        /\ since_cycle =< PollInterval + busy
        /\ pc = "wait" => since_cycle + until_poll =< PollInterval

\* The cycle under way began after the last one was completed; since_cycle stops
\* counting past the deadline of /ready.
BusySinceCycle ==
    since_cycle >= 0 => busy =< since_cycle \/ since_cycle = 2 * PollInterval + 1

\* The inductive invariant.
WakeInv ==
    /\ TypeOK
    /\ notes =< published
    /\ ~Running => ~listener_status
    /\ pc \in {"exited", "wait"} => busy = 0
    /\ pc = "exited" => since_cycle = -1
    /\ pc = "backoff" => ~clean
    /\ Punctual
    /\ BusySinceCycle

\* The loop starts with its counters at zero and no completed cycle.
LEMMA InitWake == Init => WakeInv
<1> SUFFICES ASSUME Init
             PROVE  WakeInv
    OBVIOUS
<1>1. /\ due \in BOOLEAN /\ hung \in BOOLEAN /\ connected \in BOOLEAN
      /\ listener_status \in BOOLEAN /\ ~listener_status
      /\ clean \in BOOLEAN /\ sweep_due \in BOOLEAN /\ shutdown \in BOOLEAN
    BY Zenon DEF Init
<1>. QED
    BY <1>1, WakeAssumption DEF Init, WakeInv, TypeOK, Running, Punctual, BusySinceCycle

\* What happens around the loop: publishers, time, the listener's connection,
\* the signal to shut down.
LEMMA AroundKeeps ==
    ASSUME WakeInv,
           \/ Publish \/ BecomesDue \/ BecomesHung \/ Disconnect \/ Reconnect \/ SweepTimer
           \/ Cancel
    PROVE  WakeInv'
<1> USE WakeAssumption DEF WakeInv, TypeOK, Running, Punctual, BusySinceCycle, timers, cycle, work, Fault
<1>1. CASE Publish
    BY <1>1 DEF Publish
<1>2. CASE BecomesDue
    BY <1>2 DEF BecomesDue
<1>3. CASE BecomesHung
    BY <1>3 DEF BecomesHung
<1>4. CASE Disconnect
    <2>1. connected' \in BOOLEAN
        BY <1>4, Zenon DEF Disconnect
    <2>. QED
        BY <2>1, <1>4 DEF Disconnect
<1>5. CASE Reconnect
    BY <1>5 DEF Reconnect
<1>6. CASE SweepTimer
    BY <1>6 DEF SweepTimer
<1>7. CASE Cancel
    BY <1>7 DEF Cancel
<1>. QED
    BY <1>1, <1>2, <1>3, <1>4, <1>5, <1>6, <1>7

\* Time passes: in the sleep the poll timer runs down as since_cycle goes up, in
\* a cycle busy goes up with it.
LEMMA TickKeeps ==
    ASSUME WakeInv, Tick
    PROVE  WakeInv'
<1> USE WakeAssumption DEF WakeInv, TypeOK, Running, Punctual, BusySinceCycle, Tick, Awake, work
<1>1. CASE pc = "wait"
    BY <1>1
<1>2. CASE pc # "wait"
    BY <1>2, SMTT(20)
<1>. QED
    BY <1>1, <1>2

\* The steps of the loop itself.
LEMMA LoopKeeps ==
    ASSUME WakeInv, Start \/ Loop
    PROVE  WakeInv'
<1> USE WakeAssumption
    DEF WakeInv, TypeOK, Running, Punctual, BusySinceCycle, timers, cycle, work, Fault, Go, Completed
<1>1. CASE Start
    <2>1. connected' \in BOOLEAN /\ listener_status' \in BOOLEAN /\ sweep_due' \in BOOLEAN
        BY <1>1, Zenon DEF Start
    <2>. QED
        BY <2>1, <1>1 DEF Start
<1>2. CASE WakeShutdown
    BY <1>2, Zenon DEF WakeShutdown
<1>3. CASE WakeNotify
    BY <1>3 DEF WakeNotify
<1>4. CASE WakeLost
    BY <1>4, Zenon DEF WakeLost
<1>5. CASE WakePoll
    BY <1>5 DEF WakePoll
<1>6. CASE DrainNote
    BY <1>6 DEF DrainNote
<1>14. CASE DrainEnd
    BY <1>14, Zenon DEF DrainEnd
<1>7. CASE ScheduleOk
    BY <1>7 DEF ScheduleOk
<1>8. CASE ScheduleError
    <2>1. clean' \in BOOLEAN /\ ~clean'
        BY <1>8, Zenon DEF ScheduleError
    <2>. QED
        BY <2>1, <1>8 DEF ScheduleError
<1>9. CASE Backoff
    BY <1>9 DEF Backoff
<1>10. CASE Dispatch
    BY <1>10, Zenon DEF Dispatch
<1>11. CASE DispatchError
    BY <1>11 DEF DispatchError
<1>12. CASE EndCycle
    <2>1. clean' \in BOOLEAN /\ sweep_due' \in BOOLEAN /\ hung' \in BOOLEAN
        BY <1>12, Zenon DEF EndCycle, Completed
    <2>. QED
        BY <2>1, <1>12 DEF EndCycle
<1>13. CASE SweepError
    <2>1. clean' \in BOOLEAN /\ sweep_due' \in BOOLEAN
        BY <1>13, Zenon DEF SweepError, Completed
    <2>. QED
        BY <2>1, <1>13 DEF SweepError
<1>. QED
    BY <1>1, <1>2, <1>3, <1>4, <1>5, <1>6, <1>7, <1>8, <1>9, <1>10, <1>11, <1>12, <1>13, <1>14
    DEF Loop

\* A stuttering step.
LEMMA WakeStutters ==
    ASSUME WakeInv, UNCHANGED vars
    PROVE  WakeInv'
BY DEF WakeInv, TypeOK, Running, Punctual, BusySinceCycle, vars, timers, work

\* WakeInv holds in every reachable state.
LEMMA WakeInductive == Spec => []WakeInv
<1>1. ASSUME WakeInv, [Next]_vars
      PROVE  WakeInv'
    BY <1>1, AroundKeeps, TickKeeps, LoopKeeps, WakeStutters DEF Next
<1>. QED
    BY <1>1, InitWake, PTL DEF Spec

(* Every counter of the loop stays within its bound: schedule_new_deliveries *)
(* never takes more events than were published, and no timer goes below zero. *)
THEOREM WakeTypeCorrect == Spec => []TypeOK
<1>1. WakeInv => TypeOK
    BY DEF WakeInv
<1>. QED
    BY <1>1, WakeInductive, PTL

(* GET /ready tells a loop that runs on time from one that does not: for     *)
(* every poll_interval, a loop whose cycles take no longer than it and meet  *)
(* no scheduling error is never reported late, and one that has stopped or   *)
(* is stuck for more than twice the interval is not reported ready.          *)
THEOREM ReadinessSound == Spec => []ReadyFollowsLoop
<1>1. WakeInv => ReadyFollowsLoop
    BY WakeAssumption
    DEF WakeInv, TypeOK, Running, Punctual, BusySinceCycle, ReadyFollowsLoop, ready, last_cycle_ok
<1>. QED
    BY <1>1, WakeInductive, PTL
=============================================================================
