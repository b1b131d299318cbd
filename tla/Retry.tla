-------------------------------- MODULE Retry --------------------------------
(***************************************************************************)
(* The delay before the next attempt of a failed delivery                  *)
(* (crates/core/src/retry.rs).  Durations are whole ticks; the random      *)
(* jitter is the set of delays it can produce.                             *)
(***************************************************************************)
EXTENDS Integers, Sequences

CONSTANTS
    NULL,       \* Option::None and SQL NULL
    LastInstant \* DateTime::<Utc>::MAX_UTC

ASSUME NullAssumption == NULL \notin Int
ASSUME InstantAssumption == LastInstant \in Int

\* unwrap_or(Duration::from_secs(60)): used when the schedule is empty.
DefaultBackoff == 60

\* attempt.max(1) as usize - 1, as a 1-based index.
ScheduleIndex(attempt) == IF attempt < 1 THEN 1 ELSE attempt

\* backoff_schedule.get(index), else its last entry, else the default.
BaseDelay(attempt, schedule) ==
    IF schedule = << >>
    THEN DefaultBackoff
    ELSE IF ScheduleIndex(attempt) =< Len(schedule)
         THEN schedule[ScheduleIndex(attempt)]
         ELSE schedule[Len(schedule)]

\* retry_after.map(|after| after.max(base)).unwrap_or(base)
Delay(attempt, retry_after, schedule) ==
    LET base == BaseDelay(attempt, schedule) IN
    IF retry_after # NULL /\ retry_after > base THEN retry_after ELSE base

\* delay * (1 + jitter) with jitter in [-1/4, 1/4).
Jittered(delay) ==
    {t \in 0..2 * delay : 3 * delay =< 4 * t /\ (4 * t < 5 * delay \/ delay = 0)}

\* The values compute_next_available_at can return when the clock reads clock; NULL
\* stands for its panic: mul_f64 and the addition to a DateTime are checked, and
\* Retry-After may be any number of seconds.
compute_next_available_at(clock, attempt, retry_after, schedule) ==
    {IF clock + t =< LastInstant THEN clock + t ELSE NULL :
        t \in Jittered(Delay(attempt, retry_after, schedule))}
==============================================================================
