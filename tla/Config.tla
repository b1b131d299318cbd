-------------------------------- MODULE Config --------------------------------
(***************************************************************************)
(* The service's configuration (crates/core/src/config.rs): the layers     *)
(* AppConfig::load merges, the rules AppConfig::validate applies, and the  *)
(* DispatchConfig the scheduler and the dispatcher get.                    *)
(*                                                                         *)
(* A source is a record with the settings it gives, a setting being named  *)
(* by its last path component.  A text is what the checks tell of it.      *)
(***************************************************************************)
EXTENDS Callbacks

CONSTANTS
    NULL, \* a source that does not exist, a load that failed
    U32   \* 2^32, scaled to what TLC's integers hold

\* The width is beyond every limit on a u32 setting.
ASSUME WidthAssumption == U32 \in Nat /\ U32 > MAX_COMPLETION_CYCLES_LIMIT

MIN_PAYLOAD_SIZE_BYTES == 1024
MAX_PAYLOAD_SIZE_BYTES == 100 * 1024 * 1024
MIN_SWEEP_INTERVAL_SECS == 10
MIN_RETENTION_CLEANUP_SECS == 60
MAX_RETENTION_BATCH == 10000
MIN_STATS_SAMPLE_INTERVAL_SECS == 10

\* The fields without a serde default, by their Rust type.
RequiredU32 == {"max_connections", "max_attempts", "max_completion_cycles"}
RequiredU64 ==
    {"poll_interval_secs", "handler_timeout_secs", "lock_buffer_secs",
     "external_timeout_sweep_interval_secs"}
Required ==
    RequiredU32 \cup RequiredU64
        \cup {"database_url", "batch_size", "backoff_secs", "payload_size_limit_bytes",
              "notify_channel", "log_format", "log_filter"}

\* The settings of both, those of above where both give one.
Over(above, below) ==
    [f \in DOMAIN above \cup DOMAIN below |-> IF f \in DOMAIN above THEN above[f] ELSE below[f]]

DefaultU32 == [schedule_batch_size |-> 500, max_callbacks_per_event |-> 32]

DefaultU64 ==
    [acquire_timeout_secs |-> 10, dispatch_concurrency |-> 16, connect_timeout_secs |-> 5,
     processed_retention_days |-> 7, dead_letter_retention_days |-> 30,
     cleanup_interval_secs |-> 3600, batch_limit |-> 1000, stats_sample_interval_secs |-> 30]

DefaultFlags ==
    [allow_insecure_urls |-> FALSE, allow_unsigned_callbacks |-> FALSE,
     allow_private_ip_targets |-> FALSE, allow_insecure_tls |-> FALSE,
     retention_enabled |-> FALSE]

DefaultTexts ==
    [admin_bind |-> "0.0.0.0:9090", auth_token |-> "", user_agent |-> "outbox-dispatcher/1.0",
     metrics_bind |-> "0.0.0.0:9091", otel_endpoint |-> ""]

Defaults ==
    Over(Over(DefaultU32, DefaultU64),
         Over(Over(DefaultFlags, DefaultTexts), [signing_keys |-> << >>]))

-----------------------------------------------------------------------------
\* The texts the checks accept: a SocketAddr, a header value of visible ASCII.
SocketAddr == {"0.0.0.0:9090", "0.0.0.0:9091"}
HeaderText == {"outbox-dispatcher/1.0"}

\* trim().is_empty()
Blank(text) == text \in {"", " "}

\* A later source over an earlier one; tables are merged, so a source adds
\* signing keys to those below it.
Overlay(below, above) ==
    IF "signing_keys" \in DOMAIN above \cap DOMAIN below
    THEN [Over(above, below) EXCEPT !.signing_keys = Over(above.signing_keys, below.signing_keys)]
    ELSE Over(above, below)

\* set_override_option that takes a blank variable at its word.
Alias_unfiltered(setting, variable) == [f \in {setting} |-> variable]

\* set_override_option: an environment variable that is unset or blank is no
\* source.
Alias(setting, variable) ==
    IF Blank(variable) THEN << >> ELSE [f \in {setting} |-> variable]

\* The sources of a deployment, lowest first.  A file that is not required and
\* does not exist gives nothing.
Sources(env) ==
    <<env.app_config, env.app_config_env, env.dotenv, env.APP,
      Alias("database_url", env.DATABASE_URL), Alias("auth_token", env.ADMIN_TOKEN)>>

\* try_deserialize: no field is missing or unknown, and every integer fits.
Deserializes(s) ==
    /\ Required \subseteq DOMAIN s
    /\ DOMAIN s \subseteq Required \cup DOMAIN Defaults
    /\ \A f \in (RequiredU32 \cup DOMAIN DefaultU32) \cap DOMAIN s : s[f] \in 0..(U32 - 1)
    /\ \A f \in (RequiredU64 \cup DOMAIN DefaultU64) \cap DOMAIN s : s[f] \in Nat
    /\ {s.batch_size, s.payload_size_limit_bytes} \subseteq Int
    /\ s.backoff_secs \in Seq(Nat)
    /\ s.log_format \in {"json", "pretty"}

\* The last source goes over what those below it give.
Merged(sources) ==
    MapThenFoldSet(LAMBDA above, below : Overlay(below, above), << >>,
                   LAMBDA i : sources[i], Max, DOMAIN sources)

\* AppConfig::load: the settings, or NULL.
load(env) ==
    IF env.app_config = NULL
    THEN NULL
    ELSE LET s == Merged(Sources(env)) IN
         IF Deserializes(s) THEN Over(s, Defaults) ELSE NULL

-----------------------------------------------------------------------------
\* A rule is <<setting, it is broken>>.  validate reports every broken one.
Broken(rules) == {r[1] : r \in {q \in rules : q[2]}}

DatabaseErrors(s) ==
    Broken({<<"database_url", Blank(s.database_url)>>,
            <<"max_connections", s.max_connections = 0>>,
            <<"acquire_timeout_secs", s.acquire_timeout_secs = 0>>})

\* DeliveryErrors without the upper limit on handler_timeout_secs.
DeliveryErrors_anytimeout(s) ==
    Broken({<<"max_attempts", s.max_attempts \notin 1..MAX_PER_CALLBACK_ATTEMPTS>>,
            <<"handler_timeout_secs", s.handler_timeout_secs = 0>>,
            <<"lock_buffer_secs", s.lock_buffer_secs = 0>>,
            <<"max_completion_cycles",
              s.max_completion_cycles \notin 1..MAX_COMPLETION_CYCLES_LIMIT>>,
            <<"backoff_secs",
              \/ s.backoff_secs = << >>
              \/ \E d \in Range(s.backoff_secs) : d = 0 \/ d > MAX_BACKOFF_ELEMENT_SECS>>})

DeliveryErrors(s) ==
    Broken({<<"max_attempts", s.max_attempts \notin 1..MAX_PER_CALLBACK_ATTEMPTS>>,
            <<"handler_timeout_secs", s.handler_timeout_secs \notin 1..MAX_HANDLER_TIMEOUT_SECS>>,
            <<"lock_buffer_secs", s.lock_buffer_secs = 0>>,
            <<"max_completion_cycles",
              s.max_completion_cycles \notin 1..MAX_COMPLETION_CYCLES_LIMIT>>,
            <<"backoff_secs",
              \/ s.backoff_secs = << >>
              \/ \E d \in Range(s.backoff_secs) : d = 0 \/ d > MAX_BACKOFF_ELEMENT_SECS>>})

\* dispatch_concurrency is a usize and is compared `as u32`.
LoopErrors(s) ==
    Broken({<<"poll_interval_secs", s.poll_interval_secs = 0>>,
            <<"batch_size", s.batch_size =< 0>>,
            <<"schedule_batch_size", s.schedule_batch_size = 0>>,
            <<"external_timeout_sweep_interval_secs",
              s.external_timeout_sweep_interval_secs < MIN_SWEEP_INTERVAL_SECS>>,
            <<"payload_size_limit_bytes",
              \/ s.payload_size_limit_bytes < MIN_PAYLOAD_SIZE_BYTES
              \/ s.payload_size_limit_bytes > MAX_PAYLOAD_SIZE_BYTES>>,
            <<"notify_channel", Blank(s.notify_channel)>>,
            <<"max_callbacks_per_event",
              s.max_callbacks_per_event \notin 1..MAX_CALLBACKS_PER_EVENT_LIMIT>>,
            <<"dispatch_concurrency",
              \/ s.dispatch_concurrency = 0
              \/ s.max_connections > 0 /\ s.dispatch_concurrency % U32 > s.max_connections>>})

\* ServiceErrors without a look at the addresses.
ServiceErrors_anybind(s) ==
    Broken({<<"log_filter", Blank(s.log_filter)>>,
            <<"auth_token", Blank(s.auth_token)>>,
            <<"connect_timeout_secs", s.connect_timeout_secs = 0>>,
            <<"user_agent", s.user_agent \notin HeaderText>>,
            <<"stats_sample_interval_secs",
              s.stats_sample_interval_secs < MIN_STATS_SAMPLE_INTERVAL_SECS>>})

ServiceErrors(s) ==
    Broken({<<"log_filter", Blank(s.log_filter)>>,
            <<"auth_token", Blank(s.auth_token)>>,
            <<"admin_bind", s.admin_bind \notin SocketAddr>>,
            <<"connect_timeout_secs", s.connect_timeout_secs = 0>>,
            <<"user_agent", s.user_agent \notin HeaderText>>,
            <<"metrics_bind", s.metrics_bind \notin SocketAddr>>,
            <<"stats_sample_interval_secs",
              s.stats_sample_interval_secs < MIN_STATS_SAMPLE_INTERVAL_SECS>>})

\* Looked at only when the worker is enabled.
RetentionErrors(s) ==
    IF ~s.retention_enabled
    THEN {}
    ELSE Broken({<<"processed_retention_days", s.processed_retention_days = 0>>,
                 <<"dead_letter_retention_days", s.dead_letter_retention_days = 0>>,
                 <<"cleanup_interval_secs", s.cleanup_interval_secs < MIN_RETENTION_CLEANUP_SECS>>,
                 <<"batch_limit", s.batch_limit \notin 1..MAX_RETENTION_BATCH>>})

\* chrono: how many days before now the first DateTime lies, about.
DATETIME_REACH_DAYS == 96000000

\* run_retention_cycle can subtract its windows from now; otherwise it panics.
WindowsInReach(s) ==
    {s.processed_retention_days, s.dead_letter_retention_days} \subseteq 0..DATETIME_REACH_DAYS

\* AppConfig::validate: the settings with an error.
validate(s) ==
    DatabaseErrors(s) \cup LoopErrors(s) \cup DeliveryErrors(s) \cup ServiceErrors(s)
        \cup RetentionErrors(s)

\* impl From<DispatchSettings> for DispatchConfig
DispatchConfig(s) ==
    [poll_interval |-> s.poll_interval_secs,
     batch_size |-> s.batch_size,
     dispatch_concurrency |-> s.dispatch_concurrency,
     schedule_batch_size |-> s.schedule_batch_size,
     max_attempts |-> s.max_attempts,
     backoff |-> s.backoff_secs,
     handler_timeout |-> s.handler_timeout_secs,
     lock_buffer |-> s.lock_buffer_secs,
     external_timeout_sweep_interval |-> s.external_timeout_sweep_interval_secs,
     max_completion_cycles |-> s.max_completion_cycles,
     payload_size_limit_bytes |-> s.payload_size_limit_bytes,
     notify_channel |-> s.notify_channel,
     allow_insecure_urls |-> s.allow_insecure_urls,
     allow_unsigned_callbacks |-> s.allow_unsigned_callbacks,
     allow_private_ip_targets |-> s.allow_private_ip_targets,
     max_callbacks_per_event |-> s.max_callbacks_per_event]
==============================================================================
