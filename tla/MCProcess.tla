------------------------------ MODULE MCProcess ------------------------------
(* A small instance of Process. *)
EXTENDS Process

\* config/app_config.toml with every required setting but the URL.
File ==
    [max_connections |-> 20, poll_interval_secs |-> 5, batch_size |-> 50, max_attempts |-> 6,
     backoff_secs |-> <<30, 120>>, handler_timeout_secs |-> 30, lock_buffer_secs |-> 10,
     external_timeout_sweep_interval_secs |-> 60, max_completion_cycles |-> 20,
     payload_size_limit_bytes |-> 1048576, notify_channel |-> "outbox_events_new",
     log_format |-> "json", log_filter |-> "info", signing_keys |-> <<"MAIL_SECRET">>]

Variable(alphabet, bytes) ==
    [set |-> TRUE, utf8 |-> TRUE, alphabet |-> alphabet, bytes |-> bytes, material |-> alphabet]

Environment ==
    [MAIL_SECRET |-> Variable("standard", 32), SHORT |-> Variable("standard_no_pad", 31),
     GARBAGE |-> Variable("none", 48), UNSET |-> [Variable("none", 0) EXCEPT !.set = FALSE]]

\* A deployment with its secrets in DATABASE_URL and ADMIN_TOKEN, and what it is
\* meant to be.
Env ==
    [app_config |-> File, app_config_env |-> << >>, dotenv |-> << >>, APP |-> << >>,
     DATABASE_URL |-> "orders", ADMIN_TOKEN |-> "secret",
     sound |-> TRUE, url |-> "orders", token |-> "secret"]

Other == [database_url |-> "other", auth_token |-> "other"]

\* The secrets in each of the layers, above others and below blank variables; a
\* limit on a worker that is disabled, and a window that is too long.
Layered ==
    <<[Env EXCEPT !.app_config = Other @@ File, !.APP = [batch_limit |-> 0] @@ Other],
     [Env EXCEPT !.app_config_env = Other, !.APP = [database_url |-> "orders", auth_token |-> "secret"],
                 !.DATABASE_URL = "", !.ADMIN_TOKEN = " "],
     [Env EXCEPT !.app_config_env = Other, !.ADMIN_TOKEN = "",
                 !.dotenv = [database_url |-> "other", auth_token |-> "secret",
                             retention_enabled |-> TRUE, dead_letter_retention_days |-> 200000000]],
     [Env EXCEPT !.app_config_env = [retention_enabled |-> TRUE, otel_endpoint |-> "collector"]]>>

\* Settings that must keep the process from starting.
Faults ==
    <<[max_connections |-> 0], [max_connections |-> U32], [acquire_timeout_secs |-> 0],
     [poll_interval_secs |-> 0], [poll_interval_secs |-> -1], [batch_size |-> -1],
     [dispatch_concurrency |-> 0], [dispatch_concurrency |-> 21], [schedule_batch_size |-> 0],
     [max_attempts |-> 0], [backoff_secs |-> <<30, -1>>], [backoff_secs |-> << >>],
     [handler_timeout_secs |-> 301], [lock_buffer_secs |-> 0],
     [external_timeout_sweep_interval_secs |-> 9], [max_completion_cycles |-> 1001],
     [payload_size_limit_bytes |-> 1023], [notify_channel |-> " "],
     [max_callbacks_per_event |-> 1001], [log_format |-> "text"], [log_filter |-> ""],
     [admin_bind |-> "localhost"], [metrics_bind |-> "9091"], [user_agent |-> "\n"],
     [connect_timeout_secs |-> 0], [stats_sample_interval_secs |-> 9], [max_atempts |-> 6],
     [retention_enabled |-> TRUE, cleanup_interval_secs |-> 59],
     [retention_enabled |-> TRUE, batch_limit |-> 10001],
     [retention_enabled |-> TRUE, processed_retention_days |-> 0],
     [signing_keys |-> 2 :> "SHORT"], [signing_keys |-> 2 :> "MAIL_SECRET"],
     [signing_keys |-> 3 :> "GARBAGE"], [signing_keys |-> 2 :> "UNSET"]>>

Unsound ==
    [i \in DOMAIN Faults |-> [Env EXCEPT !.APP = Faults[i], !.sound = FALSE]]
    \o <<[Env EXCEPT !.app_config = NULL, !.app_config_env = File, !.sound = FALSE],
         [Env EXCEPT !.DATABASE_URL = " ", !.sound = FALSE],
         [Env EXCEPT !.ADMIN_TOKEN = "", !.sound = FALSE]>>

Environments == <<Env>> \o Layered \o Unsound

With(binary, command, skip, env) ==
    [binary |-> binary, command |-> command, skip_migrations |-> skip, env |-> env]

\* a: every environment, the first version; b: the commands, both versions.
Deployments ==
    [p \in Proc |->
        IF p = "a"
        THEN {With(1, "serve", FALSE, e) : e \in DOMAIN Environments}
                \cup {With(1, "serve", TRUE, 1), With(1, "dump", FALSE, 1)}
        ELSE {With(2, "serve", skip, 1) : skip \in BOOLEAN}
                \cup {With(2, "migrate", TRUE, 1), With(2, "rescan", FALSE, 1)}]
==============================================================================
