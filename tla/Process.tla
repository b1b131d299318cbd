------------------------------- MODULE Process -------------------------------
(***************************************************************************)
(* A process from its command line to its exit (crates/bin/src/main.rs):   *)
(* loading the configuration, migrating and checking the schema, running   *)
(* the scheduler and its background workers, and stopping them.  Several   *)
(* processes, of different versions of the binary, share the database.     *)
(*                                                                         *)
(* The loop inside the scheduler is module WakeLoop's; here it may return  *)
(* once its token is cancelled.  A process that exits with 0 leaves its    *)
(* workers and its tracer as they were, for the properties to look at.     *)
(***************************************************************************)
EXTENDS Config, KeyRing, FiniteSets

CONSTANTS
    Proc,     \* processes
    Deployed, \* the environments, a sequence: files, variables, and what was meant
    Launches, \* Launches[p]: the command lines, environments and binaries of p
    EnvVars,  \* the environment variables with the signing secrets
    MaxStarts \* bound: processes started

ASSUME ProcessAssumption ==
    /\ \A l \in UNION {Launches[p] : p \in Proc} :
          /\ l.binary \in Nat \ {0}
          /\ l.env \in DOMAIN Deployed
          /\ l.command \in {"serve", "migrate", "rescan", "dump"}
          /\ l.skip_migrations \in BOOLEAN
    /\ \A e \in DOMAIN Deployed :
          \A layer \in {Deployed[e].app_config_env, Deployed[e].dotenv, Deployed[e].APP}
                          \cup ({Deployed[e].app_config} \ {NULL}) :
             "signing_keys" \in DOMAIN layer =>  \* a table
                layer.signing_keys =
                   [id \in DOMAIN layer.signing_keys |-> layer.signing_keys[id]]
    /\ MaxStarts \in Nat
    /\ NULL \notin {0, 1}  \* no exit code

VARIABLES
    schema,  \* highest applied migration, 0 without the table _sqlx_migrations
    lock,    \* the process that holds the migration lock, if any
    starts,  \* processes started so far
    pc,      \* pc[p]: how far run() has come
    launch,  \* launch[p]: what p was started with
    seen,    \* seen[p]: the schema when p was started
    workers, \* workers[p]: the tasks of its JoinSet that have not ended
    token,   \* token[p]: the shutdown token is cancelled
    tracer,  \* tracer[p]: no provider, an open one, one flushed or failed to flush
    exit     \* exit[p]: the exit code, NULL while p runs

db == <<schema, lock>>
tasks == <<workers, token>>
vars == <<db, starts, pc, launch, seen, tasks, tracer, exit>>

Startup == {"tracing", "connect", "migrate", "validate", "rescan", "install", "scheduler"}

TypeOK ==
    /\ schema \in Nat
    /\ lock \subseteq Proc /\ Cardinality(lock) =< 1
    /\ pc \in [Proc -> Startup \cup {"down", "serve", "drain"}]
    /\ workers \in [Proc -> SUBSET {"handler", "signal", "bind", "admin", "retention", "sampler"}]
    /\ token \in [Proc -> BOOLEAN]
    /\ tracer \in [Proc -> {"none", "open", "flushed", "failed"}]
    /\ exit \in [Proc -> {NULL, 0, 1}]
    /\ \A p \in Proc : pc[p] = "migrate" \/ p \notin lock

Init ==
    /\ schema = 0
    /\ lock = {}
    /\ starts = 0
    /\ pc = [p \in Proc |-> "down"]
    /\ launch = [p \in Proc |-> NULL]
    /\ seen = [p \in Proc |-> 0]
    /\ workers = [p \in Proc |-> {}]
    /\ token = [p \in Proc |-> FALSE]
    /\ tracer = [p \in Proc |-> "none"]
    /\ exit = [p \in Proc |-> NULL]

-----------------------------------------------------------------------------
Goto(p, label) == pc' = [pc EXCEPT ![p] = label]

Exit(p, code) ==
    /\ Goto(p, "down")
    /\ exit' = [exit EXCEPT ![p] = code]
    /\ lock' = lock \ {p}

Served(p) == launch[p].command = "serve"

\* The configuration an environment gives, NULL when a start-up check fails.
AppConfig == [e \in DOMAIN Deployed |->
    LET s == load(Deployed[e]) IN
    IF s = NULL THEN NULL
    ELSE IF validate(s) = {} /\ KeyErrors(s.signing_keys, EnvVars) = {} THEN s ELSE NULL]

config(p) == AppConfig[launch[p].env]

\* Cli::parse, AppConfig::load, validate, KeyRing::load.
Launch(p, l) ==
    /\ pc[p] = "down"
    /\ starts < MaxStarts
    /\ starts' = starts + 1
    /\ launch' = [launch EXCEPT ![p] = l]
    /\ seen' = [seen EXCEPT ![p] = schema]
    /\ workers' = [workers EXCEPT ![p] = {}]
    /\ token' = [token EXCEPT ![p] = FALSE]
    /\ tracer' = [tracer EXCEPT ![p] = "none"]
    /\ IF AppConfig[l.env] = NULL
       THEN Exit(p, 1)
       ELSE /\ Goto(p, "tracing")
            /\ exit' = [exit EXCEPT ![p] = NULL]
            /\ UNCHANGED lock
    /\ UNCHANGED schema

\* init_tracing: a provider only when an OTLP endpoint is set.  The dump command
\* needs no database.
InitTracing(p) ==
    /\ pc[p] = "tracing"
    /\ tracer' = [tracer EXCEPT ![p] = IF config(p).otel_endpoint = "" THEN "none" ELSE "open"]
    /\ IF launch[p].command = "dump"
       THEN Exit(p, 0)
       ELSE Goto(p, "connect") /\ UNCHANGED <<exit, lock>>
    /\ UNCHANGED <<schema, starts, launch, seen, tasks>>

\* connect_pool; the migrate command ignores --skip-migrations.
Connect(p) ==
    /\ pc[p] = "connect"
    /\ Goto(p, IF launch[p].skip_migrations /\ launch[p].command # "migrate"
               THEN "validate" ELSE "migrate")
    /\ UNCHANGED <<db, starts, launch, seen, tasks, tracer, exit>>

\* A migrator that does not lock.
Lock_shared(p) ==
    /\ pc[p] = "migrate"
    /\ lock' = lock \cup {p}
    /\ UNCHANGED <<schema, starts, pc, launch, seen, tasks, tracer, exit>>

\* MIGRATOR.run, outside this repository: under a lock of the database it applies
\* the missing migrations one by one.
Lock(p) ==
    /\ pc[p] = "migrate"
    /\ lock = {}
    /\ lock' = {p}
    /\ UNCHANGED <<schema, starts, pc, launch, seen, tasks, tracer, exit>>

ApplyMigration(p) ==
    /\ p \in lock
    /\ schema < launch[p].binary
    /\ schema' = schema + 1
    /\ UNCHANGED <<lock, starts, pc, launch, seen, tasks, tracer, exit>>

\* The migrate command is done, the others go on.
Leave(p) ==
    /\ IF launch[p].command = "migrate"
       THEN Exit(p, 0)
       ELSE Goto(p, "validate") /\ lock' = {} /\ UNCHANGED exit
    /\ UNCHANGED <<schema, starts, launch, seen, tasks, tracer>>

\* A run that applies at most one migration.
Migrated_one(p) == p \in lock /\ schema > 0 /\ Leave(p)

\* run_migrations returns.  The migrator may refuse a database that is ahead, which
\* is Fail, or find nothing to do.
Migrated(p) == p \in lock /\ schema >= launch[p].binary /\ Leave(p)

\* The downgrade guard's outcome.
Guard(p, ahead) ==
    /\ pc[p] = "validate"
    /\ IF ahead
       THEN Exit(p, 1)
       ELSE /\ Goto(p, IF launch[p].command = "rescan" THEN "rescan" ELSE "install")
            /\ UNCHANGED <<lock, exit>>
    /\ UNCHANGED <<schema, starts, launch, seen, tasks, tracer>>

\* A check that --skip-migrations skips too.
validate_schema_unless_skipped(p) ==
    Guard(p, ~launch[p].skip_migrations /\ schema > launch[p].binary)

\* validate_schema: bails out when the database is ahead of the binary.  A
\* database without the table counts as not ahead.
validate_schema(p) == Guard(p, schema > launch[p].binary)

\* The rescan command (module Scheduler).
Rescan(p) ==
    /\ pc[p] = "rescan"
    /\ Exit(p, 0)
    /\ UNCHANGED <<schema, starts, launch, seen, tasks, tracer>>

\* init_metrics, HttpCallback::new, PgListener::connect_with, and the tasks.
Install(p) ==
    /\ pc[p] = "install"
    /\ config(p).metrics_bind \in SocketAddr
    /\ workers' = [workers EXCEPT ![p] =
            {"handler", "bind", "sampler"} \cup
                (IF config(p).retention_enabled THEN {"retention"} ELSE {})]
    /\ Goto(p, "scheduler")
    /\ UNCHANGED <<db, starts, launch, seen, token, tracer, exit>>

\* LISTEN and recover_cursor succeed.
StartScheduler(p) ==
    /\ pc[p] = "scheduler"
    /\ Goto(p, "serve")
    /\ UNCHANGED <<db, starts, launch, seen, tasks, tracer, exit>>

\* The process is gone with its tasks.
Die(p) ==
    /\ Exit(p, 1)
    /\ workers' = [workers EXCEPT ![p] = {}]
    /\ token' = [token EXCEPT ![p] = FALSE]
    /\ tracer' = [tracer EXCEPT ![p] = "none"]
    /\ UNCHANGED <<schema, starts, launch, seen>>

\* A ? or bail!, up to and including those in run_scheduler: main exits with 1
\* and takes the workers with it.
Fail(p) ==
    /\ pc[p] \in Startup
    /\ Die(p)

\* SIGKILL, a crash, or a signal before its handler is there.
Kill(p) ==
    /\ pc[p] # "down"
    /\ Die(p)

-----------------------------------------------------------------------------
End(p, w) == workers' = [workers EXCEPT ![p] = @ \ {w}]

Cancel(p) == token' = [token EXCEPT ![p] = TRUE]

\* The signal task installs its handler, panicking when it cannot.
InstallHandler(p) ==
    /\ pc[p] # "down"
    /\ "handler" \in workers[p]
    /\ \E task \in {{"signal"}, {}} :
          workers' = [workers EXCEPT ![p] = (@ \ {"handler"}) \cup task]
    /\ UNCHANGED <<db, starts, pc, launch, seen, token, tracer, exit>>

\* SIGINT or SIGTERM: wait_for_shutdown_signal cancels the token.
Signal(p) ==
    /\ pc[p] # "down"
    /\ "signal" \in workers[p]
    /\ End(p, "signal")
    /\ Cancel(p)
    /\ UNCHANGED <<db, starts, pc, launch, seen, tracer, exit>>

\* The admin task parses its address, panicking when it cannot, and listens.
AdminBind(p) ==
    /\ pc[p] # "down"
    /\ "bind" \in workers[p]
    /\ workers' = [workers EXCEPT ![p] =
            (@ \ {"bind"}) \cup (IF config(p).admin_bind \in SocketAddr THEN {"admin"} ELSE {})]
    /\ UNCHANGED <<db, starts, pc, launch, seen, token, tracer, exit>>

\* Binding fails, or the server ends with an error.
AdminFails(p) ==
    /\ pc[p] # "down"
    /\ \E w \in workers[p] \cap {"bind", "admin"} : End(p, w)
    /\ Cancel(p)
    /\ UNCHANGED <<db, starts, pc, launch, seen, tracer, exit>>

\* The retention worker panics alone; join_next is not called before the scheduler
\* has returned, so nobody notices.
RetentionPanics(p) ==
    /\ pc[p] # "down"
    /\ "retention" \in workers[p] /\ ~WindowsInReach(config(p))
    /\ End(p, "retention")
    /\ UNCHANGED <<db, starts, pc, launch, seen, token, tracer, exit>>

WorkerEnds(p, deaf) ==
    /\ pc[p] # "down"
    /\ token[p]
    /\ \E w \in workers[p] \ deaf : End(p, w)
    /\ UNCHANGED <<db, starts, pc, launch, seen, token, tracer, exit>>

\* The signal task waits for a signal and nothing else.
WorkerStops_deaf(p) == WorkerEnds(p, {"bind", "handler", "signal"})

\* Every worker watches the token; it ends once its work in hand is done.
WorkerStops(p) == WorkerEnds(p, {"bind", "handler"})

\* The scheduler returns Ok, which it does only when the token is cancelled, and
\* not while its drain loop waits for a notification.
SchedulerReturns(p) ==
    /\ pc[p] = "serve"
    /\ token[p]
    /\ Goto(p, "drain")
    /\ UNCHANGED <<db, starts, launch, seen, tasks, tracer, exit>>

\* provider.shutdown(), and main returns, with a warning when that failed.
Stop(p) ==
    /\ pc[p] = "drain"
    /\ \E outcome \in {"flushed", "failed"} :
          tracer' = [tracer EXCEPT ![p] = IF @ = "open" THEN outcome ELSE @]
    /\ Exit(p, 0)
    /\ UNCHANGED <<schema, starts, launch, seen, tasks>>

\* Flush that does not wait for the workers.
Flush_undrained(p) == Stop(p)

\* join_next has drained the JoinSet.
Flush(p) == workers[p] = {} /\ Stop(p)

Run(p) ==
    \/ InitTracing(p)
    \/ Connect(p)
    \/ Lock(p)
    \/ ApplyMigration(p)
    \/ Migrated(p)
    \/ validate_schema(p)
    \/ Rescan(p)
    \/ Install(p)
    \/ StartScheduler(p)
    \/ Flush(p)

Next ==
    \E p \in Proc :
        \/ \E l \in Launches[p] : Launch(p, l)
        \/ Run(p)
        \/ SchedulerReturns(p)
        \/ Fail(p)
        \/ Kill(p)
        \/ InstallHandler(p)
        \/ Signal(p)
        \/ AdminBind(p)
        \/ AdminFails(p)
        \/ RetentionPanics(p)
        \/ WorkerStops(p)

\* The runtime polls its tasks, and a worker's work in hand ends.  Nothing is
\* assumed of the scheduler's return.
Fairness ==
    \A p \in Proc :
        /\ WF_vars(Run(p))
        /\ WF_vars(InstallHandler(p))
        /\ WF_vars(AdminBind(p))
        /\ WF_vars(WorkerStops(p))

Spec == Init /\ [][Next]_vars /\ Fairness

-----------------------------------------------------------------------------
(* A process starts with exactly the configurations that are sound, and the  *)
(* credentials it uses are the ones the operator gave: env.sound, env.url    *)
(* and env.token say what was meant, however it is spread over the files and *)
(* variables that load merges and validate and the keyring check.            *)
StartsExactly ==
    \A p \in Proc : launch[p] # NULL =>
        LET env == Deployed[launch[p].env] IN
        /\ config(p) # NULL <=> env.sound
        /\ env.sound => config(p).database_url = env.url /\ config(p).auth_token = env.token

(* While a process serves and nothing has asked it to stop, its admin server *)
(* and its sampler run, because validate has parsed the address the admin    *)
(* task unwraps; and so does its retention worker, unless a window reaches   *)
(* further back than chrono's DateTime, which validate does not look at.     *)
ServesWhole ==
    \A p \in Proc : pc[p] = "serve" /\ ~token[p] =>
        /\ "sampler" \in workers[p]
        /\ workers[p] \cap {"bind", "admin"} # {}
        /\ config(p).retention_enabled /\ WindowsInReach(config(p)) => "retention" \in workers[p]

(* A server that exits with 0 was asked to stop, its workers had all ended,  *)
(* and only then was its tracer provider shut down.  Whether that flushed    *)
(* the spans is only logged.                                                 *)
CleanExit ==
    \A p \in Proc : exit[p] = 0 /\ Served(p) =>
        token[p] /\ workers[p] = {} /\ tracer[p] # "open"

(* Unless told to skip migrations, a process serves only with a schema that  *)
(* has every migration its binary knows, also when another process died in   *)
(* the middle of applying them.                                              *)
SchemaComplete ==
    \A p \in Proc : pc[p] \in {"install", "scheduler", "serve"} /\ ~launch[p].skip_migrations =>
        schema >= launch[p].binary

(* The downgrade guard: a process whose binary was older than the schema     *)
(* when it was started never serves, with or without migrations.             *)
NeverServesAhead ==
    \A p \in Proc : pc[p] \in {"install", "scheduler", "serve"} => seen[p] =< launch[p].binary

(* Once the token is cancelled, by a signal or by a failed admin server, the *)
(* process ends, or nothing of it is left but a scheduler that does not      *)
(* return: no worker waits for something else, and after the scheduler has   *)
(* returned nothing does.                                                    *)
StopsOnceCancelled ==
    \A p \in Proc : token[p] ~> pc[p] = "down" \/ (pc[p] = "serve" /\ workers[p] = {})
==============================================================================
