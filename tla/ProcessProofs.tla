----------------------------- MODULE ProcessProofs -----------------------------
(* What a process guarantees from its start to its exit, for any number of   *)
(* processes, versions, environments and command lines.                      *)
EXTENDS Process, FiniteSetTheorems, WellFoundedInduction, TLAPS

CommandLines == UNION {Launches[p] : p \in Proc}

\* The variables are functions of the processes.
Typed ==
    /\ schema \in Nat
    /\ pc \in [Proc -> Startup \cup {"down", "serve", "drain"}]
    /\ workers \in [Proc -> SUBSET {"handler", "signal", "bind", "admin", "retention", "sampler"}]
    /\ token \in [Proc -> BOOLEAN]
    /\ tracer \in [Proc -> {"none", "open", "flushed", "failed"}]
    /\ exit \in [Proc -> {NULL, 0, 1}]
    /\ launch \in [Proc -> CommandLines \cup {NULL}]
    /\ seen \in [Proc -> Nat]

\* The tasks that main spawns are there, but for those that may panic alone.
Whole(p) ==
    /\ "sampler" \in workers[p]
    /\ workers[p] \cap {"bind", "admin"} # {}
    /\ config(p).retention_enabled /\ WindowsInReach(config(p)) => "retention" \in workers[p]

\* A process that runs has a sound configuration; what it read of the schema stays
\* true, because the schema only grows; what it spawned is there until the token is
\* cancelled; and an exit code of 0 was earned.
Sound(p) ==
    /\ pc[p] # "down" => launch[p] \in CommandLines /\ config(p) # NULL
    /\ pc[p] = "migrate" \/ p \notin lock
    /\ seen[p] =< schema
    /\ pc[p] \in {"validate", "rescan", "install", "scheduler", "serve"}
          /\ ~launch[p].skip_migrations => schema >= launch[p].binary
    /\ pc[p] \in {"rescan", "install", "scheduler", "serve"} => seen[p] =< launch[p].binary
    /\ pc[p] = "rescan" => launch[p].command = "rescan"
    /\ pc[p] \in {"scheduler", "serve"} => token[p] \/ Whole(p)
    /\ pc[p] = "drain" => token[p]
    /\ exit[p] = 0 => pc[p] = "down"
    /\ exit[p] = 0 /\ Served(p) => token[p] /\ workers[p] = {} /\ tracer[p] # "open"

ProcessInv == Typed /\ \A p \in Proc : Sound(p)

-----------------------------------------------------------------------------
(* A rule that validate looks at and that is broken is reported.             *)
LEMMA NoneBroken ==
    ASSUME NEW rules, Broken(rules) = {}, NEW r \in rules
    PROVE  ~r[2]
<1>1. ASSUME r[2] PROVE r[1] \in Broken(rules)
  BY <1>1, Zenon DEF Broken
<1> QED BY <1>1, Zenon

(* A configuration that passes validate has an address for the admin API to  *)
(* listen on and a token.                                                    *)
LEMMA ValidService ==
    ASSUME NEW s, validate(s) = {}
    PROVE  s.admin_bind \in SocketAddr /\ ~Blank(s.auth_token)
<1> DEFINE bind == <<"admin_bind", s.admin_bind \notin SocketAddr>>
           auth == <<"auth_token", Blank(s.auth_token)>>
           rules ==
               {<<"log_filter", Blank(s.log_filter)>>, auth, bind,
                <<"connect_timeout_secs", s.connect_timeout_secs = 0>>,
                <<"user_agent", s.user_agent \notin HeaderText>>,
                <<"metrics_bind", s.metrics_bind \notin SocketAddr>>,
                <<"stats_sample_interval_secs",
                  s.stats_sample_interval_secs < MIN_STATS_SAMPLE_INTERVAL_SECS>>}
<1>1. Broken(rules) = {}
  BY Zenon DEF validate, ServiceErrors
<1>2. \A r \in rules : ~r[2]
  <2> HIDE DEF rules
  <2> QED BY <1>1, NoneBroken, Zenon
<1>3. ~bind[2] /\ ~auth[2]
  <2> HIDE DEF bind, auth
  <2> QED BY <1>2, Zenon
<1> QED BY <1>3, Zenon

(* A process gets past its start-up checks only with such a configuration.   *)
LEMMA ConfigBinds ==
    ASSUME NEW p \in Proc, launch[p] \in CommandLines, config(p) # NULL
    PROVE  config(p).admin_bind \in SocketAddr
<1>1. launch[p].env \in DOMAIN Deployed
  BY ProcessAssumption DEF CommandLines
<1> DEFINE s == load(Deployed[launch[p].env])
<1>2. config(p) = s /\ validate(s) = {}
  BY <1>1 DEF config, AppConfig
<1> HIDE DEF s
<1> QED BY <1>2, ValidService

(* A step of p leaves the other processes alone, and can only raise the      *)
(* schema.                                                                   *)
OnlyMoves(p) ==
    /\ schema =< schema'
    /\ \A q \in Proc \ {p} :
          /\ q \in lock' => q \in lock
          /\ pc'[q] = pc[q] /\ launch'[q] = launch[q] /\ seen'[q] = seen[q]
          /\ workers'[q] = workers[q] /\ token'[q] = token[q]
          /\ tracer'[q] = tracer[q] /\ exit'[q] = exit[q]

Keeps(p) == Typed' /\ OnlyMoves(p) /\ Sound(p)'

(* The command lines are records of known fields.                            *)
LEMMA CommandLine ==
    ASSUME NEW l \in CommandLines
    PROVE  /\ l.binary \in Nat
           /\ l.command \in {"serve", "migrate", "rescan", "dump"}
           /\ l.skip_migrations \in BOOLEAN
<1>1. PICK p \in Proc : l \in Launches[p]
  BY DEF CommandLines
<1> QED BY <1>1, ProcessAssumption

(* A process is still sound after a step of another one.                     *)
LEMMA OtherSound ==
    ASSUME Typed, Typed', NEW p \in Proc, NEW q \in Proc \ {p}, Sound(q), OnlyMoves(p)
    PROVE  Sound(q)'
<1>1. launch[q] \in CommandLines => launch[q].binary \in Nat
  BY CommandLine
<1>2. seen[q] \in Nat /\ schema \in Nat /\ schema' \in Nat
  BY DEF Typed
<1> QED BY <1>1, <1>2 DEF Sound, Whole, Served, config, OnlyMoves

(* A process that starts has a configuration, or exits with 1.               *)
LEMMA LaunchKeeps ==
    ASSUME ProcessInv, NEW p \in Proc, NEW l \in Launches[p], Launch(p, l)
    PROVE  Keeps(p)
<1>1. l \in CommandLines
  BY DEF CommandLines
<1>2. Typed' /\ OnlyMoves(p)
  BY <1>1 DEF ProcessInv, Typed, OnlyMoves, Launch, Exit, Goto, Startup
<1>3. Sound(p)'
  BY <1>1, ProcessAssumption
     DEF ProcessInv, Typed, Sound, Launch, Exit, Goto, Served, config
<1> QED BY <1>2, <1>3 DEF Keeps

(* The dump command ends without the database, the others go on.             *)
LEMMA InitTracingKeeps ==
    ASSUME ProcessInv, NEW p \in Proc, InitTracing(p)
    PROVE  Keeps(p)
<1>1. PICK t \in {"none", "open"} : tracer' = [tracer EXCEPT ![p] = t]
  BY Zenon DEF InitTracing
<1>2. PICK label \in {"down", "connect"}, code \in {0, exit[p]} :
         /\ pc' = [pc EXCEPT ![p] = label]
         /\ exit' = [exit EXCEPT ![p] = code]
         /\ lock' \subseteq lock
  <2>1. CASE launch[p].command = "dump"
    BY <2>1, Zenon DEF InitTracing, Exit, Goto
  <2>2. CASE launch[p].command # "dump"
    <3>1. exit' = exit /\ exit = [exit EXCEPT ![p] = exit[p]]
      BY <2>2, Zenon DEF InitTracing, ProcessInv, Typed
    <3> QED BY <2>2, <3>1, Zenon DEF InitTracing, Goto
  <2> QED BY <2>1, <2>2
<1>3. UNCHANGED <<schema, launch, seen, workers, token>>
  BY Zenon DEF InitTracing, tasks
<1>4. Typed' /\ OnlyMoves(p)
  BY <1>1, <1>2, <1>3 DEF ProcessInv, Typed, OnlyMoves, Startup
<1>5. Sound(p)'
  <2>1. launch'[p] = launch[p] /\ seen'[p] = seen[p] /\ schema' = schema
    BY Zenon DEF InitTracing
  <2>2. CASE launch[p].command = "dump"
    <3>1. pc'[p] = "down" /\ p \notin lock'
      BY <2>2, Zenon DEF ProcessInv, Typed, InitTracing, Exit, Goto
    <3> QED BY <2>1, <2>2, <3>1 DEF ProcessInv, Sound, Served
  <2>3. CASE launch[p].command # "dump"
    <3>1. pc[p] = "tracing" /\ pc'[p] = "connect" /\ lock' = lock /\ exit'[p] = exit[p]
      BY <2>3, Zenon DEF ProcessInv, Typed, InitTracing, Goto
    <3> QED BY <2>1, <3>1 DEF ProcessInv, Sound, config
  <2> QED BY <2>2, <2>3
<1> QED BY <1>4, <1>5 DEF Keeps

(* With --skip-migrations the schema is promised to nobody.                  *)
LEMMA ConnectKeeps ==
    ASSUME ProcessInv, NEW p \in Proc, Connect(p)
    PROVE  Keeps(p)
<1>1. Typed' /\ OnlyMoves(p)
  BY DEF ProcessInv, Typed, OnlyMoves, Connect, Goto, db, tasks, Startup
<1>2. Sound(p)'
  BY SMTT(30) DEF ProcessInv, Typed, Sound, Connect, Goto, config, db, tasks
<1> QED BY <1>1, <1>2 DEF Keeps

(* Taking the migration lock.                                                *)
LEMMA LockKeeps ==
    ASSUME ProcessInv, NEW p \in Proc, Lock(p)
    PROVE  Keeps(p)
<1>1. Typed' /\ OnlyMoves(p)
  BY DEF ProcessInv, Typed, OnlyMoves, Lock, tasks, Startup
<1>2. Sound(p)'
  BY SMTT(30) DEF ProcessInv, Typed, Sound, Lock, Whole, config, tasks
<1> QED BY <1>1, <1>2 DEF Keeps

(* A migration raises the schema, which breaks no promise of its own process.*)
LEMMA ApplyMigrationKeeps ==
    ASSUME ProcessInv, NEW p \in Proc, ApplyMigration(p)
    PROVE  Keeps(p)
<1>1. Typed' /\ OnlyMoves(p)
  BY DEF ProcessInv, Typed, OnlyMoves, ApplyMigration, tasks, Startup
<1>2. Sound(p)'
  BY CommandLine, SMTT(30) DEF ProcessInv, Typed, Sound, ApplyMigration, config, tasks
<1> QED BY <1>1, <1>2 DEF Keeps

(* run_migrations ends with the schema complete.                             *)
LEMMA MigratedKeeps ==
    ASSUME ProcessInv, NEW p \in Proc, Migrated(p)
    PROVE  Keeps(p)
<1>1. Typed' /\ OnlyMoves(p)
  BY DEF ProcessInv, Typed, OnlyMoves, Migrated, Leave, Exit, Goto, tasks, Startup
<1>2. Sound(p)'
  BY CommandLine, SMTT(30) DEF ProcessInv, Typed, Sound, Migrated, Leave, Exit, Goto, Served, config, tasks
<1> QED BY <1>1, <1>2 DEF Keeps

(* The guard lets only a schema pass that the binary knows.                  *)
LEMMA validate_schemaKeeps ==
    ASSUME ProcessInv, NEW p \in Proc, validate_schema(p)
    PROVE  Keeps(p)
<1>1. Typed' /\ OnlyMoves(p)
  BY DEF ProcessInv, Typed, OnlyMoves, validate_schema, Guard, Exit, Goto, tasks, Startup
<1>2. Sound(p)'
  BY CommandLine, SMTT(30) DEF ProcessInv, Typed, Sound, validate_schema, Guard, Exit, Goto, config, tasks
<1> QED BY <1>1, <1>2 DEF Keeps

(* The rescan command ends.                                                  *)
LEMMA RescanKeeps ==
    ASSUME ProcessInv, NEW p \in Proc, Rescan(p)
    PROVE  Keeps(p)
<1>1. Typed' /\ OnlyMoves(p)
  BY DEF ProcessInv, Typed, OnlyMoves, Rescan, Exit, Goto, tasks, Startup
<1>2. Sound(p)'
  BY SMTT(30) DEF ProcessInv, Typed, Sound, Rescan, Exit, Goto, Served, tasks
<1> QED BY <1>1, <1>2 DEF Keeps

(* main spawns all its tasks.                                                *)
LEMMA InstallKeeps ==
    ASSUME ProcessInv, NEW p \in Proc, Install(p)
    PROVE  Keeps(p)
<1>1. Typed' /\ OnlyMoves(p)
  BY DEF ProcessInv, Typed, OnlyMoves, Install, Goto, db, Startup
<1>2. Sound(p)'
  BY SMTT(30) DEF ProcessInv, Typed, Sound, Install, Goto, Whole, config, db
<1> QED BY <1>1, <1>2 DEF Keeps

(* The loop starts with the tasks that were spawned.                         *)
LEMMA StartSchedulerKeeps ==
    ASSUME ProcessInv, NEW p \in Proc, StartScheduler(p)
    PROVE  Keeps(p)
<1>1. Typed' /\ OnlyMoves(p)
  BY DEF ProcessInv, Typed, OnlyMoves, StartScheduler, Goto, db, tasks, Startup
<1>2. Sound(p)'
  BY SMTT(30) DEF ProcessInv, Typed, Sound, StartScheduler, Goto, Whole, config, db, tasks
<1> QED BY <1>1, <1>2 DEF Keeps

(* The scheduler returns when the token is cancelled.                        *)
LEMMA SchedulerReturnsKeeps ==
    ASSUME ProcessInv, NEW p \in Proc, SchedulerReturns(p)
    PROVE  Keeps(p)
<1>1. Typed' /\ OnlyMoves(p)
  BY DEF ProcessInv, Typed, OnlyMoves, SchedulerReturns, Goto, db, tasks, Startup
<1>2. Sound(p)'
  BY SMTT(30) DEF ProcessInv, Typed, Sound, SchedulerReturns, Goto, config, db, tasks
<1> QED BY <1>1, <1>2 DEF Keeps

(* main returns Ok after its workers.                                        *)
LEMMA FlushKeeps ==
    ASSUME ProcessInv, NEW p \in Proc, Flush(p)
    PROVE  Keeps(p)
<1>1. Typed' /\ OnlyMoves(p)
  BY SMTT(20) DEF ProcessInv, Typed, OnlyMoves, Flush, Stop, Exit, Goto, tasks, Startup
<1>2. Sound(p)'
  BY SMTT(30) DEF ProcessInv, Typed, Sound, Flush, Stop, Exit, Goto, Served, tasks
<1> QED BY <1>1, <1>2 DEF Keeps

(* An error ends the process with 1.                                         *)
LEMMA FailKeeps ==
    ASSUME ProcessInv, NEW p \in Proc, Fail(p)
    PROVE  Keeps(p)
<1>1. Typed' /\ OnlyMoves(p)
  BY DEF ProcessInv, Typed, OnlyMoves, Fail, Die, Exit, Goto, Startup
<1>2. Sound(p)'
  BY ProcessAssumption, SMTT(30) DEF ProcessInv, Typed, Sound, Fail, Die, Exit, Goto, Startup
<1> QED BY <1>1, <1>2 DEF Keeps

(* A kill ends it with 1.                                                    *)
LEMMA KillKeeps ==
    ASSUME ProcessInv, NEW p \in Proc, Kill(p)
    PROVE  Keeps(p)
<1>1. Typed' /\ OnlyMoves(p)
  BY DEF ProcessInv, Typed, OnlyMoves, Kill, Die, Exit, Goto, Startup
<1>2. Sound(p)'
  BY ProcessAssumption, SMTT(30) DEF ProcessInv, Typed, Sound, Kill, Die, Exit, Goto
<1> QED BY <1>1, <1>2 DEF Keeps

(* The signal task goes on or panics.                                        *)
LEMMA InstallHandlerKeeps ==
    ASSUME ProcessInv, NEW p \in Proc, InstallHandler(p)
    PROVE  Keeps(p)
<1> DEFINE Tasks == {"handler", "signal", "bind", "admin", "retention", "sampler"}
<1>1. Typed' /\ OnlyMoves(p)
  <2>1. PICK task \in {{"signal"}, {}} :
           workers' = [workers EXCEPT ![p] = (@ \ {"handler"}) \cup task]
    BY Zenon DEF InstallHandler
  <2>2. (workers[p] \ {"handler"}) \cup task \in SUBSET Tasks
    BY <2>1, Zenon DEF ProcessInv, Typed
  <2>3. workers \in [Proc -> SUBSET Tasks]
    BY DEF ProcessInv, Typed
  <2> HIDE DEF Tasks
  <2>4. workers' \in [Proc -> SUBSET Tasks] /\ \A q \in Proc \ {p} : workers'[q] = workers[q]
    BY <2>1, <2>2, <2>3
  <2>5. UNCHANGED <<schema, lock, pc, launch, seen, token, tracer, exit>>
    BY Zenon DEF InstallHandler, db
  <2> QED BY <2>4, <2>5 DEF ProcessInv, Typed, OnlyMoves, Startup, Tasks
<1>2. Sound(p)'
  BY SMTT(30) DEF ProcessInv, Typed, Sound, InstallHandler, Whole, config, db
<1> QED BY <1>1, <1>2 DEF Keeps

(* The retention worker panics only when a window is out of reach.           *)
LEMMA RetentionPanicsKeeps ==
    ASSUME ProcessInv, NEW p \in Proc, RetentionPanics(p)
    PROVE  Keeps(p)
<1>1. Typed' /\ OnlyMoves(p)
  BY DEF ProcessInv, Typed, OnlyMoves, RetentionPanics, End, db, Startup
<1>2. Sound(p)'
  BY SMTT(30) DEF ProcessInv, Typed, Sound, RetentionPanics, End, Whole, config, db
<1> QED BY <1>1, <1>2 DEF Keeps

(* A signal task that ends has cancelled the token.                          *)
LEMMA SignalKeeps ==
    ASSUME ProcessInv, NEW p \in Proc, Signal(p)
    PROVE  Keeps(p)
<1>1. Typed' /\ OnlyMoves(p)
  BY DEF ProcessInv, Typed, OnlyMoves, Signal, End, Cancel, db, Startup
<1>2. Sound(p)'
  BY SMTT(30) DEF ProcessInv, Typed, Sound, Signal, End, Cancel, config, db
<1> QED BY <1>1, <1>2 DEF Keeps

(* The address parses, so the admin task goes on.                            *)
LEMMA AdminBindKeeps ==
    ASSUME ProcessInv, NEW p \in Proc, AdminBind(p)
    PROVE  Keeps(p)
<1>1. Typed' /\ OnlyMoves(p)
  BY DEF ProcessInv, Typed, OnlyMoves, AdminBind, db, Startup
<1>2. Sound(p)'
  BY ConfigBinds, SMTT(30) DEF ProcessInv, Typed, Sound, AdminBind, Whole, config, db
<1> QED BY <1>1, <1>2 DEF Keeps

(* An admin task that fails cancels the token.                               *)
LEMMA AdminFailsKeeps ==
    ASSUME ProcessInv, NEW p \in Proc, AdminFails(p)
    PROVE  Keeps(p)
<1>1. Typed' /\ OnlyMoves(p)
  BY DEF ProcessInv, Typed, OnlyMoves, AdminFails, End, Cancel, db, Startup
<1>2. Sound(p)'
  BY SMTT(30) DEF ProcessInv, Typed, Sound, AdminFails, End, Cancel, config, db
<1> QED BY <1>1, <1>2 DEF Keeps

(* Other tasks end only once the token is cancelled.                         *)
LEMMA WorkerStopsKeeps ==
    ASSUME ProcessInv, NEW p \in Proc, WorkerStops(p)
    PROVE  Keeps(p)
<1>1. Typed' /\ OnlyMoves(p)
  BY DEF ProcessInv, Typed, OnlyMoves, WorkerStops, WorkerEnds, End, db, Startup
<1>2. Sound(p)'
  BY SMTT(30) DEF ProcessInv, Typed, Sound, WorkerStops, WorkerEnds, End, config, db
<1> QED BY <1>1, <1>2 DEF Keeps

-----------------------------------------------------------------------------
(* Nothing runs and nothing has exited at first.                             *)
LEMMA ProcessInit == Init => ProcessInv
<1>1. Init => Typed
  BY DEF Init, Typed, Startup
<1>2. ASSUME Init, NEW p \in Proc PROVE Sound(p)
  BY <1>2, ProcessAssumption DEF Init, Sound
<1> QED BY <1>1, <1>2 DEF ProcessInv

(* Every step keeps ProcessInv.                                              *)
LEMMA ProcessStep == ProcessInv /\ [Next]_vars => ProcessInv'
<1> SUFFICES ASSUME ProcessInv, [Next]_vars
             PROVE  ProcessInv'
  OBVIOUS
<1>1. ASSUME NEW p \in Proc, Keeps(p)
      PROVE  ProcessInv'
  BY <1>1, OtherSound DEF Keeps, ProcessInv
<1>2. CASE UNCHANGED vars
  BY <1>2 DEF ProcessInv, Typed, Sound, Whole, Served, config, vars, db, tasks
<1>3. ASSUME NEW p \in Proc, NEW l \in Launches[p], Launch(p, l)
      PROVE  ProcessInv'
  BY <1>1, <1>3, LaunchKeeps
<1>4. ASSUME NEW p \in Proc, Run(p)
      PROVE  ProcessInv'
  <2>1. Keeps(p)
    BY <1>4, InitTracingKeeps, ConnectKeeps, LockKeeps, ApplyMigrationKeeps, MigratedKeeps,
       validate_schemaKeeps, RescanKeeps, InstallKeeps, StartSchedulerKeeps,
       FlushKeeps, SMTT(20) DEF Run
  <2> QED BY <1>1, <2>1
<1>5. ASSUME NEW p \in Proc,
             \/ SchedulerReturns(p) \/ Fail(p) \/ Kill(p)
             \/ InstallHandler(p) \/ Signal(p) \/ AdminBind(p) \/ AdminFails(p)
             \/ RetentionPanics(p) \/ WorkerStops(p)
      PROVE  ProcessInv'
  <2>1. Keeps(p)
    BY <1>5, SchedulerReturnsKeeps, FailKeeps, KillKeeps, InstallHandlerKeeps, SignalKeeps,
       AdminBindKeeps, AdminFailsKeeps, RetentionPanicsKeeps, WorkerStopsKeeps, SMTT(20)
  <2> QED BY <1>1, <2>1
<1> QED BY <1>2, <1>3, <1>4, <1>5 DEF Next

(* ProcessInv holds in every reachable state.                                *)
LEMMA ProcessInductive == Spec => []ProcessInv
  BY ProcessInit, ProcessStep, PTL DEF Spec

\* At most one process is in MIGRATOR.run.
LockInv == lock = {} \/ \E p \in Proc : lock = {p}

(* The lock passes from one migrator to the next.                            *)
LEMMA LockStep == LockInv /\ [Next]_vars => LockInv'
<1> SUFFICES ASSUME LockInv, [Next]_vars PROVE LockInv'
  OBVIOUS
<1>1. CASE lock' = lock \/ lock' = {} \/ \E p \in Proc : lock' \in {{p}, lock \ {p}}
  BY <1>1 DEF LockInv
<1>2. ASSUME NEW p \in Proc, NEW l \in Launches[p], Launch(p, l)
      PROVE  lock' \in {lock, lock \ {p}}
  BY <1>2 DEF Launch, Exit
<1>3. ASSUME NEW p \in Proc, Run(p)
      PROVE  lock' \in {lock, {}, {p}, lock \ {p}}
  BY <1>3, Zenon DEF Run, InitTracing, Connect, Lock, ApplyMigration, Migrated, Leave,
      validate_schema, Guard, Rescan, Install, StartScheduler, Flush, Stop, Exit, db
<1>4. ASSUME NEW p \in Proc,
             \/ SchedulerReturns(p) \/ Fail(p) \/ Kill(p)
             \/ InstallHandler(p) \/ Signal(p) \/ AdminBind(p) \/ AdminFails(p)
             \/ RetentionPanics(p) \/ WorkerStops(p)
      PROVE  lock' \in {lock, lock \ {p}}
  BY <1>4 DEF SchedulerReturns, Fail, Kill, Die, InstallHandler, Signal, AdminBind, AdminFails,
      RetentionPanics, WorkerStops, WorkerEnds, Exit, db
<1> QED BY <1>1, <1>2, <1>3, <1>4 DEF Next, vars, db

(* The variables of any number of processes keep their types; in particular  *)
(* two processes never apply migrations at the same time, and one that fails *)
(* or is killed there leaves the lock.                                       *)
THEOREM ProcessTypeCorrect == Spec => []TypeOK
<1>1. Init => LockInv
  BY DEF Init, LockInv
<1>2. ProcessInv /\ LockInv => TypeOK
  <2> SUFFICES ASSUME ProcessInv, LockInv PROVE TypeOK
    OBVIOUS
  <2>1. lock \subseteq Proc /\ Cardinality(lock) =< 1
    BY FS_EmptySet, FS_Singleton, SMTT(20) DEF LockInv
  <2> QED BY <2>1 DEF ProcessInv, Typed, Sound, TypeOK
<1> QED BY <1>1, <1>2, LockStep, ProcessInductive, PTL DEF Spec

(* A process that serves has its sampler and its admin server until the      *)
(* token is cancelled, because validate has parsed the address the admin     *)
(* task unwraps; and its retention worker when DateTime reaches back as far  *)
(* as the windows.                                                           *)
THEOREM ServersAreWhole == Spec => []ServesWhole
<1>1. ProcessInv => ServesWhole
  BY DEF ProcessInv, Sound, Whole, ServesWhole
<1> QED BY <1>1, ProcessInductive, PTL

(* A server exits with 0 only when it was told to stop, after its workers    *)
(* ended and its tracer provider was shut down, with or without success.     *)
THEOREM ExitsAreClean == Spec => []CleanExit
<1>1. ProcessInv => CleanExit
  BY DEF ProcessInv, Sound, CleanExit
<1> QED BY <1>1, ProcessInductive, PTL

(* Whatever processes of whatever versions migrate, fail or are killed in    *)
(* any order, a process serves with every migration its binary knows, unless *)
(* it was told to skip them.                                                 *)
THEOREM SchemasAreComplete == Spec => []SchemaComplete
<1>1. ProcessInv => SchemaComplete
  BY DEF ProcessInv, Sound, SchemaComplete
<1> QED BY <1>1, ProcessInductive, PTL

(* A process never serves when the schema was ahead of its binary at its     *)
(* start (validate_schema).                                                  *)
THEOREM DowngradeGuarded == Spec => []NeverServesAhead
<1>1. ProcessInv => NeverServesAhead
  BY DEF ProcessInv, Sound, NeverServesAhead
<1> QED BY <1>1, ProcessInductive, PTL

-----------------------------------------------------------------------------
(* A set of numbers that is not empty has a least one.                       *)
LEMMA HasLeast ==
    ASSUME NEW S \in SUBSET Nat, S # {}
    PROVE  \E m \in S : \A n \in S : m =< n
<1>1. PICK m \in S : \A n \in S : ~(<<n, m>> \in OpToRel(<, Nat))
  BY NatLessThanWellFounded, WFMin, Zenon
<1>2. ASSUME NEW n \in S PROVE m =< n
  <2>1. ~(n < m)
    BY <1>1, Zenon DEF OpToRel
  <2> QED BY <2>1
<1> QED BY <1>2, Zenon

(* The position of the highest of some sources.                              *)
LEMMA MaxIsGreatest ==
    ASSUME NEW n \in Nat, NEW S \in SUBSET (1..n), S # {}
    PROVE  Max(S) \in S /\ \A i \in S : i =< Max(S)
<1> DEFINE below == {n - i : i \in S}
<1>1. below \in SUBSET Nat /\ below # {}
  <2>1. \A i \in S : n - i \in Nat
    OBVIOUS
  <2> QED BY <2>1, Zenon
<1>2. PICK m \in below : \A k \in below : m =< k
  BY <1>1, HasLeast, Zenon
<1>3. PICK top \in S : m = n - top
  BY <1>2
<1>4. ASSUME NEW i \in S PROVE top >= i
  <2>1. m =< n - i
    BY <1>2
  <2> QED BY <1>3, <2>1
<1>5. \E x \in S : \A y \in S : x >= y
  BY <1>4
<1>6. Max(S) \in S /\ \A y \in S : Max(S) >= y
  BY <1>5, Zenon DEF Max
<1> QED BY <1>6

-----------------------------------------------------------------------------
\* The sources among some that give a setting, and those that give a signing key.
Holders(sources, some, f) == {i \in some : f \in DOMAIN sources[i]}
KeyHolders(sources, some, key) ==
    {i \in Holders(sources, some, "signing_keys") : key \in DOMAIN sources[i].signing_keys}

\* What the sources amount to: a setting has the value of the highest source that
\* gives it, and so has each signing key on its own.
EffectiveKeys(sources, some) ==
    [key \in UNION {DOMAIN sources[i].signing_keys :
                       i \in Holders(sources, some, "signing_keys")} |->
        sources[Max(KeyHolders(sources, some, key))].signing_keys[key]]

Effective(sources, some) ==
    [f \in UNION {DOMAIN sources[i] : i \in some} |->
        IF f = "signing_keys" THEN EffectiveKeys(sources, some)
        ELSE sources[Max(Holders(sources, some, f))][f]]

\* A table is a function of its keys.
Tables(sources) ==
    \A i \in DOMAIN sources : "signing_keys" \in DOMAIN sources[i] =>
        sources[i].signing_keys =
            [key \in DOMAIN sources[i].signing_keys |-> sources[i].signing_keys[key]]

(* One more source over those below it.                                      *)
LEMMA OverlayEffective ==
    ASSUME NEW n \in Nat, NEW sources, DOMAIN sources = 1..n, Tables(sources),
           NEW some \in SUBSET (1..n), NEW x \in some, \A i \in some : i =< x,
           NEW below, DOMAIN below = UNION {DOMAIN sources[i] : i \in some \ {x}},
           \A f \in DOMAIN below : below[f] = Effective(sources, some \ {x})[f]
    PROVE  Overlay(below, sources[x]) = Effective(sources, some)
<1> DEFINE rest == some \ {x}
           above == sources[x]
           keys == "signing_keys"
<1>1. rest \in SUBSET (1..n) /\ x \in 1..n
  BY Zenon
<1>2. ASSUME NEW S \in SUBSET some, x \in S PROVE Max(S) = x
  <2>1. Max(S) \in S /\ x =< Max(S)
    BY <1>2, MaxIsGreatest, Zenon
  <2>2. Max(S) \in some /\ Max(S) \in 1..n /\ x \in 1..n
    BY <1>1, <2>1, Zenon
  <2>3. Max(S) =< x
    BY <2>2, Zenon
  <2> QED BY <2>1, <2>2, <2>3
<1>3. DOMAIN Effective(sources, some) = DOMAIN above \cup DOMAIN below
  BY Zenon DEF Effective
<1>4. ASSUME NEW f, f \notin DOMAIN above
      PROVE  Holders(sources, some, f) = Holders(sources, rest, f)
  BY <1>4, Zenon DEF Holders
<1>5. ASSUME NEW f \in DOMAIN above, f # keys
      PROVE  Effective(sources, some)[f] = above[f]
  <2>1. Max(Holders(sources, some, f)) = x
    BY <1>2, Zenon DEF Holders
  <2> QED BY <1>3, <1>5, <2>1, Zenon DEF Effective
<1>6. ASSUME NEW f \in DOMAIN below, f \notin DOMAIN above
      PROVE  Effective(sources, some)[f] = below[f]
  <2>1. below[f] = Effective(sources, rest)[f]
    BY Zenon
  <2>2. f \in DOMAIN Effective(sources, rest) /\ f \in DOMAIN Effective(sources, some)
    BY <1>3, Zenon DEF Effective
  <2>3. CASE f # keys
    BY <1>4, <1>6, <2>1, <2>2, <2>3, Zenon DEF Effective
  <2>4. CASE f = keys
    <3>1. Holders(sources, some, keys) = Holders(sources, rest, keys)
      BY <1>4, <1>6, <2>4, Zenon
    <3>2. EffectiveKeys(sources, some) = EffectiveKeys(sources, rest)
      BY <3>1, Zenon DEF EffectiveKeys, KeyHolders
    <3> QED BY <2>1, <2>2, <2>4, <3>2, Zenon DEF Effective
  <2> QED BY <2>3, <2>4, Zenon
<1>7. ASSUME keys \in DOMAIN above
      PROVE  /\ DOMAIN EffectiveKeys(sources, some) =
                  DOMAIN above.signing_keys \cup DOMAIN EffectiveKeys(sources, rest)
             /\ \A key \in DOMAIN above.signing_keys :
                  EffectiveKeys(sources, some)[key] = above.signing_keys[key]
             /\ \A key \in DOMAIN EffectiveKeys(sources, rest) \ DOMAIN above.signing_keys :
                  EffectiveKeys(sources, some)[key] = EffectiveKeys(sources, rest)[key]
  <2>1. Holders(sources, some, keys) = Holders(sources, rest, keys) \cup {x}
    BY <1>7, Zenon DEF Holders
  <2>2. DOMAIN EffectiveKeys(sources, some) =
          DOMAIN above.signing_keys \cup DOMAIN EffectiveKeys(sources, rest)
    <3> DEFINE D(i) == DOMAIN sources[i].signing_keys
               H == Holders(sources, rest, keys)
    <3>1. UNION {D(i) : i \in H \cup {x}} = D(x) \cup UNION {D(i) : i \in H}
      <4> HIDE DEF D, H
      <4> QED BY Zenon
    <3> QED BY <2>1, <3>1, Zenon DEF EffectiveKeys
  <2>3. ASSUME NEW key \in DOMAIN above.signing_keys
        PROVE  EffectiveKeys(sources, some)[key] = above.signing_keys[key]
    <3>1. x \in KeyHolders(sources, some, key) /\ KeyHolders(sources, some, key) \subseteq some
      BY <2>1, Zenon DEF KeyHolders, Holders
    <3>2. Max(KeyHolders(sources, some, key)) = x
      BY <1>2, <3>1, Zenon
    <3> QED BY <2>2, <3>2, Zenon DEF EffectiveKeys
  <2>4. ASSUME NEW key \in DOMAIN EffectiveKeys(sources, rest) \ DOMAIN above.signing_keys
        PROVE  EffectiveKeys(sources, some)[key] = EffectiveKeys(sources, rest)[key]
    <3>1. KeyHolders(sources, some, key) = KeyHolders(sources, rest, key)
      BY <2>1, Zenon DEF KeyHolders
    <3> QED BY <2>2, <3>1, Zenon DEF EffectiveKeys
  <2> QED BY <2>2, <2>3, <2>4, Zenon
<1>8. ASSUME keys \in DOMAIN above \cap DOMAIN below
      PROVE  Effective(sources, some)[keys] = Over(above.signing_keys, below.signing_keys)
  <2>1. below.signing_keys = EffectiveKeys(sources, rest)
    BY <1>8, Zenon DEF Effective
  <2>2. Effective(sources, some)[keys] = EffectiveKeys(sources, some)
    BY <1>3, <1>8, Zenon DEF Effective
  <2> DEFINE a == above.signing_keys
             b == EffectiveKeys(sources, rest)
             e == EffectiveKeys(sources, some)
  <2>3. e = [key \in DOMAIN e |-> e[key]]
    BY Zenon DEF EffectiveKeys
  <2>4. /\ DOMAIN e = DOMAIN a \cup DOMAIN b
        /\ \A key \in DOMAIN a : e[key] = a[key]
        /\ \A key \in DOMAIN b \ DOMAIN a : e[key] = b[key]
    BY <1>7, <1>8, Zenon
  <2> HIDE DEF a, b, e
  <2>5. e = Over(a, b)
    BY <2>3, <2>4, Zenon DEF Over
  <2> QED BY <2>1, <2>2, <2>5, Zenon DEF a, b, e
<1>9. ASSUME keys \in DOMAIN above, keys \notin DOMAIN below
      PROVE  Effective(sources, some)[keys] = above.signing_keys
  <2>1. Holders(sources, rest, keys) = {}
    BY <1>9, Zenon DEF Holders
  <2>2. DOMAIN EffectiveKeys(sources, rest) = {}
    <3> DEFINE D(i) == DOMAIN sources[i].signing_keys
               H == Holders(sources, rest, keys)
    <3>1. UNION {D(i) : i \in H \cup {x}} = D(x) \cup UNION {D(i) : i \in H}
      <4> HIDE DEF D, H
      <4> QED BY Zenon
    <3> QED BY <2>1, <3>1, Zenon DEF EffectiveKeys
  <2>3. Effective(sources, some)[keys] = EffectiveKeys(sources, some)
    BY <1>3, <1>9, Zenon DEF Effective
  <2> DEFINE a == above.signing_keys
             e == EffectiveKeys(sources, some)
  <2>4. e = [key \in DOMAIN e |-> e[key]]
    BY Zenon DEF EffectiveKeys
  <2>5. a = [key \in DOMAIN a |-> a[key]]
    BY <1>1, <1>9, Zenon DEF Tables
  <2>6. DOMAIN e = DOMAIN a /\ \A key \in DOMAIN a : e[key] = a[key]
    BY <1>7, <1>9, <2>2, Zenon
  <2> HIDE DEF a, e
  <2>7. e = a
    BY <2>4, <2>5, <2>6, Zenon
  <2> QED BY <2>3, <2>7, Zenon DEF a, e
<1> DEFINE over == Overlay(below, above)
           eff == Effective(sources, some)
<1>10. eff = [f \in DOMAIN eff |-> eff[f]]
  BY Zenon DEF Effective
<1>11. CASE keys \in DOMAIN above \cap DOMAIN below
  <2> DEFINE o == Over(above, below)
             k == Over(above.signing_keys, below.signing_keys)
  <2>1. over = [o EXCEPT !.signing_keys = k]
    BY <1>11, Zenon DEF Overlay
  <2>2. DOMAIN o = DOMAIN above \cup DOMAIN below
    BY Zenon DEF Over
  <2>3. \A f \in DOMAIN o : f # keys => o[f] = eff[f]
    BY <1>3, <1>5, <1>6, <2>2, Zenon DEF Over
  <2>4. eff[keys] = k
    BY <1>8, <1>11, Zenon
  <2> HIDE DEF o, k, eff, over
  <2>5. over = [f \in DOMAIN o |-> eff[f]]
    BY <2>1, <2>3, <2>4, Zenon
  <2> QED BY <1>3, <1>10, <2>2, <2>5, Zenon DEF eff, over
<1>12. CASE keys \notin DOMAIN above \cap DOMAIN below
  <2>1. over = Over(above, below)
    BY <1>12, Zenon DEF Overlay
  <2>2. \A f \in DOMAIN above \cup DOMAIN below :
           eff[f] = IF f \in DOMAIN above THEN above[f] ELSE below[f]
    BY <1>5, <1>6, <1>9, <1>12, Zenon
  <2>3. Over(above, below) = [f \in DOMAIN above \cup DOMAIN below |-> eff[f]]
    <3> HIDE DEF eff
    <3> QED BY <2>2, Zenon DEF Over
  <2> QED BY <1>3, <1>10, <2>1, <2>3, Zenon
<1> QED BY <1>11, <1>12, Zenon

(* AppConfig::load merges the sources one over the other, lowest first; what *)
(* comes out has, for each setting, the value of the highest source that     *)
(* gives it.                                                                 *)
LEMMA MergedIsEffective ==
    ASSUME NEW n \in Nat \ {0}, NEW sources, DOMAIN sources = 1..n, Tables(sources)
    PROVE  Merged(sources) = Effective(sources, 1..n)
<1> DEFINE S == 1..n
           Body(h) == [s \in SUBSET S |-> IF s = {} THEN << >>
                                          ELSE Overlay(h[s \ {Max(s)}], sources[Max(s)])]
           g == [s \in SUBSET S |-> IF s = {} THEN << >> ELSE Effective(sources, s)]
           iter == CHOOSE h : h = Body(h)
<1>1. Merged(sources) = iter[S]
  BY Zenon DEF Merged, MapThenFoldSet
<1>2. ASSUME NEW s \in SUBSET S, s # {}
      PROVE  Max(s) \in s /\ \A i \in s : i =< Max(s)
  BY <1>2, MaxIsGreatest, Zenon
<1>3. ASSUME NEW s \in SUBSET S, s # {}
      PROVE  Effective(sources, s) = Overlay(g[s \ {Max(s)}], sources[Max(s)])
  <2> DEFINE x == Max(s)
             rest == s \ {x}
             below == g[rest]
  <2>1. x \in s /\ \A i \in s : i =< x
    BY <1>2, <1>3, Zenon
  <2> HIDE DEF x
  <2>2. rest \in SUBSET S
    BY Zenon
  <2>3. CASE rest = {}
    <3>1. below = << >>
      BY <2>2, <2>3, Zenon
    <3>2. DOMAIN << >> = {}
      OBVIOUS
    <3>3. DOMAIN below = UNION {DOMAIN sources[i] : i \in rest}
      BY <2>3, <3>1, <3>2, Zenon
    <3>4. DOMAIN below = {}
      BY <3>1, <3>2, Zenon
    <3> HIDE DEF below
    <3> QED BY <2>1, <3>3, <3>4, OverlayEffective, Zenon DEF x, below
  <2>4. CASE rest # {}
    <3>1. below = Effective(sources, rest)
      BY <2>2, <2>4, Zenon
    <3>2. DOMAIN below = UNION {DOMAIN sources[i] : i \in rest}
      BY <3>1, Zenon DEF Effective
    <3> HIDE DEF below
    <3> QED BY <2>1, <3>1, <3>2, OverlayEffective, ZenonT(30) DEF x, below
  <2> QED BY <2>3, <2>4, Zenon
<1>4. g = Body(g)
  <2>1. ASSUME NEW s \in SUBSET S
        PROVE  g[s] = IF s = {} THEN << >> ELSE Overlay(g[s \ {Max(s)}], sources[Max(s)])
    BY <1>3, Zenon
  <2> QED BY <2>1, Zenon
<1>5. iter = Body(iter)
  <2> HIDE DEF Body, g
  <2> QED BY <1>4, Zenon
<1>6. \A s \in SUBSET S :
         iter[s] = IF s = {} THEN << >> ELSE Overlay(iter[s \ {Max(s)}], sources[Max(s)])
  <2> HIDE DEF iter
  <2> QED BY <1>5, Zenon
<1>7. \A s \in SUBSET S :
         g[s] = IF s = {} THEN << >> ELSE Overlay(g[s \ {Max(s)}], sources[Max(s)])
  <2> HIDE DEF g
  <2> QED BY <1>4, Zenon
<1>8. S # {} /\ S \in SUBSET S /\ IsFiniteSet(S)
  <2>1. 1 \in S
    OBVIOUS
  <2>2. IsFiniteSet(1..n)
    BY FS_Interval
  <2> QED BY <2>1, <2>2, Zenon
<1>9. g[S] = Effective(sources, 1..n)
  BY <1>8, Zenon
<1> HIDE DEF iter, Body, g
<1>10. ASSUME NEW s \in SUBSET S, iter[s] # g[s] PROVE FALSE
  <2> DEFINE Wrong == {t \in SUBSET S : iter[t] # g[t]}
             Sizes == {Cardinality(t) : t \in Wrong}
  <2>1. \A t \in SUBSET S : IsFiniteSet(t) /\ Cardinality(t) \in Nat
    BY <1>8, FS_Subset, FS_CardinalityType, Zenon
  <2>2. s \in Wrong /\ \A t \in Wrong : Cardinality(t) \in Nat
    BY <1>10, <2>1, Zenon
  <2>3. PICK t \in Wrong : \A u \in Wrong : Cardinality(t) =< Cardinality(u)
    <3> HIDE DEF Wrong
    <3>1. Sizes \in SUBSET Nat /\ Cardinality(s) \in Sizes
      BY <2>2, Zenon
    <3>2. PICK m \in Sizes : \A k \in Sizes : m =< k
      <4> HIDE DEF Sizes
      <4> QED BY <3>1, HasLeast, Zenon
    <3> QED BY <3>2, Zenon
  <2>4. t # {} /\ t \in SUBSET S
    BY <1>6, <1>7, Zenon
  <2> DEFINE x == Max(t)
  <2>5. x \in t
    BY <1>2, <2>4, Zenon
  <2>6. /\ iter[t] = Overlay(iter[t \ {x}], sources[x])
        /\ g[t] = Overlay(g[t \ {x}], sources[x])
    BY <1>6, <1>7, <2>4, Zenon
  <2> HIDE DEF x
  <2>7. t \ {x} \in Wrong
    BY <2>4, <2>6, Zenon
  <2> HIDE DEF Wrong
  <2>8. Cardinality(t \ {x}) = Cardinality(t) - 1
    BY <2>1, <2>4, <2>5, FS_RemoveElement, Zenon
  <2>9. Cardinality(t) \in Nat
    BY <2>1, <2>4, Zenon
  <2> QED BY <2>3, <2>7, <2>8, <2>9
<1> QED BY <1>1, <1>8, <1>9, <1>10, Zenon

-----------------------------------------------------------------------------
\* The settings that the sources of an environment amount to.
Settings(env) == Effective(Sources(env), 1..6)

\* The value of a credential: its variable's, unless that is unset or blank, else
\* that of the highest of the files and APP__ variables that give it.
Credential(env, f, variable) ==
    LET layers == <<env.app_config, env.app_config_env, env.dotenv, env.APP>> IN
    IF ~Blank(variable) THEN variable
    ELSE layers[Max({i \in 1..4 : f \in DOMAIN layers[i]})][f]

\* What was meant: an environment is sound when what it amounts to, with the defaults
\* below it, deserialises and passes the checks.
Labelled ==
    \A e \in DOMAIN Deployed :
        LET env == Deployed[e]
            c == Over(Settings(env), Defaults)
        IN  /\ env.app_config # NULL => c # NULL
            /\ env.sound <=> /\ env.app_config # NULL /\ Deserializes(Settings(env))
                             /\ validate(c) = {} /\ KeyErrors(c.signing_keys, EnvVars) = {}
            /\ env.sound => /\ env.url = Credential(env, "database_url", env.DATABASE_URL)
                            /\ env.token = Credential(env, "auth_token", env.ADMIN_TOKEN)

(* The six sources of AppConfig::load.                                       *)
LEMMA SourcesOf ==
    ASSUME NEW env
    PROVE  /\ DOMAIN Sources(env) = 1..6
           /\ Sources(env)[1] = env.app_config /\ Sources(env)[2] = env.app_config_env
           /\ Sources(env)[3] = env.dotenv /\ Sources(env)[4] = env.APP
           /\ DOMAIN Sources(env)[5] = (IF Blank(env.DATABASE_URL) THEN {} ELSE {"database_url"})
           /\ ~Blank(env.DATABASE_URL) => Sources(env)[5]["database_url"] = env.DATABASE_URL
           /\ DOMAIN Sources(env)[6] = (IF Blank(env.ADMIN_TOKEN) THEN {} ELSE {"auth_token"})
           /\ ~Blank(env.ADMIN_TOKEN) => Sources(env)[6]["auth_token"] = env.ADMIN_TOKEN
<1>1. ASSUME NEW f, NEW v
      PROVE  /\ DOMAIN Alias(f, v) = IF Blank(v) THEN {} ELSE {f}
             /\ ~Blank(v) => Alias(f, v)[f] = v
  <2>1. DOMAIN << >> = {}
    OBVIOUS
  <2> QED BY <2>1, Zenon DEF Alias
<1> DEFINE a == Alias("database_url", env.DATABASE_URL)
           b == Alias("auth_token", env.ADMIN_TOKEN)
<1>2. /\ DOMAIN a = (IF Blank(env.DATABASE_URL) THEN {} ELSE {"database_url"})
      /\ ~Blank(env.DATABASE_URL) => a["database_url"] = env.DATABASE_URL
      /\ DOMAIN b = (IF Blank(env.ADMIN_TOKEN) THEN {} ELSE {"auth_token"})
      /\ ~Blank(env.ADMIN_TOKEN) => b["auth_token"] = env.ADMIN_TOKEN
  BY <1>1, Zenon
<1>3. Sources(env) = <<env.app_config, env.app_config_env, env.dotenv, env.APP, a, b>>
  BY Zenon DEF Sources
<1> HIDE DEF a, b
<1>4. /\ DOMAIN Sources(env) = 1..6
      /\ Sources(env)[1] = env.app_config /\ Sources(env)[2] = env.app_config_env
      /\ Sources(env)[3] = env.dotenv /\ Sources(env)[4] = env.APP
      /\ Sources(env)[5] = a /\ Sources(env)[6] = b
  BY <1>3
<1> QED BY <1>2, <1>4, Zenon

(* The layers that load merges amount to the effective settings.             *)
LEMMA LoadedIsEffective ==
    ASSUME NEW e \in DOMAIN Deployed, Deployed[e].app_config # NULL
    PROVE  Merged(Sources(Deployed[e])) = Settings(Deployed[e])
<1> DEFINE env == Deployed[e]
           src == Sources(env)
<1>1. ASSUME NEW layer \in {env.app_config, env.app_config_env, env.dotenv, env.APP},
             "signing_keys" \in DOMAIN layer
      PROVE  layer.signing_keys = [id \in DOMAIN layer.signing_keys |-> layer.signing_keys[id]]
  <2>1. layer \in {env.app_config_env, env.dotenv, env.APP} \cup ({env.app_config} \ {NULL})
    BY <1>1, Zenon
  <2> QED BY <1>1, <2>1, ProcessAssumption, Zenon
<1> HIDE DEF env
<1>2. Tables(src)
  <2> SUFFICES ASSUME NEW i \in 1..6, "signing_keys" \in DOMAIN src[i]
               PROVE  src[i].signing_keys =
                        [id \in DOMAIN src[i].signing_keys |-> src[i].signing_keys[id]]
    BY SourcesOf, Zenon DEF Tables
  <2>1. i \in {1, 2, 3, 4, 5, 6}
    OBVIOUS
  <2>2. "signing_keys" \notin {"database_url", "auth_token"}
    OBVIOUS
  <2>3. i # 5 /\ i # 6
    <3>1. "signing_keys" \notin DOMAIN src[5] /\ "signing_keys" \notin DOMAIN src[6]
      BY <2>2, SourcesOf, ZenonT(60)
    <3> HIDE DEF src
    <3> QED BY <3>1, Zenon
  <2>4. /\ src[1] = env.app_config /\ src[2] = env.app_config_env
        /\ src[3] = env.dotenv /\ src[4] = env.APP
    BY SourcesOf, Zenon
  <2>5. src[i] \in {env.app_config, env.app_config_env, env.dotenv, env.APP}
    <3> HIDE DEF src
    <3> QED BY <2>1, <2>3, <2>4, Zenon
  <2> QED BY <1>1, <2>5, Zenon
<1> HIDE DEF src
<1>3. 6 \in Nat \ {0} /\ DOMAIN src = 1..6
  BY SourcesOf DEF src
<1> QED BY <1>2, <1>3, MergedIsEffective, Zenon DEF Settings, env, src

(* The defaults, field by field where it matters.                            *)
LEMMA DefaultValues ==
    /\ Defaults["auth_token"] = "" /\ Defaults["dispatch_concurrency"] = 16
    /\ {"auth_token", "dispatch_concurrency"} \subseteq DOMAIN Defaults
<1> DEFINE a == Over(DefaultU32, DefaultU64)
           b == Over(DefaultFlags, DefaultTexts)
           k == [signing_keys |-> << >>]
<1>1. /\ DOMAIN DefaultU32 = {"schedule_batch_size", "max_callbacks_per_event"}
      /\ "dispatch_concurrency" \in DOMAIN DefaultU64
      /\ DefaultU64["dispatch_concurrency"] = 16 /\ "auth_token" \notin DOMAIN DefaultU64
  BY DEF DefaultU32, DefaultU64
<1>2. /\ "auth_token" \notin DOMAIN DefaultFlags /\ "auth_token" \in DOMAIN DefaultTexts
      /\ DefaultTexts["auth_token"] = ""
  BY DEF DefaultFlags, DefaultTexts
<1>3. DOMAIN a = DOMAIN DefaultU32 \cup DOMAIN DefaultU64
  BY Zenon DEF Over
<1>4. "dispatch_concurrency" \in DOMAIN a /\ "auth_token" \notin DOMAIN a
  BY <1>1, <1>3
<1>5. a["dispatch_concurrency"] = 16
  <2>1. "dispatch_concurrency" \notin DOMAIN DefaultU32
    BY <1>1
  <2> QED BY <1>1, <1>3, <1>4, <2>1, Zenon DEF Over
<1>6. "auth_token" \in DOMAIN b /\ b["auth_token"] = ""
  BY <1>2, Zenon DEF Over
<1>7. Defaults = Over(a, Over(b, k))
  BY Zenon DEF Defaults
<1> HIDE DEF a, b, k
<1>8. "auth_token" \in DOMAIN Over(b, k) /\ Over(b, k)["auth_token"] = ""
  BY <1>6, Zenon DEF Over
<1> QED BY <1>4, <1>5, <1>7, <1>8, Zenon DEF Over

(* A credential that the settings give has the value that was meant: a       *)
(* variable that is not blank goes over every file.                          *)
LEMMA CredentialGiven ==
    ASSUME NEW env, NEW f, NEW variable,
           NEW own \in {5, 6}, NEW other \in {5, 6}, own # other, NEW src, src = Sources(env),
           f \in DOMAIN Settings(env), f # "signing_keys", f \notin DOMAIN src[other],
           f \in DOMAIN src[own] <=> ~Blank(variable),
           ~Blank(variable) => src[own][f] = variable
    PROVE  Settings(env)[f] = Credential(env, f, variable)
<1> DEFINE layers == <<env.app_config, env.app_config_env, env.dotenv, env.APP>>
           held == Holders(src, 1..6, f)
           files == {i \in 1..4 : f \in DOMAIN layers[i]}
<1>1. Settings(env)[f] = src[Max(held)][f]
  BY Zenon DEF Settings, Effective
<1>2. CASE ~Blank(variable)
  <2>1. own \in held /\ held \in SUBSET (1..6)
    BY <1>2 DEF Holders
  <2>2. \A i \in held : i =< own
    BY <1>2 DEF Holders
  <2>3. Max(held) \in held /\ own =< Max(held)
    BY <2>1, MaxIsGreatest
  <2>4. Max(held) = own
    BY <2>1, <2>2, <2>3
  <2> QED BY <1>1, <1>2, <2>4, Zenon DEF Credential
<1>3. CASE Blank(variable)
  <2>1. \A i \in 1..4 : src[i] = layers[i]
    <3>1. /\ src[1] = env.app_config /\ src[2] = env.app_config_env
          /\ src[3] = env.dotenv /\ src[4] = env.APP
      BY SourcesOf, Zenon
    <3> QED BY <3>1
  <2>2. 1..6 = (1..4) \cup {5, 6}
    OBVIOUS
  <2>3. held = files
    <3>1. \A i \in {5, 6} : i = own \/ i = other
      OBVIOUS
    <3>2. \A i \in {5, 6} : f \notin DOMAIN src[i]
      BY <1>3, <3>1, Zenon
    <3> HIDE DEF layers
    <3> QED BY <2>1, <2>2, <3>2, Zenon DEF Holders
  <2>4. Max(held) \in held
    <3>1. held # {} /\ held \in SUBSET (1..6)
      BY Zenon DEF Holders, Settings, Effective
    <3> QED BY <3>1, MaxIsGreatest
  <2>5. src[Max(held)] = layers[Max(files)]
    <3> HIDE DEF layers, held
    <3> QED BY <2>1, <2>3, <2>4, Zenon
  <2> QED BY <1>1, <1>3, <2>5, Zenon DEF Credential
<1> QED BY <1>2, <1>3, Zenon

(* StartsExactly: for every environment, however its settings are spread     *)
(* over files and variables, a process starts when what they amount to is    *)
(* sound, and with the credentials that were meant.                          *)
THEOREM StartsAsMeant ==
    ASSUME Labelled
    PROVE  Spec => []StartsExactly
<1>1. Typed => StartsExactly
  <2> SUFFICES ASSUME Typed, NEW p \in Proc, launch[p] # NULL
               PROVE  LET env == Deployed[launch[p].env] IN
                      /\ config(p) # NULL <=> env.sound
                      /\ env.sound => /\ config(p).database_url = env.url
                                      /\ config(p).auth_token = env.token
    BY Zenon DEF StartsExactly
  <2> DEFINE e == launch[p].env
             env == Deployed[e]
             s == Settings(env)
             c == Over(s, Defaults)
  <2>1. e \in DOMAIN Deployed
    <3>1. launch[p] \in CommandLines
      BY Zenon DEF Typed
    <3> QED BY <3>1, ProcessAssumption, Zenon DEF CommandLines
  <2>2. config(p) = LET l == load(env) IN
                    IF l = NULL THEN NULL
                    ELSE IF validate(l) = {} /\ KeyErrors(l.signing_keys, EnvVars) = {}
                         THEN l ELSE NULL
    BY <2>1, Zenon DEF config, AppConfig
  <2>3. load(env) = IF env.app_config = NULL THEN NULL
                    ELSE IF Deserializes(s) THEN c ELSE NULL
    BY <2>1, LoadedIsEffective, Zenon DEF load
  <2>4. /\ env.app_config # NULL => c # NULL
        /\ env.sound <=> /\ env.app_config # NULL /\ Deserializes(s)
                         /\ validate(c) = {} /\ KeyErrors(c.signing_keys, EnvVars) = {}
        /\ env.sound => /\ env.url = Credential(env, "database_url", env.DATABASE_URL)
                        /\ env.token = Credential(env, "auth_token", env.ADMIN_TOKEN)
    BY <2>1, Zenon DEF Labelled
  <2> HIDE DEF e, env, s, c
  <2>5. config(p) # NULL <=> env.sound
    BY <2>2, <2>3, <2>4, Zenon
  <2>6. ASSUME env.sound
        PROVE  /\ config(p).database_url = env.url /\ config(p).auth_token = env.token
    <3>1. config(p) = c /\ Deserializes(s) /\ validate(c) = {}
      BY <2>2, <2>3, <2>4, <2>6, Zenon
    <3>2. "database_url" \in DOMAIN s
      BY <3>1 DEF Deserializes, Required
    <3>3. "auth_token" \in DOMAIN s
      <4>1. ASSUME "auth_token" \notin DOMAIN s PROVE FALSE
        <5>1. c["auth_token"] = ""
          BY <4>1, DefaultValues, Zenon DEF Over, c
        <5>2. Blank("")
          BY Zenon DEF Blank
        <5> QED BY <3>1, <5>1, <5>2, ValidService, Zenon
      <4> QED BY <4>1, Zenon
    <3>4. /\ c["database_url"] = s["database_url"] /\ c["auth_token"] = s["auth_token"]
      BY <3>2, <3>3, Zenon DEF Over, c
    <3> DEFINE src == Sources(env)
    <3>5. /\ "database_url" \notin DOMAIN src[6] /\ "auth_token" \notin DOMAIN src[5]
          /\ "database_url" \in DOMAIN src[5] <=> ~Blank(env.DATABASE_URL)
          /\ ~Blank(env.DATABASE_URL) => src[5]["database_url"] = env.DATABASE_URL
          /\ "auth_token" \in DOMAIN src[6] <=> ~Blank(env.ADMIN_TOKEN)
          /\ ~Blank(env.ADMIN_TOKEN) => src[6]["auth_token"] = env.ADMIN_TOKEN
      <4>1. "auth_token" # "database_url"
        OBVIOUS
      <4> QED BY <4>1, SourcesOf, Zenon
    <3>6. "database_url" # "signing_keys" /\ "auth_token" # "signing_keys"
      OBVIOUS
    <3>7. src = Sources(env) /\ s = Settings(env) /\ 5 \in {5, 6} /\ 6 \in {5, 6} /\ 5 # 6 /\ 6 # 5
      BY DEF s
    <3> HIDE DEF src
    <3>8. "database_url" \in DOMAIN Settings(env) /\ "auth_token" \in DOMAIN Settings(env)
      BY <3>2, <3>3, <3>7, Zenon
    <3>9. Settings(env)["database_url"] = Credential(env, "database_url", env.DATABASE_URL)
      BY <3>5, <3>6, <3>7, <3>8, CredentialGiven, SMTT(20)
    <3>10. Settings(env)["auth_token"] = Credential(env, "auth_token", env.ADMIN_TOKEN)
      BY <3>5, <3>6, <3>7, <3>8, CredentialGiven, SMTT(20)
    <3> QED BY <2>4, <2>6, <3>1, <3>4, <3>9, <3>10, <3>7, Zenon
  <2> QED BY <2>5, <2>6, Zenon DEF env, e
<1>2. ProcessInv => Typed
  BY Zenon DEF ProcessInv
<1> QED BY <1>1, <1>2, ProcessInductive, PTL

\* What the models of the scheduler and the dispatcher assume of their constants, and
\* a connection for every delivery in flight.
WithinLimits(c) ==
    /\ c.max_attempts \in 1..MAX_PER_CALLBACK_ATTEMPTS
    /\ c.max_completion_cycles \in 1..MAX_COMPLETION_CYCLES_LIMIT
    /\ c.handler_timeout_secs \in 1..MAX_HANDLER_TIMEOUT_SECS
    /\ c.lock_buffer_secs \in Nat \ {0}
    /\ c.batch_size \in Nat \ {0}
    /\ c.backoff_secs \in Seq(Nat \ {0}) /\ c.backoff_secs # << >>
    /\ c.dispatch_concurrency \in Nat \ {0}
    /\ c.dispatch_concurrency < U32 => c.dispatch_concurrency =< c.max_connections

(* What validate says of the settings of a delivery.                         *)
LEMMA ValidDelivery ==
    ASSUME NEW c, validate(c) = {}
    PROVE  /\ c.max_attempts \in 1..MAX_PER_CALLBACK_ATTEMPTS
           /\ c.handler_timeout_secs \in 1..MAX_HANDLER_TIMEOUT_SECS
           /\ c.lock_buffer_secs # 0
           /\ c.max_completion_cycles \in 1..MAX_COMPLETION_CYCLES_LIMIT
           /\ c.backoff_secs # << >>
           /\ \A d \in Range(c.backoff_secs) : d # 0
<1> DEFINE attempts == <<"max_attempts", c.max_attempts \notin 1..MAX_PER_CALLBACK_ATTEMPTS>>
           timeout == <<"handler_timeout_secs",
                        c.handler_timeout_secs \notin 1..MAX_HANDLER_TIMEOUT_SECS>>
           buffer == <<"lock_buffer_secs", c.lock_buffer_secs = 0>>
           cycles == <<"max_completion_cycles",
                       c.max_completion_cycles \notin 1..MAX_COMPLETION_CYCLES_LIMIT>>
           backoff == <<"backoff_secs",
                        \/ c.backoff_secs = << >>
                        \/ \E d \in Range(c.backoff_secs) : d = 0 \/ d > MAX_BACKOFF_ELEMENT_SECS>>
           rules == {attempts, timeout, buffer, cycles, backoff}
<1>1. Broken(rules) = {}
  BY Zenon DEF validate, DeliveryErrors
<1>2. \A r \in rules : ~r[2]
  <2> HIDE DEF rules
  <2> QED BY <1>1, NoneBroken, Zenon
<1>3. ~attempts[2] /\ ~timeout[2] /\ ~buffer[2] /\ ~cycles[2] /\ ~backoff[2]
  <2> HIDE DEF attempts, timeout, buffer, cycles, backoff
  <2> QED BY <1>2, Zenon
<1> QED BY <1>3, Zenon

(* What validate says of the loop's batches and its concurrency.             *)
LEMMA ValidLoop ==
    ASSUME NEW c, validate(c) = {}
    PROVE  /\ ~(c.batch_size =< 0) /\ c.max_connections # 0
           /\ c.dispatch_concurrency # 0
           /\ ~(c.max_connections > 0 /\ c.dispatch_concurrency % U32 > c.max_connections)
<1> DEFINE batch == <<"batch_size", c.batch_size =< 0>>
           wide == <<"dispatch_concurrency",
                     \/ c.dispatch_concurrency = 0
                     \/ c.max_connections > 0 /\ c.dispatch_concurrency % U32 > c.max_connections>>
           pool == <<"max_connections", c.max_connections = 0>>
<1>1. \E rules : Broken(rules) = {} /\ batch \in rules /\ wide \in rules
  <2> DEFINE rules ==
             {<<"poll_interval_secs", c.poll_interval_secs = 0>>, batch,
              <<"schedule_batch_size", c.schedule_batch_size = 0>>,
              <<"external_timeout_sweep_interval_secs",
                c.external_timeout_sweep_interval_secs < MIN_SWEEP_INTERVAL_SECS>>,
              <<"payload_size_limit_bytes",
                \/ c.payload_size_limit_bytes < MIN_PAYLOAD_SIZE_BYTES
                \/ c.payload_size_limit_bytes > MAX_PAYLOAD_SIZE_BYTES>>,
              <<"notify_channel", Blank(c.notify_channel)>>,
              <<"max_callbacks_per_event",
                c.max_callbacks_per_event \notin 1..MAX_CALLBACKS_PER_EVENT_LIMIT>>,
              wide}
  <2>1. Broken(rules) = {}
    BY Zenon DEF validate, LoopErrors
  <2>2. batch \in rules /\ wide \in rules
    <3> HIDE DEF batch, wide
    <3> QED BY Zenon
  <2> HIDE DEF rules
  <2> QED BY <2>1, <2>2, Zenon
<1>2. \E rules : Broken(rules) = {} /\ pool \in rules
  <2> DEFINE rules == {<<"database_url", Blank(c.database_url)>>, pool,
                       <<"acquire_timeout_secs", c.acquire_timeout_secs = 0>>}
  <2>1. Broken(rules) = {}
    BY Zenon DEF validate, DatabaseErrors
  <2>2. pool \in rules
    <3> HIDE DEF pool
    <3> QED BY Zenon
  <2> HIDE DEF rules
  <2> QED BY <2>1, <2>2, Zenon
<1>3. ~batch[2] /\ ~wide[2] /\ ~pool[2]
  <2> HIDE DEF batch, wide, pool
  <2> QED BY <1>1, <1>2, NoneBroken, Zenon
<1> QED BY <1>3, Zenon

(* A process past its start-up checks runs with settings that meet what the  *)
(* rest of the service is proved under, for every environment.  A            *)
(* dispatch_concurrency below 2^32, which validate's `as u32` does not       *)
(* truncate, has a connection for every delivery in flight.                  *)
THEOREM RunsWithinLimits ==
    Spec => [](\A p \in Proc : pc[p] # "down" => WithinLimits(config(p)))
<1>1. ASSUME ProcessInv, NEW p \in Proc, pc[p] # "down"
      PROVE  WithinLimits(config(p))
  <2> DEFINE e == launch[p].env
             s == Merged(Sources(Deployed[e]))
             c == Over(s, Defaults)
  <2>1. launch[p] \in CommandLines /\ config(p) # NULL
    BY <1>1, Zenon DEF ProcessInv, Sound
  <2>2. e \in DOMAIN Deployed
    BY <2>1, ProcessAssumption, Zenon DEF CommandLines
  <2>3. config(p) = c /\ Deserializes(s) /\ validate(c) = {}
    <3>1. config(p) = load(Deployed[e]) /\ validate(load(Deployed[e])) = {}
      BY <2>1, <2>2, Zenon DEF config, AppConfig
    <3>2. load(Deployed[e]) = c /\ Deserializes(s)
      BY <2>1, <3>1, Zenon DEF load
    <3> QED BY <3>1, <3>2, Zenon
  <2> HIDE DEF s
  <2>4. \A f \in DOMAIN s : c[f] = s[f]
    BY Zenon DEF Over
  <2>5. /\ Required \subseteq DOMAIN s
        /\ \A f \in (RequiredU32 \cup DOMAIN DefaultU32) \cap DOMAIN s : s[f] \in 0..(U32 - 1)
        /\ \A f \in (RequiredU64 \cup DOMAIN DefaultU64) \cap DOMAIN s : s[f] \in Nat
        /\ s.batch_size \in Int /\ s.backoff_secs \in Seq(Nat)
    BY <2>3, Zenon DEF Deserializes
  <2>6. /\ {"max_connections", "lock_buffer_secs", "batch_size", "backoff_secs"} \subseteq DOMAIN s
        /\ "max_connections" \in RequiredU32 /\ "lock_buffer_secs" \in RequiredU64
        /\ "dispatch_concurrency" \in DOMAIN DefaultU64
    BY <2>5 DEF Required, RequiredU32, RequiredU64, DefaultU64
  <2>7. /\ c["max_connections"] \in 0..(U32 - 1) /\ c["lock_buffer_secs"] \in Nat
        /\ c["batch_size"] \in Int /\ c["backoff_secs"] \in Seq(Nat)
    BY <2>4, <2>5, <2>6, Zenon
  <2>8. c["dispatch_concurrency"] \in Nat
    <3>1. CASE "dispatch_concurrency" \in DOMAIN s
      BY <2>4, <2>5, <2>6, <3>1, Zenon
    <3>2. CASE "dispatch_concurrency" \notin DOMAIN s
      <4>1. c["dispatch_concurrency"] = Defaults["dispatch_concurrency"]
        BY <3>2, DefaultValues, Zenon DEF Over
      <4>2. 16 \in Nat
        OBVIOUS
      <4> QED BY <4>1, <4>2, DefaultValues, Zenon
    <3> QED BY <3>1, <3>2, Zenon
  <2> HIDE DEF c
  <2>9. c.backoff_secs \in Seq(Nat \ {0})
    <3> DEFINE b == c.backoff_secs
    <3>1. b \in Seq(Nat) /\ \A d \in Range(b) : d # 0
      BY <2>3, <2>7, ValidDelivery, Zenon
    <3>2. \A i \in 1..Len(b) : b[i] # 0
      BY <3>1 DEF Range
    <3> HIDE DEF b
    <3>3. \A i \in 1..Len(b) : b[i] \in Nat \ {0}
      BY <3>1, <3>2
    <3>4. b \in Seq(Nat \ {0})
      BY <3>1, <3>3
    <3> QED BY <3>4 DEF b
  <2>10. c.batch_size \in Nat \ {0} /\ c.lock_buffer_secs \in Nat \ {0}
    BY <2>3, <2>7, ValidDelivery, ValidLoop
  <2>11. /\ c.dispatch_concurrency \in Nat \ {0}
         /\ c.dispatch_concurrency < U32 => c.dispatch_concurrency =< c.max_connections
    <3> DEFINE d == c.dispatch_concurrency
               m == c.max_connections
    <3>1. d # 0 /\ m # 0 /\ ~(m > 0 /\ d % U32 > m)
      BY <2>3, ValidLoop, Zenon
    <3>2. d \in Nat /\ m \in 0..(U32 - 1) /\ U32 \in Nat
      BY <2>7, <2>8, WidthAssumption, Zenon
    <3> HIDE DEF d, m
    <3>3. d < U32 => d % U32 = d
      BY <3>2
    <3>4. d \in Nat \ {0} /\ (d < U32 => d =< m)
      BY <3>1, <3>2, <3>3
    <3> QED BY <3>4, Zenon DEF d, m
  <2>12. WithinLimits(c)
    BY <2>3, <2>9, <2>10, <2>11, ValidDelivery, Zenon DEF WithinLimits
  <2> QED BY <2>3, <2>12, Zenon
<1>2. ProcessInv => \A p \in Proc : pc[p] # "down" => WithinLimits(config(p))
  BY <1>1, Zenon
<1> QED BY <1>2, ProcessInductive, PTL
=============================================================================
