# Lakehouse Studio: specifications and proofs

This directory specifies Lakehouse Studio, the FastAPI server in `backend/`
that installs and operates data stacks with docker compose, and the parts of
its browser client that keep state of their own. Sources are quoted as
`file:line` of the repository.

## 1. The system

| Component | State it keeps | Operations | What makes it correct |
|---|---|---|---|
| Install record store, `state.py` | `_records`, `_dirty`, `_flush_timer`, `installs.json` | create, update_state, update_step, set_outputs, delete, flush, `_load`, the timer | nothing confirmed is lost; a pending change has a writer; whole-file snapshots |
| Install orchestrator, `UDPRunner` in `runner.py`, routes in `main.py` | the record, `_INSTALL_TASKS`, the coroutine, its child process | run, create, cancel, retry, skip, shutdown hook, reconciliation | one driver; nothing stranded; statuses fit the run; outcomes survive restarts; every task ends |
| Install directory, `runner.py` clone, env, start | compose files, `.env`, scripts, secrets on disk; the list of attached files | clone, env writers, credential sweep, reconstruction by a retry | a start uses every file the env step attached, in order; no public secret is left |
| Operations on an install, `main.py`, `uninstall.py`, `backup.py` | requests suspended in docker commands | stop, clean, smoke, rollback, uninstall, restore | exclusion from a run; an uninstalled install stays gone |
| Event bus and log stream, `events.py`, `ws_logs`, `index.html` | numbering, bounded history, queues, the browser's last number | publish, subscribe, replay, follow, reconnect | each event once, in order, without holes, up to the newest |
| Upgrade executor, `upgrade_executor.py` | executions and their file, the overlay, the containers | execute, roll back | all or nothing; what is reported as finished is on disk |
| Backups, `backup.py` | tarballs, sidecars, a shared mirror directory, the schedule file, the scheduler | create, delete, drill, save_schedule, tick | a backup has what it claims; no saved setting overwritten; what is due is fired |
| Ingest, `ingest.py` | jobs and their file, tasks, spark-submit processes | kick off, drive, time out, restart | the rows reported are the job's own; every job ends |
| Data sources, destinations, checks, `data_sources.py`, `destinations.py`, `data_quality.py` | four registries mirrored into JSON, the key of the secrets | create, test, run, delete, flush, load | deleted entries stay deleted; secrets stay readable |
| Notifications, `notifications.py` | configuration read by modification time, deduplication table | dispatch, reload, prune | the file in force is the one on disk; no repetition within the window |
| Audit log, `audit_log.py` | tap, bounded queue, batch in hand, SQLite table | tap, batch insert, retention, stop | each event once, in order, or dropped for a named reason |
| RBAC, `rbac_auth.py`, `bootstrap_rbac.py` | users | bootstrap, create, delete | an owner remains |
| Sidecars: overlays, TLS, monitoring, JDBC, fragments | families of compose files and what they mount | enable, disable, issue, delete | a compose file that is there has its files |
| Image builder, `image_builder.py` | jobs, one Dockerfile and one manifest | patch, build, push | a pushed image is what its tag says |
| Custom stack runner, `custom_stack_runner.py`, `uninstall.py` | jobs, phases, records, compose projects, shared container names | build, uninstall | job, phases and record agree; READY has its containers |
| Registry, composer, configurator | a selection, the services and files made of it | pick, resolve, compose, configure, patch | closed under dependencies; no port clash; mounts exist |
| Bootstrap and smoke scripts | lake tables, catalogs, credentials, topics, Flink jobs | eight scripts, run again after any stop | where a script ends, its smoke script passes |
| Cart checkers, `cart.py`, `compat_check.py`, `compat_explainer.py` | none (pure) | validate, check, explain | they go together; adding never heals |
| Build screen, `index.html` | cart, request counter, verdict, button | toggle, goal, template, recommended, validate | the verdict settles on the cart |
| AI provisioner, `ai_provisioner.py` | jobs, phases, one queue per job | run, stream | status tells one story; streams end |
| Hadoop ingest jobs, `stacks/enterprise-hadoop/` | files and ACKs in HDFS and S3, the Hudi table, what Hive knows of it | the tasks of the orders DAG, the script they submit, the two stages of the raw ingest | what is called complete has loaded what it found |
| Install harness, `scripts/install_harness.py` | containers, volumes, what its capturer has seen, the evidence | clean, run, interrupt, report, tear down | what it certifies is its own fresh install |
| Not modelled | see section 6 | | |

Interactions. Routes call the store under its lock and start the install task;
the task changes the record through the store and publishes to the bus; the
bus feeds the log WebSocket, the audit tap and the notifications; the store's
timer thread writes the file in parallel to the event loop; the shutdown hook
cancels tasks, flushes the store and stops the background loops. Upgrades,
ingest jobs, custom builds, provisioning jobs and image builds are tasks of
their own that the orchestrator does not know of. All handlers and tasks share
one event loop, so a slice of code between two awaits is atomic against
everything but timer threads, threadpool routes, child processes and the loss
of the process.

Hard behaviours: cancels delivered in any await; checks made before an await
and used after it; debounced against forced writes; crashes between memory and
file, and between two files; statuses left by earlier runs; scripts stopped
half way and run again; bounded queues and history; numbering that restarts;
answers in any order; containers and directories that two jobs share. Every one
is listed with its line under `hazards` in `PROJECT.json`.

## 2. Modules

| Module | Models |
|---|---|
| `WriteBackStore` | abstract: a map in memory, mirrored as whole snapshots into a file |
| `StateStore` | `state.py` in detail; implements `WriteBackStore`, as `Registries`, `IngestJobs` and `UpgradeExecutor` do |
| `InstallLifecycle` | the task of one install, its routes, shutdown, crash, restart |
| `InstallOps` | `InstallLifecycle` composed with the requests that act beside a run |
| `InstallDirectory` | the files and secrets the steps leave, over a run and its retries |
| `EventBus` | bus, WebSocket handler and browser for one install |
| `UpgradeExecutor` | upgrades of one install with their rollback and registry |
| `BackupSchedules` | the schedule file, the threads that save it, the scheduler loop |
| `Backups` | tarballs, sidecars, the shared mirror, the drill |
| `IngestJobs` | ingest jobs, their tasks, and the processes that outlive them |
| `Registries` | sources, destinations, checks and results in their JSON files |
| `Notifications`, `AuditLog`, `Accounts`, `Sidecars`, `ImageBuilds` | the services of these names |
| `CustomStack` | builds of the stack builder and their uninstall |
| `StackBuilder` | the 37 components, what a selection pulls in, what is mounted and written |
| `StackScripts` | the eight bootstrap scripts, their seed jobs, the smoke scripts |
| `CartCheck` | the three cart checkers as pure functions of a catalog and locks |
| `CartScreen` | the build screen: requests answered in any order |
| `AiProvisioning` | a provisioning job and its streams |
| `HadoopIngest` | the orders DAG, its timeouts, and the ingest script, which may go on alone or be run by hand |
| `RawIngest` | S3 to HDFS and HDFS to Hudi, by files and their ACKs |
| `HadoopIngests` | the two pipelines side by side |
| `InstallHarness` | two runs of the harness over one docker, interrupted and killed |
| `StateStoreProofs`, `EventBusProofs` | theorems about the module of that name |
| `InstallProofs` | theorems about `InstallLifecycle`, then about `InstallOps` |
| `MaintenanceProofs` | theorems about `UpgradeExecutor`, `BackupSchedules`, `IngestJobs` |
| `ServicesProofs` | theorems about `ImageBuilds`, `Registries`, `Accounts`, `Sidecars` |
| `BackgroundProofs` | theorems about `AiProvisioning`, `Notifications`, `AuditLog`, `Backups`, `HadoopIngest`, `RawIngest` |
| `StacksProofs` | theorems about `CartScreen`, `CartCheck`, `InstallDirectory`, `CustomStack`, `InstallHarness` |
| `BuilderProofs` | theorems about `StackBuilder`, `StackScripts` |
| `MCStateStore`, `MCInstallLifecycle`, `MCInstallOps` | constants for one component |
| `MCRecords` | sum of the store and the ingest jobs |
| `MCServices`, `MCMaintenance`, `MCStacks`, `MCStreams` | sums of the services; upgrades and schedules; what makes a stack; log stream and provisioning |

The last five choose one part in their initial state and follow it; the
variables of the others never change. The parts have neither a variable nor a
file in common, so a behaviour of the server is one behaviour of each, and a
property of a part holds in the sum exactly if it holds in the part. What two
parts of the code do share is inside one module (`InstallOps` for the record,
`CustomStack` for the container names, `UpgradeExecutor` for the requests that
act on the same containers). The MC modules EXTEND those of their components,
so that a theorem and a run speak of one and the same definition.

### StateStore
`memory` is `_records`, `disk` the parsed `installs.json`. Every public method
holds the re-entrant lock from start to end, so each is one action. `retry_install`
and `mark_step_skipped` change the record before they take the lock, and do not move
`updated_at` (`EditInPlace`, then `Persist`; `edited` has the records in between): a
write of another thread may carry such an edit into the file, or into a loss. A timer is
`armed`, then `waiting` once a part of its delay has passed, then `fired` once its
thread is past the point where `Timer.cancel` has an effect. The delay has two parts so
that a timer that is armed anew has something to lose. Cancelling a fired timer
moves it to `late`, a
count of threads that will still run `_flush_from_timer` and there clear the
reference to whichever timer is current. A write either replaces the file or
fails and leaves it, with `_dirty` set. `phase = "stopping"` is the rest of the
shutdown hook after its flush: what is not in `_INSTALL_TASKS` still runs, new
requests are not served. A record is its state, its `updated_at` and one of two
contents, which an edit in place turns round; `MaxClock` bounds the changes that are
stamped, and the edits have no bound, so that `DirtyIsFlushed` is about changes that
never stop. `acked`
and `gone` are history: what `update_state` and `delete` confirmed. Left out: a
file that does not parse (renamed to `.bak`), fsync.

### InstallLifecycle and InstallOps
One action per slice of `UDPRunner.run` between two changes of the record or
two awaits; `LoopFree` says that no task is inside a synchronous slice. The
store appears as `Save` (memory only, `Flush` writes it later), `SaveNow`
(memory and file) and `SaveRaises`, the forced write that fails: memory has the new
state, the file the old, no timer is armed, and the exception goes to the caller. A
run takes it for a failure of its step and tries to record FAILED (`Raises`), which may
raise in turn and ends the task, a crash of which the wrapper notifies
(`notifyCrash`); a request answers with an error. `missed` says that the latest forced
write raised and nothing was written since: the one case in which a restart shows
another outcome. `cancelled[t]` is a cancel that
was requested and not delivered; where it is delivered decides what happens
(`DeliverCancel`). `child[t]` is the spawned command. The pipeline is a constant
sequence, so the proofs hold for any; TLC runs the real one and one of four
steps with a step of each kind. In `InstallOps`, `op[o]` is the command a
request awaits; `Begin` and `Finish...` are its two slices. Control clean and
rollback run the same command and end in the same state, so they are one.

Abstracted: what a step does in the directory (`InstallDirectory` has it); the
git commands of the clone step are one command; the kill of a child whose
timeout expired is immediate. Left out: `post_env_hook`, the Windows fallback
of `_run_bash`, a second signal that forces the server out of its shutdown
hook. The window in which the first task exists and has not started is shorter
than the response that carries its id, so cancel requires that it has started.

### InstallDirectory
A secret is a number: 0 is the demo literal of the repository, n the one the
env step of run n generates. Every writer of the env step is an action, since
the server may be lost between two of them; one that fails is passed over,
except that of `.env`. So are the patches of the compose file and the scripts
(`unwritten`), and the files the credential sweep cannot read or write (`unswept`; the
sweep takes file by file, and may be lost between two): the env step ends well all
the same, with an old secret in them. `MaxLapses` bounds how many kinds of files
that befalls in one run. `used` is what the last start passed to docker compose,
`promised` what the last whole env step attached. The text of the files is
reduced to the secret they carry.

### EventBus
An event is its number and the life of the server it belongs to, of which the
code only sees the number. `handler[s]` is where the WebSocket coroutine of
session `s` stands; `wire[s]` is what was sent and not yet received. The
browser shows `view` and keeps `lastSeq`. The drop notice is put into the queue
that has just been found full, so the model has no message for it.

### UpgradeExecutor, BackupSchedules, Backups, IngestJobs
`containers` is what docker runs for the install: nothing, the base images, or
those of an upgrade's overlay. `alone[u]` records that nothing else touched the
stack while upgrade `u` ran; the routes do not see it (`Disturb`). A save is
written, given up in silence after five refusals, or raises (`Outcomes`). Where the
save of a success raises, the upgrade is rolled back while it reads "success", until
the rollback ends (`SuccessRaises`). `missed` has the upgrades whose last forced write
changed no file. `stuck` records an overlay whose removal failed in a rollback, which
goes on regardless: docker compose then reads the overlay again. In
`BackupSchedules` each access to the file system is an action, down to the
truncation of the one temporary file that two writers share; `fd` says which
name the open file of a writer has by now. In `Backups`, `inside[b]` is the
command of a backup in the minio-client container (emptying, mirroring, removing),
which ends by itself: the timeout, or the loss of the server, ends the docker client
only. `mirrorer` emptied the shared directory last, `disturbed` has the backups
that met a command of another one in it. The drill looks for a member under
`minio_data/`, so a full backup of an empty bucket is a false alarm (`AlarmHasReason`
names the case). In `IngestJobs` the docker
client of a task and the spark-submit in the container end separately; `met`
records the jobs beside which another process of their table ran.

### CustomStack, StackBuilder, StackScripts
`project[c]` is the compose project the container `udp-c` belongs to: stacks
share these names. `disturbed` records builds whose files or containers another
one has replaced. A docker command under way outlives the server (`waits` of a lost
build), and removes or creates its containers when it ends (`OrphanEnds`). `StackBuilder` has the 37 components of
`component_registry.py` with their dependencies, roles, ports and mounts, and
follows a selection through resolution, composition, configuration and the
patches. `StackScripts` has a table of steps per script; a seed job runs in a
container, so it may go on when its script is stopped (`beside`), and a
statement of it that fails ends it.

### CartCheck, CartScreen, AiProvisioning and the services
`CartCheck` is pure: TLC walks every cart of the part of the catalog in
`MCStacks` and compares the verdicts; the theorems are about any part of any
catalog. `CartScreen` numbers validations as
`state._cartReq` does. `AiProvisioning` counts the events of a slice of the
loop as one; all streams of a job take from its one queue. `Sidecars` writes
and removes every file in the order of the code, in place or by `os.replace`.
`ImageBuilds` patches a version that is only digits and dots: one with a suffix
(`Suffixed`) is never replaced again, whatever is asked for. The streaming smoke
script asks less than `StackScripts` does of it, the topic instead of its rows.

### HadoopIngest, RawIngest, InstallHarness
In `HadoopIngest` the DAG run and the Spark process it submits are two actors:
the timeout of the task ends the first only. A CSV file is named by the second
it was written in, so two runs of one second share it (`files`, `whole`); a
region of the Hudi table has the batch whose order it shows; `base` is what a
write has read of the table, `promised` what lay whole when the script listed.
`crossed` records scripts whose write met another, or a drop. In `RawIngest` a
file is its version, copied while production may write the next. Any number of runs
of either stage are under way at once (`stage[s]`, `inHand[s]`), since neither
`run_test.sh` nor the DAG, which retries once, keeps them apart: two copies of one file,
a copy over a file that is being loaded, and two writes of one table, of which the
later may put back what it has read (`found`); `metWrite` has the loads with a write
that met another of its table. `InstallHarness`
cuts the pipeline down to four steps and has the containers of all stacks as one,
since they share their names; `up` is the `docker compose up`, which outlives the
bash and the harness that wait for it; `ground` is who created the volumes the
smoke test saw, `reached` the harnesses into whose stack another has reached.
The queue of the capturer is taken to have room: a slice of the loop publishes
less than it holds.

## 3. Runs

| Run | Follows | Bounds | Distinct states |
|---|---|---|---|
| `store_holds` | the store, refinement of `WriteBackStore`; ingest jobs | 2 installs, 3 stamped changes, any number of edits, 1 failing write; 2 jobs of one table, 2 starts | 220,522 |
| `life_safety` | the lifecycle | four steps, one of each kind; 3 tasks, 1 restart, 1 forced write that raises | 2,193,810 |
| `life_pipeline` | liveness on the real pipeline | the steps without env and bootstrap, 2 tasks, no restart, 1 forced write that raises | 337,619 |
| `ops_safety` | requests beside runs | four steps, 2 tasks, 1 restart, 1 forced write that raises, 1 request at a time | 1,561,421 |
| `streams` | log stream; provisioning job | history 2, queue 3, 4 events per life, 2 sessions, 1 restart; 2 viewers | 217,711 |
| `services` | sidecars, audit, notifications, accounts, registries, backups, image builds, Hadoop ingests | per sidecar 4 requests and 2 losses; queue 2, 4 events, 2 lives; 3 window lengths, 7 ticks, 2 edits; 3 emails, 2 commands, 4 users; 2 entries of each registry, 3 lives; 2 backups, 2 drills, 1 loss; 2 image builds of 3 versions, one with a suffix; 2 ingest runs, 2 seconds, 2 regions; 2 raw files of one table, 2 versions, 3 stage runs | 2,342,107 |
| `maintenance` | upgrades, schedules | 2 upgrades of 2 images, 1 loss or failing file operation; 2 installs, 2 savers, 2 saves, 1 outage | 221,869 |
| `stacks` | directory, selection, builds, scripts, harness, cart, screen | 2 runs per directory with 1 lapse each, 3 runs per script; 2 selected components; 2 builds of 2 components; 12 cart ids; 2 stacks, 2 harnesses; 3 validations, 2 in flight | 2,382,066 |

The bounds are the smallest in which the interesting case happens: two
installs, so that a whole-file write carries the other's change along; three
tasks and a restart, so that two resumes of a run compete and a run follows one
that was cut off; a history shorter than the number of events, so that a
reconnect finds its resume point forgotten; a queue that a burst can fill; two
upgrades, backups, jobs or builds, since what goes wrong needs a pair; three
runs of a script, so that a run follows a stopped one that followed another;
two components selected, because rules are about pairs and everything else
comes in by resolution. `life_pipeline` leaves out env and bootstrap, which the
model drives as it does prepare and start. Within the bounds TLC is exhaustive. Where section 4 has a
theorem, it removes the bounds. Deadlock checking is off because every one of
these systems may stop: a bound ends a behaviour, and an idle server waits for
its next request. `stacks` uses symmetry in the names of stacks and the components
of custom builds; all its properties are about states and steps.

The cart is checked on nine catalog components and the locks of four stacks,
chosen so that every rule of the checkers applies to some cart; the real
catalog has more carts than TLC should enumerate.

Fairness. The timer threads (a `threading.Timer` fires and gets the lock); each
install task (the event loop runs every ready callback, and `wait_for` fires);
the log handlers and the browser's message callback; the timeouts of an
upgrade (`Timeouts`: the expiry of a `wait_for`, the probes and the pause, never
the success of a command); the scheduler loop and its firing of each install
(every docker call of a backup has a timeout); the steps of an ingest task,
whose commands come back by their timeout; a provisioning stream that has an
event or a heartbeat to send. Never a child process, a network, a user, a
successful write, or the job of a provisioning stream, whose install has no
timeout.

What the state of a module ranges over is stated once per module (`TypeOK`,
`StackTypeOK`, `OpsTypeOK`, ...). In the modules with theorems it is proved, on its own
or as a part of the invariant (`EntriesAreWhole` in `BackupSchedules`); the others can
be put into a cfg of the run that follows the module, and hold there.

### Disagreements between code and comments
Four runs end in a violation on purpose; each checks one sentence of the
repository, which `PROJECT.json` quotes under `findings`.

| Run | Sentence | What happens |
|---|---|---|
| `store_terminal` | "flush immediately so a crash never loses them" (`state.py:42`) | a forced write that fails leaves no timer |
| `provision_done` | "Check if install succeeded" (`ai_provisioner.py:666`) | the store has no `get_state`; the exception counts as success |
| `scripts_rerun` | "a re-run must not submit a second copy" (`streaming/scripts/lhs-bootstrap.sh:202`) | only RUNNING jobs are looked for |
| `jobs_orphan` | "rather than orphaning the subprocess" (`ingest.py:380-383`) | the docker client is killed, the spark-submit goes on and writes |

Other sentences are stated in the modules as properties that do not hold.
Put into a cfg of the module they are violated:

| Property | Sentence | What happens |
|---|---|---|
| `InstallLifecycle!ShutdownLeavesNoChild` | "so we don't leave child processes around" (`main.py:2561`) | a cancel drains the output and never kills |
| `InstallLifecycle!ReadyIsNotOverwritten` | "don't overwrite a clean READY" (`main.py:149`) | a cancel during the READY notification fails the install |
| `InstallLifecycle!ReadyRanEveryCriticalStep` | "Resume from a failed step" (`docs/ENDPOINTS.md:39`) | retry accepts any step, finalize included |
| `InstallOps!RollbackExcludesRun` | "Block rollback while an install/retry/skip task is in-flight" (`main.py:1785`) | a retry starts while rollback awaits |
| `EventBus!EveryResumeCatchesUp` | "monotonic per-install sequence number", replay or reset (`events.py:14`) | numbers restart with the server; new events are skipped |
| `UpgradeExecutor!RollbackRestoresPreUpgrade` | "Bring the stack back to the pre-upgrade state" | a stack that ran the overlay of an earlier upgrade comes back with the base images |
| `BackupSchedules!SavedCadenceHolds` | "fires off the new cadence, not the old one" (`backup.py:563`) | a backup under way writes the cursor of the old interval |
| `InstallDirectory!DisabledMeansUnhardened` | "must NOT silently re-harden" (`runner.py:1906`) | a retry that recovers no other file starts without `-f`, and `COMPOSE_FILE` names the hardening that is on the disk |
| `Registries!StoredIsNotLost` | "leave the tmp so data isn't lost" (`data_sources.py`) | a write given up leaves the registry clean, and nothing reads the temporary file |
| `StackBuilder!HdfsSuppressesBucket` | "NOT auto-added" (`component_registry.py:1039`) | the bucket comes in with a pass that precedes HDFS |
| `CartScreen!ButtonIsOfTheCart` | (none; what a user expects of the button) | between a change and its answer the button keeps the last verdict |

Others are answered without a property: "a graceful shutdown loses nothing"
(`main.py:2574`) ignores the coroutines the hook does not cancel (phase
`stopping` of `StateStore`), and "status/smoke are read-only" (`main.py:2629`)
the step that `run_command` records.

In the Hadoop stack, `main()` of the ingest script ignores what `run()` returned,
so a DAG run is green though its own file was not loaded, and `verify` is
satisfied by the rows of earlier runs (`ClientReturns`, `Verify`); the ACK a later
run puts down between the listing and its deletion is lost (`DeleteAck`);
`execution_timeout` ends the docker client and not the script. Stage 2 of the raw
ingest asks for a parent ACK and says "Run stage 1 first", which does not write
one; it does not look at the ACKs of single files, and stage 1 replaces a `.json`
schema by the empty ACK of the same name.

For the harness "orphan containers never survive a kill" does not hold:
with `--keep` they stay whatever the end is, a cancel that lands in the sleep of
`capturer.stop` or a `--json` file that cannot be written skips the teardown
(`StopCapturer`, `Report`), a `compose up` that was cancelled goes on after the
`down`, and a killed harness leaves containers that carry their project's label,
which `list_stale_udp_containers` passes over, so that the `up` of another stack
finds their names taken (`RemoveStale`, `UpCreates`). `NoOrphans` says what does
hold.

### What properties leave out
Several properties hold for a component that is left alone and say so in
their premise: `alone` of upgrades, `disturbed` of builds and of backups, `met` of image
builds and ingest jobs, `serial` of the updates of the backup cursor (no save
overlaps them), `beside` and `unnoticed` of scripts, `reached` of harnesses,
`crossed` of the scripts of the orders pipeline and `metWrite` of the loads of the raw
one. The code has no guard in these places, and the outcome without the premise is
whatever the two did last. Others leave out a failure that nobody reports or
nothing repairs: `missed` of outcomes and of upgrades (a forced write that raised or was
given up), `stuck` of the overlay of a rollback, `unwritten` and `unswept` of an install
directory, `spoilt` of a sidecar (a removal that failed), and a version in
`Suffixed` in the Dockerfile. The premises are history variables set by
the very actions the code allows, so that the runs reach both sides.

## 4. Proofs

Each theorem is about the specification of a module for all values of its
constants, so it removes the bounds of the run that checks the same property.
Every safety proof has the same shape: `Init` implies an invariant, every action
keeps it (a lemma per action, or per group of actions that touch the same
variables), and the property follows. The invariants are defined at the end of
the modules (`...Inv`), each conjunct with a name and a comment; the table says
what they add to the property, which is where the argument lies.

| Module | Theorems | What the invariant adds, and why |
|---|---|---|
| `StateStore` | `AckedTerminalIsDurable`, `DeletionIsFinal`, `DebounceIsSound`, `NoWakeupIsLost`, `StoreIsAWriteBackMap`, `StoreTypeOK` | The promises are about the file, and a later write replaces all of it by the memory: the memory is as new as what was promised (`MemoryKeepsAcked`), no stamp lies in the future (`StampsInPast`, or a fresh one would not be newer), ids are used once (`IdsAreUsed`), a process that is down holds nothing. |
| `InstallLifecycle` | `OneDriverAtATime`, `NoInstallIsStranded`, `RunsKeepTheirShape`, `OutcomesAreDurable`, `LifecycleTypeOK` | `OneDriver` carries the rest: as the registered task is the only live one, what one run does to the record breaks nothing said of another. `RunInRange`, `NotifiedIsEnded`: where a run stands relative to the record; `CreatedFindsIdle`: a task that is to begin finds a record nobody drives. |
| `InstallOps` | `RequestsKeepOneDriver`, `RequestsStrandNothing`, `RequestOutcomesAreDurable`, `UninstallIsFinal`, `OpsStayTyped` | Beside requests less of `LifeInv` is true: a rollback or a restore changes the record under a run, so `PipelineShape` and `RunInRange` fail. `SharedInv` is what survives, with `IdleAtTheEnds`. `UninstallIsFinal` is an action property of the step relation alone. |
| `EventBus` | `NoLineIsShownTwice`, `NoLineIsMissing`, `BusTypeOK` | The history is an unbroken run of numbers; what a pane has shown, what is on the wire and what its handler has still to replay are, in this order, one increasing tape; a queue is a run that ends with the newest event; `SeamIsTight`: between the snapshot a handler replays and its queue nothing is missing, since the subscription precedes the snapshot. A pane whose queue overflowed is exempt, here as in the property. |
| `UpgradeExecutor` | `EndsAreDurable`, `LoneUpgradesAreAtomic`, `ExecutionsAreAWriteBackMap`, `UpgradesStayTyped` | `LoneUpgradeFinds`: what stands at each await of an upgrade nothing disturbed, an overlay that could not be removed included. That a finished upgrade is in its file needs the upgrades that are over only, as one that is rolled back may still read "success". |
| `BackupSchedules` | `CursorsKeepSettings` | `CursorUpdateIsAlone`: from its read on, an update that no save overlaps has a document that differs from the file in cursors only, then an open temporary file that nobody moves, then that document in it. A thread that starts to hold a file makes the history false, so only readers pass by, and they leave a whole file alone. |
| `IngestJobs` | `ReportedRowsAreOwn`, `JobsAreAWriteBackMap`, `IngestsStayTyped` | A process goes no further than its task has (`ProcessFollowsTask`), two processes of one table have met, a job that met none counted its own table; the file may lag behind and has no rows of its own invention. |
| `ImageBuilds` | `LoneBuildsPushTheirTag` | `AloneIsTrue` follows the version along a build: its tag names that of the Dockerfile, then what docker read, then the local image; nobody else wrote any of the three while no two builds met, and the patch takes effect while the Dockerfile has no version with a suffix. |
| `Registries` | `RegistriesKeepTheirEntries`, `RegistriesAreWriteBackMaps`, `RegistriesStayTyped` | There is one key wherever it is kept, a stopped server remembers nothing, ids are never used again. |
| `Accounts` | `AnOwnerRemains` | An id, and an email, are one row's: so the OWNER who deletes another user is there afterwards. |
| `Sidecars` | `SidecarsStayWhole` | While a family is written, what its compose file mounts is there or comes earlier (`FilesComeFirst`, from the orders of the ten families); a removal takes the compose file first (`ComposeGoesFirst`); what `os.replace` puts there is never torn. |
| `AiProvisioning` | `StatusFitsTogether` | `InPhase`: what a job under way looks like in each of the six phases; each end of a job is an end in one of them. |
| `Notifications` | `DispatcherFollowsTheFile`, `NothingRepeatsEarly` | An edit gets a modification time of its own, the time is read before the content, so a configuration older than the file has an older time, too. An entry that is forgotten is older than the longest window. |
| `AuditLog` | `TrailHasEachEventOnce` | Inserts do not overlap; rows, batch in hand and queue are, in this order, in the order of publication. The insert of a cancelled task goes on, so a task waits for events only when no earlier insert is under way. |
| `Backups` | `BackupsAreWhatTheySay` | A sidecar follows its tarball, a drill looks at a backup that has one, a backup that met no command of another one in the mirror directory finds there what it put there (`AloneFindsItsOwn`), for as long as none of its own is left in the container. |
| `CustomStack` | `BuildsStayWhole` | Phases end in order, the record says what the job says (`RecordFollows`), and of a build nothing disturbed, the compose file and the containers are there from the phase that made them. That an `up` of another stack leaves them alone (`UpSpares`) is the lemma about container names. |
| `StackBuilder` | `SelectionsAreSound` | The table of components is the registry itself, so the rules the argument needs are lemmas about it: which port is whose (`PortsOfTheTable`, `PortsAreApart`), that what a component depends on comes before it in the order of resolution (`DepsComeBefore`), that what it mounts is generated or asked of the AI (`MountedIsAsked`). The resolution ends only with a set to which a pass adds nothing (`NothingMissing`); from the compose file on, a mounted file is one that was asked for (`MountsAreAsked`). |
| `StackScripts` | `CompleteScriptsPassSmoke` | What each step achieves stays achieved to the end of the run, said of the set of the steps the script is past (`TrinoFollows`, `StarRocksFollows`, `PolarisFollows`, `RestFollows`): a later step that writes the same thing finds the earlier one done (`StepsInOrder`, from the eight tables), as the catalog of StarRocks is made after the last rotation of the secret. A seed job that is alone finds the tables as its own statements left them (`LeftBy`), whatever the jobs of earlier runs had made of them; after it no job is left to change them (`SeedFollows`). |
| `InstallDirectory` | `DirectoriesAreWhole` | The list of attached files has each once and in their places, every file of it is on disk, a secret is that of a run there has been, and the public one wherever no env step since the clone generated another. A kind whose writer failed keeps the older ones (`unwritten`), a kind the sweep passed over any (`unswept`). |
| `InstallHarness` | `HarnessesAreTrue` | What a harness has seen succeed is what precedes its step (`StepsInOrder`); from start on the volumes of its stack are its own unless another reached into it (`GroundIsItsOwn`), which is said of the volumes, as the ground is taken from them later; one that has torn its stack down has no `up` left to bring it back (`CreatorsKeepTheirPlace`). |
| `HadoopIngest` | `OkLoadsStay`; with `RawIngest`: `IngestsStayLoaded` | A file name is that of one run, which has put it once, so that nothing promised is put again. What a script was promised is on its list, then among its rows, then registered (`PromisesAreCarried`); two writes at once know of each other (`WritesMeet`), so whatever is written beside or after one that met none starts from a table that has it (`CommittedStays`). That an upsert never goes back is the lemma about its stamps. |
| `RawIngest` | `CompleteLoadsAreWhole` | A version that is owed is still the one in HDFS, whole, and whoever has the file in hand has read it (`OwedIsThere`); a run has one file in hand (`OneInHand`); two writes of one table know of each other (`CsvWritesMeet`), so whatever is written beside or after a load that met none starts from a table that has what it loaded (`LoadedStays`). |
| `CartScreen` | `ScreenSettles` | The property says nothing while the newest validation is under way; `NewestIsOfTheCart` says that it asks about the cart as it is, since each handler that changes the cart asks in the same step. |
| `CartCheck` | `VerdictsAgree`, `CartStepsHelp` | Both are about all carts, not those reached. A conflict of a cart stays one of every larger cart (`ConflictsStay`), and a full match of another stack does not outweigh it (`ConflictsDecide`). A married cart lies within the vocabulary of one stack: every pair of it coexists there, and what the locks say of it is what the lock of that stack says (`OneStackAgrees`). The best of several stacks exists, as priority, size and id order them all (`LeastOf`). The pick is of the first missing category, of which the cart has nothing (`PickIsOfTheFirst`). |

The refinement of `WriteBackStore` by `StateStore` is proved as a safety
property: the initial states map, and under `StoreInv` every step maps to a step
of the abstract map or to a stutter. It needs the invariant: a start is a `Load`
only because a process that is down holds nothing. `Registries`, `IngestJobs` and
`UpgradeExecutor` keep their files in their own copies of that code, and implement
the same map (`RegistriesWriteBack`, `JobsWriteBack`, `ExecutionsWriteBack`). They
differ in the repair, which is the identity, as their loaders take what is there;
in writes that are given up or raise, which are mutations that only memory sees;
and in an exit that flushes nothing, which is a loss like a crash. These three are
theorems only: no run lists them.

Assumptions. Bounds are natural numbers (as `ScriptsAssumption` says of the runs of a script); `LifecycleAssumption`: the pipeline
ends in smoke and a finalize that enters READY; `IngestAssumption`: "no job" is not
a table; `NotifyAssumption`: the clock outlives the longest window;
`CustomStackAssumption`: "none" is not a name; `DirectoryAssumption`: the order of
overlays repeats none; `ScheduleAssumption`: intervals are positive and 0 is the
scheduler's thread only; `HarnessAssumption`: a project is neither of the two words for
a container of none; `HadoopAssumption`: there is a region; `RawAssumption`: every file is of a
table, and no table is a file; `CartAssumption`: the components a lock recommends are ids, stacks are numbered from
1 and have finitely many components; `LocksAssumption`: a combination that some lock
rules out by ids, and that lies within one stack, stands in the lock of that stack, in
bare ids, as it does in `stacks/` and `compatibility/`; `RecommendedAssumption`: the pick recommended for a
category is of it and of the UDP set, which is how `validate_cart` finds it. All are `ASSUME`s, which TLC evaluates in the runs.

Model-checked only:
- Liveness (`DirtyIsFlushed`, `EveryTaskEnds`, `EveryEventIsShown`,
  `EveryStreamEnds`, `EveryUpgradeEnds`, `DueIsFired`, `EveryJobEnds`): fairness and
  ENABLED are out of the prover's reach.

Every other property of the passing runs is stated by a theorem. Two of them are about
concrete tables, which are definitions and not constants: `SelectionsAreSound` holds of
the registry of `component_registry.py`, and of any number of selected components;
`CompleteScriptsPassSmoke` of the eight scripts, and of any number of runs. Of other
tables both would be false, and the lemmas about the tables are what has to be
proved again when one changes.

Where a definition could not be reasoned about, it was rewritten to say the
same: `Kept` of `InstallDirectory` filters by set instead of `SelectSeq`, which needs
induction; the table of `AuditLog` is keyed by the id of its rows, as it is in SQLite;
`RecordFollows` of `CustomStack`, `Replace` of `BackupSchedules` and `WillBeGenerated`
of `StackBuilder` have no CASE; the registry of `StackBuilder` is a function by groups of
ids instead of one long `:>` and `@@`;
`Missing` of `CartCheck` is the set of the places of the missing categories.

## 5. Plan

1. A cancel or a timeout of `_run_bash` with the process group of the command in it
   (`runner.py:1047`), the one hazard no property covers.
2. `RemoteSSHRunner` as a second pipeline of `InstallLifecycle`, with the copy of the
   directory as a step that can be cut off.
3. The stages of a `DueIsFired` or an `EveryUpgradeEnds` as step theorems (each step
   lowers a measure), which is what liveness leaves within the prover's reach.

## 6. Not modelled

- Remote runners. `RemoteSSHRunner` repeats the pipeline of `UDPRunner` over
  ssh: `InstallLifecycle` would say the same of its tasks and its record. What it
  adds is the copy of the directory, which the env step makes after it has been
  recorded as a success, so that a cancel in the copy leaves a retry from doctor
  with a remote directory that is old or half there; and stop, clean and
  uninstall, which run on the server's own host. Its start reads `spec["argv"]`,
  which the stacks that start by compose do not have. `RemoteClusterRunner` calls
  methods the store and the bus do not have and ends at its first step.
- Catalog, sizing, scoring, version lists and the simulation of upgrades: reads
  and arithmetic without steps. `suggest_swap` and the alternatives of
  `compat_check.py` and the scores of `compat_explainer.py` are left out of
  `CartCheck`; the two modules are reached by tests only, the build screen asks
  `validate_cart`. By enumeration on the real catalog, the docstring "the stack
  that would then marry" (`compat_check.py:482`) is untrue of a third of the
  swaps suggested.
- AI assistant, error explainer and prompts: calls of a language model. What
  they answer appears as usable or not.
- Inspection, health, structured smoke, evidence, viewers, SQL editor, command
  line: stateless requests.
- `ingest_csv_to_hudi.py`, which nothing calls, the StarRocks refresh of the ingest
  script and its other tables: a call handles its tables one after the other.
- In modelled components: the text of generated files, validation of fields,
  permission checks, the channels of notifications, uploads and previews of
  ingests, the multi-format block of the smoke scripts, the pauses between
  reconnects of the browser.
