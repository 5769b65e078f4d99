# HostForge in TLA+

HostForge is a self-hosted platform: a single Go server that builds and deploys
services from Git into Docker containers, routes domains to them through Caddy,
and runs managed databases with backups, credentials and public gateways. This
directory models its control logic in TLA+, checks the models with TLC and
proves theorems about them with TLAPS. Every definition is translated from the
code; `PROJECT.json` maps each one to the lines it stands for.

    tlc -config queue_database.cfg MCOperationQueue    # one run
    tlapm OperationQueueProofs.tla                     # one module's proofs

Contents: 1 the system, 2 the modules, 3 the runs, 4 disagreements between the
code and its documents, 5 the proofs, 6 what is only model-checked, 7
abstractions, 8 the plan, 9 what is not modelled.

## 1. The system

One process (`cmd/server/main.go`) holds an SQLite database, talks to the Docker
daemon, Git remotes and Caddy, and serves an HTTP API and webhooks. It uses
**one** SQLite connection (`internal/database/sqlite.go:29`), so every store call
is atomic in every module, whatever else runs; all that matters happens *between*
two store calls, or between a store call and an effect outside the database.

    API / webhooks ──write rows, enqueue──▶ operations queue ──claim──▶ two runtimes
         │                                                               │      │
         │ write domains, notify                            deploy handler   database handlers
         ▼                                                               │      │
    Caddy reconciler ◀──────────────notify on cutover────────────────────┘      │
         │                                                                      │
         ▼                                                                      ▼
       Caddy                      Docker daemon ◀──────────── engines, backups ──▶ S3
                                        ▲
    gateway rows ──own queue──▶ gateway workers ──▶ PgBouncer configuration

At start: open and migrate the database, verify the encryption canary, recover
operations, sweep orphaned containers, start the runtimes, the reconciler, the
database reconciliation, purge, schedule, retention, snapshot, image and
certificate loops and the gateway workers, then serve. At shutdown: stop
claiming, close HTTP, wait for the deploy runtime, then for the database runtime,
then for the gateway workers, each up to a deadline.

### Inventory

| Component | State | Operations | What is hard | What makes it correct | Module |
|---|---|---|---|---|---|
| Operations queue and worker runtimes | `operations` rows; per worker a claimed operation, a context, a lease; the drain's lease snapshot | enqueue, claim, renew, defer, complete, request cancellation, begin deletion, drain, recover | claims of two runtimes, completion racing cancellation, drain and recovery; unguarded status writes of database handlers | one operation per lock key; deploys are never run twice; nothing queued is unclaimable or lost | `OperationQueue`, implementing `QueueContract` |
| Deployments of a service | `deployments`, `containers`, `active_deployment_id`, the containers themselves | prepare, cancel, stop, restart, execute, recover, sweep | a cancel, a crash or a failure between any two of a dozen writes and Docker calls | what is routed is never removed; ended deploys leave nothing behind | `Deployment` |
| Caddy routing and domains | `domains` rows with `publish_state`, the generated snippet, Caddy's configuration, the reconciler's last hash and notify token | domain CRUD, cutover, stop/restart, notify, reconcile, restart of either process | lost notifications, a skipped pass that should not be, rows changed under a pass, a failed reload | the routes converge; what is published is routed | `CaddyReconcile` |
| Process start, drain, exit | order of the above | boot, signal, drain, exit, crash | recovery and sweep must run before anything claims | part of each module's invariants | `OperationQueue`, `Deployment`, `CaddyReconcile`, `ControlPlane` |
| Database services and instances | `database_instances`, containers and volumes | provision, start, stop, restart, upgrade, reconcile, delete, restore a deletion, purge | read-modify-write of the row by three actors; operations enqueued during a deletion | the status converges to what Docker does; a volume outlives its retention window | `DatabaseInstance` |
| Backups, restore, schedules | `database_backups`, `database_restore_jobs`, policies, destinations, objects in S3 | back up, restore, retain, delete, schedule | a restore that depends on a safety backup; deletion and retention against restores; companion rows beside operations | a success can be fetched; a half-written database can be put back; what has expired goes | `DatabaseBackups` |
| Database gateways | endpoint, connections, credential generations, own operations and leases, PgBouncer's configuration, the engine's roles | create, update, disable, enable, rotate, expire, retire, revoke, provision, teardown | two queues act on one engine; a configuration rendered from old rows is loaded late; grace windows | what is denied stays denied; revoked means no login; the queue drains | `DatabaseGateway` |
| Credential rotation | staged and current sealed password, the engine's live and saved one | stage, probe, alter, save, verify, commit, roll back, retry | one secret in two stores, a crash between them | the engine accepts a stored password | `CredentialRotation` |
| Control plane database | schema version, canary, sealed secrets, snapshot rows, files and objects | open, migrate, verify the canary, snapshot, purge, restore | upgrades, downgrades, changed keys and restores in any order | a server understands what it serves; a listed snapshot can be restored | `ControlPlane` |
| Applications, environments, services | their rows, bindings, networks, volumes | create, delete, provision, deploy beside a deletion | list-then-delete with work under way | what is deleted runs nothing | `ServiceCatalog` |
| Deployment logs | the file, the follower's offset, the viewer's cursor | append, catch up, follow, resynchronise, end, reconnect | sizes and contents read at different moments; rotation under an offset | every byte once and in order | `DeploymentLogs` |
| Host ports and images | port of each container row, images, the sweep's lists | pick, build, run, attach, stop, restart, sweep | picks before rows; a keep-list that is read once | ports distinct; wanted images kept | `HostResources` |
| Platform domain and certificates | `platform_domain`, the control-plane snippet, managed names, `ssl_status` | onboard, change, roll back, ensure a managed name, poll | names from a domain read before it changed; a change undone half way | names follow the domain; Caddy serves the stored one; a status is about its name | `PlatformDomain` |
| Webhook intake | deliveries, the limiter's windows | verify, resolve targets, prepare a deploy per target | as deployments | as deployments | `Deployment` (prepare only) |
| Authentication, rate limits, Git, GitHub App, builders, DNS, metrics, UI | - | - | network, files, rendering | - | not modelled (section 9) |

`PROJECT.json` has the full list under `components` with the files of each, and
under `hazards` the places where this code can go wrong in ways a unit test would
hardly reach, each with the properties that would show it.

## 2. The modules

| Module | Models | State ↔ code |
|---|---|---|
| `OperationQueue` | `repository/operations.go`, `internal/workers`, and of the handlers only what the queue sees | `status`, `attempt`, `available`, `owner`, `cancelRequested`, `created` are columns; `pc`, `job`, `ctxDone`, `outcome` are a worker goroutine's position in `Runtime.execute`; `releasing` is the snapshot `releaseHeldLeases` walks |
| `QueueContract` | nothing of its own: what the queue promises whoever enqueues | `executing` is what workers are engaged with, `outcome` the terminal statuses, `entered` the deploys ever begun, `overrun` the passed drain deadline |
| `Deployment` | prepare/cancel/stop/restart endpoints, `deployOperationHandler`, `ExecuteDeploy`, recovery, sweep | `dep`, `op`, `row`, `active` are the four rows that tell one story; `box` is what Docker really runs; `pc`/`undo` are the handler's next step; `preparing`, `unread`, `cancelling`, `request` are API requests between their writes |
| `CaddyReconcile` | `reconcile/caddy/reconciler.go`, `caddy/runtime.go` (`Sync`), the domain endpoints' writes, the notify callers | `domain`, `state`, `upstream` are what `ListDomainRoutes` joins; `notify` is the buffered channel; `pc`/`plan` are a caller of `Reconcile` and what it read; `file` and `running` are the snippet and what Caddy has loaded |
| `DatabaseInstance` | one managed database: `database_provision.go` (provision, restore, start, stop, restart, upgrade), `database_reconcile.go`, `database_lifecycle.go`, the store calls they make, what Docker does | `row` and `life` are the columns of `database_instances`; `docker`, `volume` are what the daemon has; `pc`, `made`, `undoing` are a handler's next step, its container and whether it is rolling back; `pending` is what an actor read and is about to write back; `loop`, `deletion`, `purge`, `request` are the other actors between two of their calls |
| `Environment` | nothing: the budget of faults, process ends and requests that the modules below share | `Fault`, `ProcessCrash`, `Request`, `NoFault` say how a step ends |
| `DatabaseBackups` | `repository/database_backups.go`, the backup and restore handlers of `database_provision.go`, `database_backup_schedule.go`, the API's requests, S3 as its client sees it | `backup`, `job`, `policy`, `destination` are rows, `operation` and `line` the queue as far as these kinds meet it (`line` in the order a claim takes: the second of `created_at`, then a random id; `settled` marks where the last second begins), `at`/`held` a worker's step and what it has opened, `stored` the objects, `contents` and `consumers` what a restore touches |
| `DatabaseGateway` | `repository/database_gateways.go`, the gateway worker, adapter and runtime, and the stop, start and delete handlers that rewrite the same configuration | `endpoint`, `route`, `connection`, `credential` are rows; `queue` the gateway's own operations with their leases; `role` what the engine holds; `directories`, `current`, `loaded` the generation directories, the symlink and what PgBouncer has read; `step`/`task` are an actor's next step and what it has rendered |
| `CredentialRotation` | the `rotate_credentials` handler for the three kinds of engine | `password`, `pending` are columns; `live`, `saved` what the engine accepts now and after its next start; `place`, `known` the handler's step and what it has read |
| `ControlPlane` | opening of the database, migrations, the canary, the snapshot loop, the restore script | `database` is the file with its schema version, canary, keys and rows; `snapFiles`, `objects` are the copies; `server`, `loop` the steps of a start and of the loop |
| `ServiceCatalog` | `applications.go`, `service_crud.go`, `delete_v2.go` and their endpoints | rows are sets; `clients` are requests between their calls; `containers`, `volumes`, `networks` are what Docker has; a deployment is at "lost" when its container runs and its row could not be written |
| `DeploymentLogs` | `deployment_logs_live.go`, `logs/files.go`, the viewer's `use-deployment-log-stream.ts` | `disk` is a file by version and size; `session` the server's side of one connection, `viewer` what the browser shows and the cursor it will ask with, which every chunk and the end frame set |
| `HostResources` | the choice of ports, `ListAllocatedHostPorts`, `image_gc.go`, of a deploy only what touches them | `build` is a deployment's step, service and port; `row` and `container` the two truths about its container; `cancelled` the rows that are CANCELLED while their handler goes on; `activeOf` is `active_deployment_id`; `lifecycle` are stops and restarts between resolving, calling Docker and writing the row; `sweep` what the image pass has read |
| `PlatformDomain` | onboarding's completion, `handleUpdatePlatformDomain`, managed domains, `cert_poll.go` | `platform`, `share`, `ssl` are columns, `snippet` is Caddy's; `asked` the requests, `ensure` and `poll` what has been read and is about to be written |
| `MCOperationQueue`, `MCDeployment`, `MCCaddyReconcile`, `MCDatabaseInstance`, `MCBackups`, `MCGateway`, `MCPlatform` | nothing: small instances for TLC | - |
| `OperationQueueProofs`, `DeploymentProofs`, `DeploymentCleanupProofs`, `CaddyReconcileProofs`, `DatabaseInstanceProofs`, `DatabaseBackupsProofs`, `DatabaseGatewayProofs` | theorems about the modules they are named for | - |
| `PlatformProofs` | theorems about the six models that `MCPlatform` puts side by side | - |

Actions bear the names of the handlers or store calls they stand for. Operators
whose comment begins with "Mutant of" are not part of the specification: each is
a plausible bug in one definition, used to show that a property can fail.
Variables whose comment begins with "history" decide nothing: they remember, for
an exception a property has to make, that the code has already gone wrong in a way
listed in section 4.

How the modules meet:

- `OperationQueue` is shown to implement `QueueContract` (checked by `queue_deploy`,
  proved as `QueueImplementsContract`). The contract is what the others rely on:
  `Deployment` follows a single runner per service environment because no two
  workers execute deploys of one lock key at once, and takes the queue's claim,
  completion, drain and recovery over in the form they have for one lock key.
- `DatabaseInstance`, `DatabaseBackups` and `CredentialRotation` take from it that one
  operation of an instance runs at a time and that recovery queues what ran;
  database handlers end their rows themselves, before their last write, as the
  queue module's `tail` has them do.
- `CaddyReconcile` sees a deploy as `Cutover` (activation, then a notification) and
  a stop or restart as a change of the container's row that notifies nobody;
  `PlatformDomain` has the other writer of Caddy's configuration,
  `ReplaceManagedConfig`.
- `DatabaseGateway` has the lifecycle handlers of `DatabaseInstance` as one more
  actor on the gateway's configuration; `DatabaseBackups` has the consumers they
  stop; `ServiceCatalog` has deploys and provisionings whose service is deleted.
- `HostResources` lets deploys of different services run side by side, which
  `Deployment`, about one service, cannot show.

## 3. Runs and what they show

Passing runs, each with the bounds in its `.cfg`:

| Run | Instance | Shows |
|---|---|---|
| `queue_database` | 2 database operations on one instance, one a restore that may be deferred, 2 workers, 1 process end, 1 clock tick, no failed write | lock-key exclusion through renewals, deferrals, drains and recovery; liveness: what is enqueued ends |
| `queue_deploy` | 2 deploys of one service, 1 database operation in the other runtime, 3 workers, 1 process end, 1 failed write | every step is one of the contract's; nothing queued is unclaimable; a deploy is begun once |
| `deploy_life` | a pushed and a manual deployment, 1 stop/restart request, 2 process ends, 1 fault | what is routed is kept and runs, also when a request resolves before a cutover and acts after it; recovery leaves no tracked residue; outcomes are final; liveness: every deployment ends |
| `deploy_cutover` | 3 deployments in different seconds, cancels at every step | each cutover removes what it replaces; a cancelled deploy is not routed to |
| `caddy` | 1 domain with 2 names, 2 services, 3 changes, a synchronous caller beside the loop, 2 troubles among faults, silent stops, restarts of either process | once settled Caddy has the database's routes and nothing stale is published; liveness: the routes converge |
| `db_life` | a provision, an upgrade and a restoration, a deletion, a process end (perhaps with a newer catalog), a failing call | the volume goes only when the retention window of a deletion has passed; what is purged leaves no container and no volume |
| `db_ends` | a stop, a restart, an upgrade of a provisioned instance, a deletion that cancels what runs | liveness: the recorded status converges to what Docker does; a deleted instance is purged whatever was queued for it |
| `backups` | 2 backups, 1 restore, 1 destination, 3 requests, 2 troubles, a policy that becomes due; operations of one second in any order | a success can be fetched until it expires or is being deleted; a database written half can be put back; liveness: operations end and what has expired is removed |
| `gateway` | 1 connection, 1 worker, 3 gateway operations, stops, starts or deletions of the database, 1 trouble | a revoked row leaves no role that may log in; what was denied stays denied whatever configuration is loaded late (both with the default of one worker; section 4 says what two do); liveness: the queue drains |
| `platform` | six small models side by side: 2 rotations and 2 restarts of the engine; 2 snapshots, 2 keys, 2 versions, 2 days; 2 services, 2 deploys, 2 clients; a log of 3 bytes in 2 files; 3 deployments of 2 services on 2 ports; 2 zones, 1 share, 2 operators | the properties of each, see below |

`platform` chooses at the start which model a behaviour is of (`part`); the others
stay as they began, so the run is the sum of the six and never their product:

| Part | Property | Says |
|---|---|---|
| rotation | `EngineAcceptsStored`, `RotationResumes` | the engine accepts a password the store has; liveness: an interrupted rotation ends with the new one |
| plane | `ServesWhatItUnderstands`, `SnapshotIsUsable` | schema, key and pre-migration copy of a server that answers; a listed snapshot can be restored |
| catalog | `DeletedRunsNothing` | what a deletion could list is gone, containers and volumes |
| logs | `LogIsExact` | a viewer shows each byte once and in order, asks for the one that comes next, and has all of them when told it is the end |
| host | `PortsAreDistinct`, `ImageIsKept` | two rows that own a port own different ones; the sweep takes nothing that is wanted (each with the exceptions of section 4) |
| domain | `ShareFollowsPlatform`, `SnippetServesPlatform`, `StatusIsOfTheName` | managed names, Caddy and certificates follow the platform domain |

The type invariants of the four core modules are theorems and are not run again;
those of the backups and of the gateway are properties of their runs, those of the
six small models together one property (`PlatformTypeOK`).

Violation runs, one per finding (`PROJECT.json` quotes the line each contradicts):

| Run | What the code does |
|---|---|
| `deploy_cancel_leak` | a cancel during the container's start leaves it running and unrecorded |
| `caddy_failed_reload` | a failed pass leaves its snippet on disk, and a return to the previous routes skips |

### Bounds and why they are enough

- *Operations, deployments, domains*: two that compete show every pairwise
  hazard (the lock check, order, replacement); `deploy_cutover` needs a third
  because the wrong container is the one *before* the one replaced. The two
  database runs have three operations each, of different kinds: together every
  kind but `start`, which is a `restart` without the stop.
- *Process ends* (`MaxBoots`, `MaxRestarts`, `ProcessCrash`): at any step of any
  actor; two in `deploy_life`, so that a recovery can itself be interrupted.
- *Faults* (`MaxFaults`): failed store writes, Docker calls, caddy commands, S3
  calls. In `caddy` and in the modules on `Environment` faults and process ends
  share one budget, `MaxTroubles`: two let the cleanup of a failed step fail or be
  interrupted too. `gateway` has one, at any of its many steps: with two the
  run does not end in minutes.
- *Requests* (`MaxRequests`, `MaxGateway`): three or four, so that the third can meet
  what the first two have left half done.
- *Clock* (`MaxClock`): `created_at` has whole seconds; two values separate "same
  second" from "later", a third is used where three deployments are ordered.
  Elsewhere time is an event: a policy becomes due, a backup or a grace window
  expires, a lease lapses, a day passes.
- *Attempts*: `DefaultMaxAttempts` is 5 in the code and 2 in the runs: one
  attempt that may be retried and one that may not. The theorems hold for all.
- *Generations* (`MaxGeneration`) of a credential: four, more than three operations
  can use up.
- *Changes, stops, restarts* in `CaddyReconcile`: three changes, so that a
  domain can be created, routed and changed or removed while a pass is running.
- *Log*: three bytes in chunks of any size, two files: a cursor can be before,
  within and past what is there. The viewer begins with up to three bytes of another
  deployment's log.
- *Ports and images* (`HostBound`): two requests meet a trouble or a running image sweep;
  a third and a fourth (a third deployment, a stop beside a cutover) come without
  troubles, the fourth and the third deployment between two sweeps only. Two
  deployments and a cancellation are what a sweep has to go wrong with, three and a
  restart what a port has. The theorems have none of these bounds.
- *Operations of the same second* (`Turns` in `DatabaseBackups`): an operation may enter
  anywhere among those of its second that have not ended; where it stands among ended
  ones decides nothing.

`CHECK_DEADLOCK FALSE` stands where the system really may stop because nothing is
asked of it any more: in `db_life` and `db_ends` (a stopped, deleted or purged
database without requests), `backups`, `gateway` and `platform` (no request left and
the loops have nothing to do). Symmetry is used for workers and deployments in
the runs without liveness properties.

### Fairness and why the code justifies it

- Goroutines are scheduled: a worker's own next step, an accepted request's next
  step, a pass, the sweep and the drain are weakly fair. Their calls to Docker,
  Git, Caddy and the network carry timeouts or cancellable contexts.
- A claim is strongly fair per operation in `OperationQueue`: a restore that is
  deferred stays unavailable for five seconds, while an idle worker claims within
  a poll, so a restore cannot always be first again.
- In `DatabaseInstance` a handler, the loop, the purge loop, a deletion once begun
  and a request once it has read are weakly fair. The loop passes every 30
  seconds, the purge every minute, for as long as the server runs.
- In `DatabaseBackups` a claim of each operation, its retry, its steps, the schedule
  loop, a deletion once begun and the retention loop are weakly fair, and the claim of
  some backup is strongly fair: a restore that stands before its safety backup is
  deferred for `databaseRestoreRetryAfter`, five seconds (`database_operations_handler.go:154`),
  while a worker that is done claims again at once (`workers/claim.go`), so the backup
  behind it gets its turn. In
  `DatabaseGateway` the worker, which polls, and the lapse of a lease, which is time
  passing; in `CredentialRotation` the worker's steps. Nobody has to be fair to the
  engine, the operator or the lifecycle handlers there.
- `systemd` restarts both processes (`Boot`, `CaddyStarts`; in the modules on
  `Environment` a process end and the start after it are one step). Nothing is fair
  about crashes, shutdowns, faults or requests: they may never happen.

## 4. Other disagreements met while modelling

Places where a document or a comment and the code part ways, seen while the
modules were written; no run is kept for them, because each follows from a line
or two once it is pointed at. The models have these behaviours: where a property
would meet one, it names the exception (in parentheses below).

- *Expired leases.* `docs/api-v2.md:86`: "Expired leases atomically requeue the
  operation". No query of the running server reads `lease_expires_at`; a row whose
  completion could not be written stays `running`, and blocks its lock key, until
  the process restarts.
- *Attempts.* `repository/operations.go:467-469`: the counter means "times
  actually started". The drain defers a database operation whose handler has
  started, and gives that attempt back.
- *Killed deploys.* `cmd/server/main.go:282` and `store.go:243-249` say that the
  sweep takes the containers a killed deploy left running. A kill between
  `RunContainer` and `AttachContainer` leaves one without a row, which no query
  selects.
- *Not serving.* `CHANGELOG.md:63-67` says that a container "whose deployment ended
  terminal and is not the one serving" is swept. A kill between the SUCCESS write
  and the activation leaves a SUCCESS deployment that serves nobody; the sweep
  looks at FAILED and CANCELLED ones.
- *Stuck QUEUED.* `deploy_v2.go:174-176`: a deployment is "never left silently
  stuck". When the client hung up, the write that marks it FAILED uses the same
  cancelled context as the enqueue that failed; it stays QUEUED until the next
  start.
- *Enqueued and not read back.* `deploy_v2.go:170-176`: when the enqueue fails the row
  is left "with nothing left to claim it". `EnqueueOperation` commits and then reads the
  operation back (`operations.go:168-184`); when only that read fails, the deployment is
  marked FAILED while its operation is queued. A worker claims it and the FAILED
  deployment builds and succeeds, or reads FAILED while it serves (`mislaid` in
  `OutcomeIsFinal` and `ActiveIsKept`).
- *Who cancelled.* A deploy whose lease renewal failed is marked through
  `CancelDeployment`, whose event says "cancelled by operator"
  (`deployments_v2.go:172`).
- *Manual edits.* `config.go:128-130` and `reconciler.go:28-30` promise that the
  tick heals a manual edit. Every pass with unchanged rows skips on the hash.
- *Unpublished for good.* `CHANGELOG.md:20-23`: a domain that reads `unpublished`
  "converges automatically within one reconcile pass". An update that leaves the
  routes as they are resets `publish_state`, and every later pass skips.
- *Busy databases.* `docs/api-v2.md:38-40`: "Operations sharing a database are
  serialised when they are claimed, so only one ever runs at a time". A handler
  that fails writes its terminal status first and the instance's state after it
  (`database_provision.go:397-406`); the next operation may be claimed in between,
  so two handlers write one instance. `DatabaseInstance` has this interleaving.
- *What a cutover removes.* `deploy.go:441-443`: the container "about to be removed
  after cutover". It is chosen by `deployments.created_at`, in whole seconds
  (`deployments_v2.go:133`), not by `active_deployment_id`: of three deployments made
  within one second, a cutover may tear down an older container and leave the
  replaced one running. `SupersededIsRemoved` is about different seconds.
- *Two requests at once.* `store.go:353-360` publishes the port of a container whose row
  says RUNNING. A stop and a restart (`deploy_v2.go:387-420`) each call Docker and then write the row, without a
  lock: when both are under way for one container the rows may be written in the other order,
  and the domains then lead to a stopped container. `RoutedContainerRuns` is about containers
  that one request was made about (`AskedAlone`).
- *New work for a deleted database.* `database_services.go:1244-1246`:
  `BeginDatabaseServiceDeletion` "atomically prevents new instance work". The loop
  or a failed handler that has read the row before writes `desired_state` back, and
  a request that has read it before commits after; an operation may then run a
  container for a database that is deleted, which blocks its purge.
- *A container nobody recorded.* `docs/api-v2.md:80`: deletion "immediately removes
  owned database containers". A crash or cancel between `RunManagedContainer` and
  the write of its ID (`database_provision.go:557-575`) leaves a container that a
  deletion does not see (`database_lifecycle.go:73-76`); it holds the volume, and the
  purge fails every minute from then on. `DueIsPurged` starts where no container is left.
- *Restoring.* `docs/api-v2.md:80`: a restoration is available within the window.
  Its handler requires the image of the row to be the catalog's
  (`database_provision.go:466`): a server upgraded meanwhile fails it.
- *A commit that is not read back.* `CommitDatabaseInstanceUpgrade` applies its UPDATE
  and then reads the row; when only the read fails, the previous image is put back
  while the row names the new one, and the instance reads `failed` ever after.

*Backups and restores*

- *A destination that moves.* A PATCH of a destination's bucket leaves the objects of
  retained backups in the old one (`Moved` in `SuccessIsStored`).
- *A good backup marked failed.* A process end between `CompleteDatabaseBackup` and the
  end of its operation makes the next attempt mark the row failed and forget its object.
- *A success without an object.* `CompleteDatabaseBackup` commits the success and then
  reads the row back (`database_backups.go:425-432`); when that read fails, or a
  cancellation comes between the two, its caller deletes the object
  (`database_provision.go:1138-1141`) and the row stays a success (`unread` in
  `SuccessIsStored` and `MixedHasSafety`).
- *The order of a second.* `database_backups.go:567-569`: "Sharing a lock_key is what now
  orders the two". A claim goes by priority, `created_at` in whole seconds and a random id
  (`operations.go:288`), and the safety backup and its restore are queued within one
  second (`api_database_backups.go:173-182`). When the restore comes first it is deferred
  until the backup is done; but a process end after the backup was completed queues it
  again behind the restore, which by then overwrites the database, and that turn marks
  the row failed and forgets its key (`Overtaken` in `MixedHasSafety`).
- *Rows that stay running.* When the write of `CompleteDatabaseBackup` is lost, the
  operation ends and the backup row stays `running`: a restore that waits for it as its
  safety backup waits for ever, and neither row nor destination can be deleted. A drain
  (`DeferOperation`) leaves the companion row `running` too and the next attempt is refused;
  the deletion of an instance leaves its backup rows as they are.
- *Checked, then marked.* Deleting a destination counts its backups and then deletes
  it; deleting or purging a backup checks that no restore refers to it and then marks
  it: a policy, a backup or a restore may come in between (`SafetyTaken`). A backup
  queued between the count and the delete loses its destination: its worker goes on with
  what it has opened and records a success whose row names no destination (`Orphaned`).
- *Stopped applications.* A restore that is interrupted after it stopped the bound
  applications and cannot be run again leaves them stopped. One interrupted after it
  started them and before its completion is applied again, over what they have written.
- *A schedule overwritten.* Advancing the schedule writes `next_scheduled_at` over that of a
  policy saved meanwhile.

*Gateways*

- *Two workers.* `HOSTFORGE_DATABASE_GATEWAY_OPERATION_CONCURRENCY` is 1 by default and may
  be up to 4 (`config.go:591-597`), but a claim looks at no other operation of the
  connection (`database_gateways.go:1104-1117`) and no lock keeps two workers apart. A creation
  and an update are queued while the database starts, and then a revocation. One worker
  fails the update, whose end writes `failed` over `revoking`, and runs the creation, which
  completes on a connection that reads `failed`; the other then finalizes its revocation
  and marks every row revoked, the new one too, whose role it has never listed. The
  operation succeeds, and the role may log in and is let in. No call fails on
  the way. `RevokedRowHasNoLogin` and `DenialHolds`
  are therefore stated, checked and proved for one worker.
- *A role that was left, let in again.* The removal of a rotated role is best effort. One
  that is left can log in as soon as a configuration names it, and a database handler
  that rendered before the rotation may put such a one in place after a later disable
  has succeeded; it stays there until the next reload (`leaked`).
- *One failed rotation is the last.* `UNIQUE(connection_id, generation)` and a rollback
  that keeps row N+1 as revoked make every later rotation fail on its INSERT.
- *Revoking twice.* The revoke script fails on a role that is gone: a crash or fault
  between `DROP ROLE` and the finalizing write makes every retry fail.
- *Creations of a deleted database* stay queued for ever and block a change of the
  platform domain (`GatewayQueueDrains` leaves them out).
- *Revoked is not terminal.* `docs/HostForge_Database_Gateway_Architecture.md:280` says so;
  a rotation run again after a revocation writes `active` (`database_gateway_worker.go:243`).
- *Active without a login.* A disable or an expiry that races an update or a rotation
  ends as `active` with roles that may not log in; a failed expiry is not tried again.
- *Interrupted at the end.* A process end after a creation or rotation was committed and
  before its completion fails the connection when it is run again, or leaves one more
  active generation for ever.
- *Late grace.* A configuration rendered after the grace deadline still lets the old
  credential in until its retirement has run.
- *Directories* of generations are never removed, while a teardown resets the counters.

*Credential rotation*

- *Set and not saved.* `docs/database-services-implementation-plan.md:474` lists
  "crash-resumable rotation". For Redis and Valkey, a process end between `CONFIG SET`
  and `CONFIG REWRITE` lets the resumed attempt commit without saving; the next start of the
  container has the old password (`unsaved`).
- *A commit that is not read back.* The UPDATE is applied and the read after it fails:
  the old password goes back into the engine while the store holds the new one (`torn`).

*The control plane's own database*

- *Snapshots that stay running.* A fault or process end between `VACUUM INTO` and the
  completion leaves a row `running`; its file and object are never purged. Every snapshot
  holds its own row as running, so a restored one is never purged either.
- *Purged in name.* The record is deleted although the file or the object could not be.
  Objects stay when the destination has been unset.
- *Another key on an old database.* The first start of a version with the canary seals
  one with whatever key is set, though the secrets there may need another (`adopted`).
- *The restore script's rollback* deletes the `-wal` file that it has just put back.

*Applications and services*

- *Deleted under its deploy.* A service deleted between its container's start and
  `AttachContainer` leaves that container running for good, and one whose row is written
  after the deletion has listed the runtime is not found either (`unlisted`).
- *A row that could not be written.* When `AttachContainer` fails (`deploy.go:368-380`), on a
  write error or on the context of a cancelled deploy, its container runs on, has no row,
  and survives the deletion of its service ("lost" in `DeletedRunsNothing`).
- *Deleted with its parent.* A database service
  created between the type check and the DELETE of its application goes with its row and
  leaves its volume; a failed backup policy deletes the database service whose
  provisioning may have made the volume.
- *Deleted in part.* When a deletion fails on its second container, rows stay RUNNING and
  routed whose containers are gone.
- *A missing binding.* `docs/api-v2.md:26`: "Creating an additional environment also creates
  a binding for every existing service in one transaction". `CreateService` reads the environments outside its transaction; one created in between
  has no binding.

*Logs*

- *The end before the end.* `docs/api-v2.md:106`: the server "catches up any final bytes and
  emits an `end` frame". Text that a failing deploy appends after it wrote FAILED (`services/deploy.go:205-207`)
  may come after it; `due` is the size when the status was written.
- *What the server cannot see.* A file replaced by one at least as long, or missing at
  one tick and back at the next, is read from the old offset (`blind`). An error while
  catching up makes the viewer stop for good.
- *An end that is none.* When the final catch-up fails, the `end` frame carries the offset
  where it began (`deployment_logs_live.go:401`), although chunks may have been sent
  since. The viewer shows "ended" for every `end` frame and puts its cursor there
  (`use-deployment-log-stream.ts:69-72`): what it shows is incomplete and ahead of what it
  would ask for. `LogIsExact` calls such a viewer "broken"; the order of what it
  shows is still right. The `end` frame after a truncation carries the smaller size.
- *The log of another deployment.* The cursor and the text live as long as the hook
  (`use-deployment-log-stream.ts:24-29`), whose effect runs again when the page goes on to
  another deployment. The new log is asked for from the old cursor; if it is as
  long, the two are spliced (`blind`), if not a resync puts it right.

*Ports and images*

- *Two picks.* `docker/ports.go:16-19` promises that deploys "don't reuse a host port that
  another project still owns". Two deploys that pick before either has a row may get the
  same (`rivals`); the second fails to start while the first is running, and its container,
  created and not started, stays behind and pins its image.
- *A removed container that reads RUNNING.* A stop or a restart resolves the active
  container, calls Docker and writes the row, without looking at it again
  (`deploy_v2.go:387-420`). A cutover after the Docker call removes the container and marks its
  row REMOVED; the late write says STOPPED or RUNNING again. The row then reserves
  its port and pins its image for ever, and when another deployment has picked the port
  in between, two rows own it (`revived`).
- *An image between two readings.* `store.go:181-183` calls a deploy's candidate "the race
  a GC must never lose". The sweep reads what to keep and then lists the images
  (`image_gc.go:26-66`): a deployment created after the first and built before the second is on the
  list and not among those to keep. Its image is removed unless a container uses it by
  then, and `RunContainer` fails (`unseen` in `ImageIsKept`).

*Platform domain*

- *A name under the old domain.* `repository/onboarding.go:60-61`: an update "preserves every
  managed share URL label while moving it". One inserted from a domain that was read before (`domains_v2.go:220-248`)
  is not moved, and every later change, and the rollback of the one under way, is refused
  (`overtaken`).
- *Two onboardings.* The completion does not look again whether another has completed
  (`onboarding.go:35`); the store ends with one domain and Caddy with the other (`halfDone`).
- *The status of another name.* A poll writes what it saw for the old name onto the
  renamed row, until the next poll (`late`). A rename leaves `publish_state` as it was.

## 5. What is proved

`OperationQueueProofs` proves for every set of operations, workers, lock keys and
every bound, from `ConstantsAssumption` only:

- `QueueInvariant`: the inductive invariant `QueueInv`;
- `TypeCorrect`, `LockKeyExclusion`, `DeployExclusion`, `QueuedStaysClaimable`,
  `DeployRunsOnce`: state invariants, of which the runs check those that say most;
- `TerminalStays`: the action property `TerminalIsFinal`;
- `QueueImplementsContract`: the queue implements `QueueContract`, under the mapping
  `Contract` of `OperationQueue`.

*The argument.* Lock-key exclusion is not inductive. A database handler reports
progress by writing "running" to its row without looking at it, so the row of a
worker that is still engaged can become running at any time. `QueueInv` therefore
adds that (1) an engaged worker holds its row unless its runtime's deadline has
passed (`EngagedHolds`), (2) no rival of an engaged worker's operation is running
(`EngagedAlone`), and (3) no two engaged workers have operations with one lock
key (`EngagedApart`). A claim preserves them because the claimer finds no running
rival, and by (1) an engaged rival would be running: while anything claims, no
deadline has passed (`Quiet`). Recovery preserves them because nobody is engaged
in a process that is down. That nothing queued is unclaimable, and that a deploy
starts once, rest on the attempt counts (`CountInv`): a claim spends one, a
deferral gives it back, a deploy has one and is failed instead of deferred.
The refinement maps a worker's engagement to `executing` and a terminal status to
`outcome`; every step of the queue is then one of the contract's or a stutter, and the
steps after the drain deadline are why the contract has `overrun`: until the process
ends, a handler that outlives the deadline may have its operation settled over its head.

`DeploymentProofs` proves for every set of deployments and requests, every
priority and every bound, from `DeploymentAssumption` only:

- `DeployInvariant`: the inductive invariant `DeployInv`;
- `DeploymentTypeCorrect`, `ActiveStaysKept`, `CancelledNeverRouted`: what the
  runs check as invariants;
- `OutcomesStayFinal`: the action property `OutcomeIsFinal`.

*The argument.* That the routed container is kept says nothing of who might
remove it next. `DeployInv` adds what the runner will still write about its job
(`RunnerInv`): up to the activation, and on every failure path, the job is not
the active deployment, so whatever the runner marks or removes is not routed to;
from the activation on the job is active and the container it removes belongs to
another deployment, since the previous one was a success when it was chosen and
the job was not. A deployment cannot be executed a second time, because before
its claim it cannot be a success (`FreshInv`), so a claim never takes the active
deployment as its job. The sweep's list never contains the active deployment and
is worked off before anything is claimed (`SweepInv`). Finality needs one fact
more (`FinalInv`): until its drain deadline a handler on its way to cutover works
on a deployment that has not failed, since only its own failure path, a process
start or that deadline would fail it, or the request that could not read its own enqueue
back: `mislaid` is that request's mark, and as long as nothing fails there is none
(`QuietInv`).

`DeploymentCleanupProofs` proves what the deploy path leaves behind, from the same
assumption and on top of `DeployInv`:

- `ResidueIsCleared`, `RoutedStaysRunning`, `SupersededGetsRemoved`: the invariants
  `NoResidue`, `RoutedContainerRuns` and `SupersededIsRemoved`.

*The argument.* One fact covers everything that is still in flight: a deployment that has
succeeded and is past its cutover is *settled*, and no cancellation, completion, recovery
or orphan sweep writes it again, since all of these write live rows only
(`SettledStays`). What a stop or restart request has resolved is settled (`TargetInv`), so
a late row write cannot revive the container of a failed deployment. Then (1) a row that
says RUNNING belongs to a settled deployment, to the handler at work, or to the sweep's
list (`ResidueInv`), because a failure path ends by forgetting the row or began before there
was one (`CleanInv`, `RowInv`). (2) The box of the routed container and that of the attached
candidate are what their row says, or what the one request between its two steps will make
it say (`BoxInv`); a candidate has no request, as it is not settled. (3) When nothing failed,
only an operator's cancellation can cancel the context of a handler (`AskedInv`), and that
one cannot succeed (`FinalInv`): so each cutover activates and tears down. Operations are
claimed in the order of their enqueueing (`OrderInv`, from the priorities being equal and
`Enqueue` ranking last), so the success with the latest `created_at` is the routed one when
a job is loaded, and every other success has lost its container (`LatestInv`).

`CaddyReconcileProofs` proves for every set of domains, names, services, ports
and callers, from `CaddyAssumption`:

- `RouteInvariant`: the inductive invariant `RouteInv`;
- `CaddyTypeCorrect` and `HashStaysApplied`;
- `SettledStaysCurrent` and `PublishedStaysRouted`, which also assume
  `SyncAfterMutate`: with `HOSTFORGE_DOMAIN_SYNC_AFTER_MUTATE` off a change of a domain
  notifies nobody and only the tick brings it to Caddy.

*The argument.* The mutex lets one pass at a time go beyond its reads
(`OnePass`), so the snippet, Caddy and the skip hash follow what that pass has
done (`HashInv`). Work is *owed* from a writer's commit until the loop's next
pass reads the rows: the writer has yet to notify, or the token is in the
channel, or the loop is about to read, or the process is down and will start
with a pass. While nothing is owed, any pass has read the rows as they still are,
and once the loop waits again its last pass has applied and published them
(`CurrentInv`).

`DatabaseInstanceProofs` proves for every set of operations of every kind and every
bound, from `InstanceAssumption`:

- `TypeCorrect`;
- `RetentionInvariant`: the inductive invariant `RetentionInv`;
- `PurgeIsComplete` and `VolumeStaysForRetention`: the invariant and the action
  property of `db_life`. These three also assume `PromptRestore` (section 7).

*The argument.* The purge checks that the deadline has passed and that nothing is
active, and then removes the volume and the records in two more steps. `RetentionInv`
says why the check still holds at the end: a handler between its claim and its
report has a running operation (`Handling`), so none is at work when nothing is
active; nothing can become active, because a request that was under way is through
when the deadline passes (`Requesting`) and none is accepted afterwards; and without
a handler at work no container and no volume come into being (`Purging`).

`DatabaseBackupsProofs` proves for every set of backups, restores and destinations,
every number of workers, attempts, troubles and requests, from `BackupsAssumption`:

- `BackupsInvariant`: the inductive invariant `BackupsInv`;
- `BackupsTyped`, `SuccessStaysStored`, `MixedStaysSafe`: the three invariants of `backups`.

*The argument.* A success is in place because its worker verified the object before it
completed the row, in the destination it had opened at the start (`HoldsWhatItOpened`,
`Uploaded`); meanwhile nobody else moves the row (`RowIsMine`; a worker that completed it and
could not read it back is `Given` its object to erase, and the row is in `unread`), and a
deletion or the retention loop is past its mark only on rows that are no success or have
expired (`RemoverInv`). That a half-written database can be put back is about the order of
the queue. The two operations share a lock key, so of the safety backup and its restore one
runs at a time (`OneAtATime`): while the restore writes, nobody touches the row of its safety
backup. Before that, the restore has read it as a success, and a success is on its way
to an end: its operation has ended, or stands behind the restore (`SafetyOver`, `Overtakes`).
In the first case no worker gets to the row again and the rows a restore refers to are not
deleted (`SafetyKept`); the second is the exception `Overtaken`. Where an operation is
inserted into the line, and that what stands before it goes on standing before it, are the
lemmas under all of this (`InsertedAt`, `Inserted`, `LineKept`).

`DatabaseGatewayProofs` proves from `GatewayAssumption`, for every set of connections
and every bound:

- `GatewayKeepsTypes`, for any number of workers: every variable keeps its type and
  each step of a handler finds in its task what it needs (`TaskFits`);
- `GatewayInvariant`: the inductive invariant `GatewayInv(w)` where `w` is the only worker;
- `RevokedStaysOut` and `DenialStays`, under `OneWorker`: the two safety invariants of
  `gateway`. `OneWorker` is the default of the configuration, and section 4 shows that it
  is needed.

*The argument.* What keeps a client out in the end is its role: a configuration may
always be older than the rows, so the properties do not rest on it. Only two steps let a role
log in, the insertion of a credential and the granting back by an update, an enable, a
creation or a rotation, and these touch no row that was revoked (`Admits`). A denial
lists every role that is not revoked (`Listed`) and has taken the login from all of them
before it writes a configuration (`Silenced`), and what is next to it, requests, lapses,
the database's stop, start and deletion, lets no role in and revokes no row but in a
deletion of the database (lemma `Bystander`). So a denial that ends leaves the
connection quiet (`EndsQuiet`), and it stays so until an operation that can let in has been
at work (`DeniedIsQuiet`). A process end takes the worker's memory away, not its operation:
that is still in the queue, as running (`QueueHasTask`), and will be run again, so the
exception `DenialHolds` makes is just what is left in the queue (`Reopened`). With two
workers `Listed` is what fails: a role may be made after the list was read.

`PlatformProofs` has one section for each of the six models of `platform`, each for every
value of its constants, from the assumption of its module, and puts them together at
the end: `PlatformTyped` is the type invariant of the run, `PlatformSafe` its ten
safety invariants.

*Rotation* (`RotationAssumption`): `RotationInvariant` and `EngineStaysReachable`, for every
number of rotations, attempts and restarts. What the worker knows is what the store held
when it read it, since one
operation of an instance runs at a time: the new password is staged before the engine
is given it, and it is unstaged only after the engine has the old one back. The
invariant says, for each place of the worker, which of the two the engine may have, and
the same for what its next start will accept; the two flags `torn` and `unsaved` are
the ways out that section 4 lists.

*Control plane* (`ControlPlaneAssumption`, `FileAssumption`): `PlaneInvariant`,
`ServerUnderstands` and `SnapshotsStayUsable`. Any copy may become the database again, so
everything the invariant says of the database it says of every copy that is kept (`Kept`):
its secrets are sealed with its canary's key, or it was `adopted`. A start adds to that,
step by step, what it has checked and copied (`BootInv`), and a server that answers
has been through all of them. A snapshot row may be in several databases, with
different statuses; it has the same id and day in each (`RowsInv`), so a row that
one of them calls a success is purged only when it has lapsed for all of them (`UsableInv`), and
the attempt under way is a success in none (`LoopInv`).

*Catalog* (`CatalogAssumption`): `CatalogInvariant` and `DeletionsLeaveNothing`. Rows go last,
so what a deletion has listed decides what is left: at each of its steps, a container
of a service it is done with is on its list or came too late (`DeletionInv`), and one whose
deploy has ended without rows came too late as well (`ContainerInv`), unless its row never
was: it is "lost" from then on, and no deletion counts on it. That a deletion of an application
never reaches a database service is a matter of what the requests hold (`HoldInv`): an id
that a creation is about to insert is no other request's.

*Logs* (`LogsAssumption`): `LogsInvariant` and `LogStaysExact`. The server knows what the viewer
has, because the offset of the session is the viewer's cursor unless it begins again at
zero (`SeenInv`); a log that the host leaves alone only grows (`GrowsInv`), so what was
there when the status became terminal is within what the last read was told to reach.
Cursor and text agree while the viewer is connected or will connect again; when it has
ended, only the text counts, because the end frame may have moved the cursor.

*Host* (`HostAssumption`): `HostInvariant`, `PortsStayDistinct` and `ImagesStayKept`, for
every number of services, deployments, ports and retained images. Each action is shown
once to be a step of four small kinds (`Moves`, `RowMoves`, `ImageMoves`, `SweepMoves`), and
the invariants follow from these. A port is held from the pick on, while no row says
so (`Held`, `HeldApart`); a row gives it up only as REMOVED, and comes back from
that only through a late stop or restart, which `revived` records. A container that is
created or running has its row or its deployment at work (`ContainerRows`). The image
sweep works from what it read long ago, so the invariant (`SweepInv`) says that whatever
it may remove is over for good (`Over`): a deployment that was cancelled or has failed will
start no container, and one that is not among the newest that ever succeeded never is
again. A SUCCESS may become FAILED when its activation fails, so it is the set of all that
ever succeeded (`succeeded`) that only grows, not the number of present ones.

*Domain* (`DomainAssumption`): `DomainInvariant`, `SharesFollow`, `StatusFollows` and
`SnippetFollowsStore`, for every set of zones, services and operators. For each step of a
change, the invariant (`SnippetFollows`) says what the
store and the snippet hold, so that a change that ends, forward or rolled back, ends with
both the same; `OneChange`, which is what `databaseGatewayDomainMu` is for, keeps a
second change from stepping in between.

*Out of the prover's reach*, hence model-checked only: liveness under fairness and
`ENABLED`, and induction over data. No module declares a recursive operator.

## 6. Model-checked only

Every invariant and every action property that a passing run checks is stated by a theorem.
What is left to the runs needs fairness:

- *Liveness*: `EveryOperationEnds`, `DeploymentEnds`, `RoutesConverge`, `StatusConverges`,
  `DueIsPurged`, `GatewayQueueDrains`, `BackupOperationsEnd`, `ExpiredIsRemoved`,
  `RotationResumes`.

What the runs do not reach, and should not be taken for granted:

- `queue_database`, the run of `EveryOperationEnds`, has no failed write.
- `DeploymentEnds` says nothing once a call has failed: a client that hung up and a
  second write that failed are met as a crash at the same place.
- `StatusConverges` is checked without process ends; what they leave is met as a
  cancellation, which stops a handler at the same places.
- `VolumeOutlivesRetention` and `PurgedLeavesNothing` assume `PromptRestore` (section 7).
- `RevokedRowHasNoLogin` and `DenialHolds` are about one gateway worker.
- The exceptions that properties name (`rivals`, `revived`, `unseen`, `unlisted`, "lost",
  `overtaken`, `late`, `adopted`, `unread`, `Overtaken`, `mislaid`, `blind`, `leaked`, `torn`,
  `unsaved`) are what the code does wrong already: a change that makes one of them more
  frequent breaks nothing here. `adopted` is excused even when the key is the right one.

## 7. Abstractions

- *Time*: leases of the operations queue are not timed. `lease_expires_at` is read by no
  query of the running server (section 4), so nothing depends on its value; those of the
  gateway's queue are, and may lapse at any moment. A drain deadline, a poll and a tick
  may happen at any moment their guard allows.
- *Contexts*: a cancelled context makes the next store write or Docker call fail,
  unless the code detaches it. A context may also be cancelled by a failed lease
  renewal.
- *Errors*: whatever the code treats alike is one outcome. Errors that are only
  logged leave the state as it is and the control where the code goes next. A call that
  fails may have taken effect where its answer can be lost.
- *Reading back*: store functions that commit and then read the row back may fail
  after the commit; where the caller acts on it the model has both (`EnqueueUnread`,
  `CompletedUnread`, `torn`, the upgrade's commit).
- *Docker*: a container is absent, running, stopped or removed; a call has its
  effect or fails, and a failed start may leave a stopped container.
- *S3*: an object is there or not, in the bucket its destination named at the time; an
  upload that fails may have stored it.
- *Retention*: the deadline of a deleted database is seven days after its deletion.
  It passes when no handler, no pass and no request is between two of its steps,
  but for a restoration that has read the row just before the deadline.
  `PromptRestore` assumes that this one is committed before the purge loop gets
  there; the code checks the deadline in the transaction but on values read
  outside of it (`database_services.go:1360-1377`).
- *Database images*: two, the previous and the next pin of the catalog; volumes are
  absent, empty or with data.
- *Backups*: encryption and compression are a stream that completes or fails, cron
  arithmetic a policy that becomes due, the transfer budget a request that may be refused.
- *Gateway*: a rendered configuration is the set of credentials it lets in; DNS and TLS
  waits are calls that fail.
- *Contents* of a database are whole or half overwritten; which backup they are of, and
  what the applications have written since, is not kept.
- *Probes of an engine*: `Accepted` says whether a password is accepted. For Redis and
  Valkey the code judges by the exit code of `redis-cli ping`
  (`database_engines.go:177-182, 269-281`), which may be 0 for an error reply; the model
  has the probe as it is meant.
- *The viewer's text* stays below the 1,000,000 characters of which it keeps the last
  (`use-deployment-log-stream.ts:64`).
- *Completing a gateway operation*: `EndOperation` takes effect at its first try. In the code
  it can fail (`database_gateway_worker.go:253-257`), which leaves the operation to the lapse of its lease.
- *Passwords* are numbers in the order they are made; a sealed value is the key that
  sealed it.
- *Configurations* of Caddy are the set of routes they contain, which is what
  their hash tells apart.
- *Domains*: a managed name is its zone, because its label never changes; zones do not
  contain each other.

## 8. Plan

The core was built first, since every other part runs on it: the queue, the deployments
it executes, the routes they end in; then the databases, then what acts on them (backups,
gateways, credentials), then the smaller parts and the contract of the queue. What is
left, in order of importance:

1. `Deployment`'s runner as an implementation of `QueueContract` for one lock key, which
   would replace the sentence in section 2 by a checked step.
2. What remains true of the gateway with two workers (today only its types), as a weaker
   contract that the runs and a theorem share.
3. `DatabaseInstance` with bindings and consumers around an upgrade, and with a container
   without a recorded ID taken over by its name.
4. The certificate-only site of the gateway in `CaddyReconcile`.

## 9. Not modelled

- *Authentication and rate limits*: cryptography, and a fixed window under one mutex that no
  other part reads.
- *Git, the GitHub App, DNS, builders*: network clients and subprocesses; a deploy sees them
  as a step that fails, ends or is cancelled, and that is how they are in the models.
- *Observability, metrics, host status*: append-only records and samples no decision reads.
- *Parsing and validation* (webhook payloads, domain names, configuration, certificates):
  pure functions of one call.
- *Rendering* (UI, Caddyfile and PgBouncer text, log formats other than JSON).
- In the modelled parts: renames and PATCHes of single rows, service configuration, the
  raw log format and container logs, the wizard's checks of the host, the deletion of
  several instances of one database service, and the ring buffers, resource limits and
  stream handling of the Docker client.
