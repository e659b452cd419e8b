# A TLA+ model of infra-shelf

infra-shelf provisions databases, queues and buckets for apps inside shared
Docker services, keeps what it gave out in a registry file, and backs it up,
by hand or on schedules. This directory holds TLA+ modules of its core, TLC
configurations that check them on small instances, and proofs checked by TLAPS
for every value of the constants. `PROJECT.json` lists the runs, the lines of
source each definition stands for, the known hazards and the theorems.

## The system

| Component | Source (`src/`) | State | Operations |
| --- | --- | --- | --- |
| Provisioning engine | `internal/shelfcore/{setup,add,remove,detach,reconcile,services}.go` | the copy of the registry an operation loaded | SetupApp, AddServices, RemoveApp, DetachServices, Reconcile |
| Service packages | `internal/services/*` | accounts and data in postgres, redis, rabbitmq, aistor, mongodb | Provision, Ensure, Teardown (and Backup, Restore) through `docker exec` |
| Registry file | `internal/registry/{registry,store_save}.go` | `apps.json`, `apps.json.tmp`, the secret of a process | Load, Save, EncryptInPlace |
| Scheduler | `internal/web/scheduler`, `cmd/shelf-web/main.go` | SQLite tables `schedules` and `backup_runs`; the cron table, `entries`, `entryLock` | create, enable, pause, delete, Reload, run now, runSchedule, boot, stop |
| Web handlers | `internal/web/server/server.go` | the request's context | the requests that call the above |
| Command line | `internal/cli` | none | the same engine and the same tables from another process |
| Backups | `internal/backup`, `internal/shelfcore/{backup,restore}.go`, `internal/web/backupservice`, `internal/s3backup` | files under `backups/<app>/`, objects in a bucket | BackupApp, Prune, Delete, upload, RestoreApp |
| Names and parsing | `internal/envspec`, `ParseServices` | what an entry keeps of them | expansion of `--envs`, parsing of `--services` |
| The rest | `internal/{config,docker,output,passwordgen}`, `internal/web/{auth,runlog}` | none | environment, `docker` processes, text |

How they interact. Every command of the CLI, every request of the web app and
the reconcile container of `docker-compose.yml` constructs an `Engine` of its
own over the same `apps.json`; no lock is shared. An operation loads the whole
registry, spends seconds in `docker exec` commands, and saves the whole copy.
The web process and `shelf schedule` share an SQLite file; only the web process
has a cron table, which it rebuilds in `Reload` after a change of its own.

What is hard in this code, and what the properties are about:

* two operations over the registry at once (a lost update, a stale check, an
  Ensure with a credential that has been replaced);
* a sequence of non-atomic commands that fails or is killed in the middle, and
  what the next operation makes of the leftovers;
* redis, whose accounts live in memory until `ACL SAVE`, and volumes that are
  lost and must come back from the registry;
* writing one file through a temporary name every writer shares, under a secret
  that some processes do not have;
* backups that write, upload, list and prune the same files at the same time,
  fail service by service, and leave partial files when they are killed;
* restores of such files over live data, item by item, next to writes, other
  restores and removals, and planned twice around a prompt;
* two scripts in the aistor container that stage every app's objects in one
  directory each, and go on when the docker client that started them is killed;
* names joined as `<app>-<env>`, which two different requests may both mean;
* requests, reloads, cron ticks, runs, timeouts, stops and kills of the web
  process against two tables that another process changes as well.

What makes each component correct:

* engine and services: what the registry lists works; success means delivered;
  nothing is left of an app that nobody was told of; one operation changes one
  app's entry;
* registry file: a reader finds a whole registry, what was saved stays, an
  encrypted registry stays encrypted;
* scheduler: cron runs what the table says, the map of entries matches cron,
  what is paused does not fire, a run of a schedule ends and keeps its result;
* backups: what lies on disk is whole, retention never takes the last backup
  and meets its quota, the bucket follows the directory;
* restore: a reported success has the effect of one step, credentials keep
  working, nothing comes back for an app that was removed, and what is restored
  is what was shown but for what changed meanwhile;
* aistor's scripts: an archive is the bucket and the bucket is the archive,
  whatever earlier scripts left behind;
* names: an app keeps reporting under the service and environment of its setup.

## Modules

    ServiceCommands,
    AtomicShelf      <--  Provisioning  <--  MCProvisioning
                                        <--  ProvisioningProofs
                                        <--  ProvisioningSafetyProofs
    AtomicRegistry   <--  RegistryFile  <--  MCRegistryFile
                                        <--  RegistryFileProofs
                          Scheduler     <--  MCScheduler
                                        <--  SchedulerProofs
                          BackupStore   <--  MCBackupStore
                                        <--  BackupStoreProofs
                          Restore       <--  MCRestore
                                        <--  RestoreProofs
                          AistorStaging <--  MCAistorStaging
                                        <--  AistorStagingProofs
                          Targets       <--  MCTargets
                                        <--  TargetsProofs

**ServiceCommands** has no variables: for each service package the list of
commands of Provision, Ensure and Teardown, whether the service accepts a
command, what the command does to the app's part of the service, and whether a
secret opens that part. The part is a record: `store` (the database, vhost or
bucket exists), `secrets` (what the account accepts; empty: no account),
`granted`. Secrets are the number of the request that drew them. What
postgres, redis, rabbitmq, mc and mongosh do is not under `src/`; it is
modelled from what the code in `src/` relies on and marked external.

**Provisioning** is the engine with its clients. `op[c]` is the client's stack
frame: the copy of the registry it loaded (`loaded`), the targets and services
it has left, the entry it is building, the next command. Loading, each command,
each save and the return are steps, so clients interleave at every `docker
exec`; what the code does in its own memory between two commands (choosing the
next service or target, `setServiceConfig`) belongs to the step before.
`BeginSetup`..`BeginEncrypt` are the entries of the operations with their checks
on the loaded copy; `CheckContainers` is `containerCheck`; `ExecOk` and
`ExecFails` are one `docker exec`, which may be refused by the service or fail
before or after it took effect; `AfterFailure` goes on where a package discards
the failure (`Discards`, of the commands in `BestEffort`), `AfterService` says
whether the operation does; `Save` replaces the registry by `Saved(o)`. `Crash`
kills a client, `Wipe` loses a volume, `RestartRedis` drops what was not saved to
`users.acl`. A mongosh script is one command but for that of Teardown, whose
`try{dropUser}catch` goes on to `dropDatabase` when the user stays: `dropUser` is
a command of its own there, in `BestEffort`. `Heeded` are the services whose
Teardown discards nothing, or all when nothing may fail. A command that reports
no error is taken to have had its effect; for `redis-cli`, which exits 0 on an
error reply, that assumes that redis answers `ACL` and `EVAL` without one.

History, not in the program: `damaged` (what was destroyed from outside or torn
at by a removal that never reached its save, and not ensured since), `noticed`
(where something is left of which an error was reported, or whose operation was
killed, could not save or met a restart of redis; a removal that begins settles
what it goes over), `quiet` (nothing was lost since the load) and the request
kept by a finished operation.

**AtomicShelf** is what the engine promises whoever runs one command at a time,
without its commands and its leftovers: of each app and service only whether it
is registered (`off` if not) and whether the credential handed out works, was
closed by the removal under way, or is damaged. `Provide` is the save of a setup
or add, `Detach` that of a detachment; a removal is `Depart`, a `Close` for each
credential that stops working, and `Forget`, or `Stay` when it ends before its
save; `Repair` is what a reconcile does to one credential, `Lose` and `Reload`
are a lost volume and a restart of redis. `Condition` in Provisioning reads it
off the registry, the services and `damaged`; `ShelfSpec` is the refinement.
`Provide` may deliver a damaged credential only where volumes may be lost, and
only services that read their accounts from a file (`Reloaded`) have `Reload`.

**RegistryFile** looks inside the save. `apps` and `tmp` are the inodes the two
names point to, `bytes` their contents; `Open` truncates, `Write` writes over
what is there, `Rename` moves whatever the `.tmp` name points to by then. A
registry is the set of changes made to it, in clear or under a key. `Loadable`
is `loadData`: a missing file is an empty registry, a torn one or one under
another key is an error. **AtomicRegistry** is what the engine assumes, a
registry loaded and saved in one step; `AtomicSpec` is the refinement, `Stored`
the registry the file stands for. `used`, `saved` and `rekeyed` are history.

**Scheduler** has the two tables, the cron table, `Manager.entries` and its
lock, the requests that change a schedule and reload (`WebChange`,
`ReloadRemove`, `ReloadList`, `ReloadFails`, `ReloadInstall`,
`CreateCancelled`), the command line (`CliChange`), and the runs: `Fire`
(cron with `SkipIfStillRunning`), `RunNow`, `ManualBackup`, `GetSchedule`,
`StartRun`, `Backup`, `FinishRun`, `MarkScheduleRun`, one step per statement.
`Expire` ends the context a run uses for its last statements; `Boot`,
`Shutdown`, `StopCron`, `Exit` and `Crash` are the process. Ids of schedules and
runs are drawn once, so their sets bound the rows. History: `stale`, the
schedules that the command line changed or a cancelled request created and
nothing has listed since; `emptied`, that a start, a stop or a failed reload has
emptied cron and nothing has filled it since; `abandoned`, the rows whose run was
killed, or whose context ended before `FinishRun`. TLC finds a violation of
`CronFollowsTable`, and of `PausedDoesNotFire`, without any one of its exceptions.

**BackupStore** has the backups directory (`local`: body, modification time and
open writers of each name), the bucket (`remote`) and the jobs. A scheduled run
is `BeginBackup`, then per app `NextApp` or `AppFails`, per service `Skip`,
`Open` and `Close`, or `DumpFails`; then `AfterBackup`: uploads (`OpenUpload`,
`Put`), `Prune` (the listing), `Remove` per file, `Unmirror` per object. A
backup from the web stops before `Prune`, one from the command line before the
uploads. `BeginSync` is the page's "upload all"; `DeleteByHand` the page's and
the command line's deletion. A name is app, service and second, so two backups
of one second share a file; `Opened` and `Closed` say what becomes of it, and a
file removed under its writer stays removed. Modification times are in seconds:
`Newest` and `TooOld` leave open what fractions of a second decide. `incidents`
is history: the kinds of event that the code does not make good. Each property
names those it does not survive. None of the exceptions is idle: with any one
of them left out TLC finds the property violated (with two incidents allowed
for `clash` in `OnDiskWhole` and `MirrorComplete`, which takes overlapping
backups as well).

| Incident | What happened | Breaks |
| --- | --- | --- |
| `kill` | a process was killed while it wrote a file | `OnDiskWhole`, `LastBackupStays` |
| `clash` | two backups of an app in one second | `OnDiskWhole`, `MirrorComplete`, `MirrorFollows`, `LastBackupStays` |
| `overlap` | two backups under way together | `QuotaMet`, `LastBackupStays`, `MirrorFollows` |
| `mix` | "upload all" or a deletion next to another job | `MirrorComplete`, `MirrorFollows` |
| `delete` | a deletion by hand on the web page | `LastBackupStays` |
| `stray delete` | one from the command line, which knows no bucket, or next to a job | `LastBackupStays`, `MirrorFollows` |
| `unmirrored` | a failed or untried remote deletion | `MirrorFollows` |

**Restore** has the registry (app, service, the secret of its setup), what each
service holds of each app (`live`: the store, the account's secret, the items),
the backup files and the restores. An item is a table, key, definition,
collection or object, its value the number of times each version was written to
it, so that a list restored twice shows. `ShowPlan` is the command line's `PlanRestore`,
`Confirm` the answer to its prompt and the plan `RestoreApp` computes again,
`OpenFile` the next service, `RestoreFromFile` the page's restore and `--file`.
Then the commands, one item a step: `MakeBucket`, `Drop` (`--clean`, `--drop`),
`Fill` (`Dropped` and `Filled` say what each service's commands make of an item
that is there), `Import` (rabbitmq's definitions, which hold the user too). psql
goes on after a statement the server refuses and `redis-cli` exits 0 on an error
reply, so an item of theirs may come out as it was, and a table that was dropped
may stay away; the other clients fail, and so does the restore. They end in
`Succeeds`, which knows what half a file is to each service, or in
`RestoreFails`; `Continue` takes the next service. Around them apps are set up
and removed, reconciled and written to, and backups run, fail, are killed and
deleted, each one step (Provisioning and BackupStore take them apart). History:
`quiet` and `before` (nobody else touched the data since the file was opened,
and what it was then), `stale` (apps whose account of an earlier life was
imported), `revived` (what was removed under a restore, or restored while it
was not registered) and `since`. Each exception the properties make for these is needed:
without it TLC finds a violation (the one for an app set up again during the
prompt, in `PlanKept`, with one more tick of the clock).

**AistorStaging** is the shell script of aistor's Backup and Restore, one step
per command and per object copied, archived or removed. `dir` has the two
directories every script of a kind shares. `&&` is `FailsEarly` (the list stops,
the last `rm` runs); `Abandons` is `set -e`, which ends the script when the last
command of the list or the last `rm` fails. `ClientKilled` is the end of the
docker client, at its deadline or with its process: the script goes on.
History: `calm` (no other script of the kind and no other write to the bucket
since the script began, and its client is alive) and `strewn` (the kinds of
which a script ended without its last `rm`).

**Targets** is `envspec` and what the registry keeps of it. A request's options
are those the parsers of the command line (`CommandLine`) or of the form
(`Form`) accept; `SetupTargets` and `AddTargets` expand them; `Setup`, `Add`,
`Detach` and `RemoveApp` change the entries, and a save that fails leaves some
of the targets saved. `Join` is any function with `JoinAssumption`: siblings of
one app are distinct, those of two apps may be the same. `origin` and `attach`
are history.

Definitions marked "mutant" in the modules are variants with a plausible bug;
nothing in the specifications uses them.

## Runs

| Run | Instance | Shows |
| --- | --- | --- |
| `failures` | 1 client, 2 apps, postgres and mongodb, 2 generating requests, every failure and kill | `RegisteredUsable`, `SetupDelivers`, `LeaksAreNoticed`, `OnlyTargetChanges`, `SetupNeverReplaces`, refinement of `AtomicShelf` |
| `volume_loss` | 1 client, 1 app, redis, rabbitmq, mongodb, 2 requests, failures, kills, wipes, redis restarts | `RegisteredUsable`, `ReconcileRestores`, `LeaksAreNoticed`, refinement of `AtomicShelf` |
| `orderly` | 1 client, 2 apps, six services, nothing fails | `NoOrphans`, `RemoveCleans`, refinement of `AtomicShelf` |
| `concurrent_setups` | 2 clients, 1 app, redis and rabbitmq, 3 requests, failures and kills, no removal | `ConcurrentSetupsUsable` |
| `registry_serial` | 2 clients with any secrets, 3 changes, one operation at a time, failures, kills, changes of the secret | `NeverTorn`, `SavedStays`, `KeyStays`, refinement of `AtomicRegistry` |
| `schedules` | 1 schedule, 2 requests, 2 runs at once, command line, cancelled requests, timeouts, deletions, stops, kills | `CronFollowsTable`, `RunningIsOwned`, `LastStatusIsOfARun`, `HistoryIsFinal`, `PausedDoesNotFire` |
| `scheduler_live` | 2 requests, 2 schedules, 1 run, cancelled requests, failed reloads, timeouts, fair goroutines, no command line | `EveryRunEnds`, `WebChangeTakesEffect` |
| `backups` | 2 jobs of any kind, 1 service, 3 seconds, days of 2, keep the last one or one day, failures, kills, 1 kind of incident | `OnDiskWhole`, `QuotaMet`, `LastBackupStays`, `MirrorComplete`, `MirrorFollows` |
| `restore` | 2 apps with postgres, redis, aistor, or rabbitmq and mongodb, 2 items, 4 ticks, 2 restores | `RestoreDelivers`, `HalfIsNoSuccess`, `RegisteredUsable`, `NothingAfterRemoval`, `PlanKept` |
| `staging` | 2 scripts, 2 apps, 1 object, failures, killed clients | `BackupComplete`, `RestoreExact`, `CleanedUp` |
| `targets` | 2 apps and 2 environments whose names collide, lists of up to 2 parts, 2 defaults | `ReattachKeeps`, `SiblingsApart` |

`TypeOK` of every module is proved for any values of the constants, so no run
repeats it. `PlanKept` is an action property, about the step `Confirm`: what it
compares, the registry and the files at that moment, may change before the first
file is restored.

One run, `registry_torn`, shows where the code departs from its comment that
writes are atomic: with two writers at once `NeverTorn` fails, because all of
them share one `.tmp` name. More departures are in the models and can be seen
by changing a constant, without a run of their own:

* `NoOrphans` with two clients (docs/ARCHITECTURE.md:78 calls the registry the
  source of truth): the later save of two overlapping setups drops the other's app.
* `RemoveCleans` and `LeaksAreNoticed` leave out rabbitmq, aistor and mongodb
  where commands may fail: their Teardowns discard the error of `delete_user`, of
  each mc command and of `dropUser`, and report success (remove.go:16 says that
  teardown errors are reported).
* `RemoveCleans` speaks of the services the removed entry lists. What a failed
  setup left in another service stays (remove.go:13-18 leaves it to be cleaned up
  by hand); `LeaksAreNoticed` says that somebody was told of it.
* `SetupDelivers` speaks of the engine's `TargetResult`. The web page that creates
  an app drops it and says "app provisioned" (server.go:228-243).
* BackupStore: docs/BACKUPS.md:46 has retention run after a successful backup;
  a run in which every service failed counts as one, and prunes.
* AistorStaging: "the /tmp directory is always cleaned up, even on failure"
  (aistor.go:218) fails without the exception for `strewn`: `set -e` ends the
  script when `tar`, or the restoring `mirror`, fails.
* Restore: psql runs without `ON_ERROR_STOP`, so half a file is reported as
  restored, and so is a whole one of which statements failed; `redis-cli` without
  `-e` reports no error reply either. `HalfIsNoSuccess` leaves postgres out for
  that reason, and `RestoreDelivers` only bounds what an item can be then. What the
  prompt shows and what is restored are two plans: `PlanKept` says how far they
  may differ.
* Targets: an app named like a sibling, set up without `--envs`, may report as
  that sibling, and `shelf add --envs` of another app renames what a colliding
  name reports as; `SiblingsApart` and `ReattachKeeps` leave these out.

* `SetupNeverReplaces` fails with two clients as `NoOrphans` does: both setups of
  an app pass the fail-fast check on a copy that the other makes stale.
* Scheduler: `shelf schedule pause` changes the row, which the running web
  process does not look at until it reloads, so that schedule goes on firing
  (`stale` in `PausedDoesNotFire`). After a reload that failed nothing fires until
  the next (`emptied`). A row whose run was killed or whose context ended says
  "running" for ever (`abandoned`). Two runs of one schedule may be under way
  after a reload or with run now: `SkipIfStillRunning` knows one cron entry.

### Bounds, and why they are enough

* `MaxRequests` bounds the requests that draw secrets (setup, add). Two let an
  app be set up, extended by the second, removed and set up again after a
  failure, or a leftover of a failed request meet a setup or an add; three, where
  two clients race, let both generate a secret after a request that is over.
  Removals, detachments and reconciles are not bounded.
* One client in the runs about failures: those properties say what a user who
  runs one command at a time can rely on. `concurrent_setups` has two,
  enough for every stale read, since a stale copy is stale by one other operation.
* Apps: two where saves of the whole registry could disturb another entry, one
  where the property is about one entry. Services: those whose commands differ
  in the way the property asks about; `orderly` has all six.
* `Changes` bounds the saves of RegistryFile: three in a row let an update
  follow a saved one and a lost one. Four inodes are one more than two open
  files and two names can hold at once.
* Schedules: cron, the map and the history treat each schedule apart, so one
  does in `schedules`; `scheduler_live` has two, for the lists that a reload
  installs as a whole.
* `Runs`, `Jobs`, `EntryIds`: two runs are enough for overlap and for a later
  run to meet an earlier one's row; entry ids are reused once they are in
  neither the cron table nor a job, so they do not bound the reloads.
* `concurrent_setups` leaves aistor out: `mc admin user add` replaces the secret
  of a concurrent setup, which makes the property false there.
* Backups: three seconds give three generations of a service's file, one more
  than the quota of one and its predecessor; ticks happen within a day, with
  jobs under way, and the day changes between jobs, since a scheduled run has a
  deadline of 30 minutes. `MaxIncidents` bounds the kinds of incident in a
  behaviour, not how often they happen. One service is enough for properties of
  one service's files.
* Restore: the clock numbers secrets, versions and backups. Four ticks are a
  setup, a write, a backup and one more event of these, or two lives of an app
  with a backup of each; `MaxRestores` two lets a restore meet the leftovers of one that
  failed, or run beside it. Two items let a restore stop between them; in redis
  one is a set, the other a list, the two types to which a restore adds. Apps
  that are registered together have the same services.
* Staging: two scripts are the pair that disturb each other, and a third finds
  what they left, since a slot is used again without bound. One object is enough
  to be missing, left over or taken away; that more change nothing is not
  assumed but proved.
* Targets: two stems and two environments are the smallest pair of apps with a
  common sibling. `MaxApps` bounds the apps registered when a setup begins; with
  the two siblings of a setup that makes up to four.

### Fairness

Only `scheduler_live` uses it. A goroutine that can take a step takes it: weak
fairness of each run's statements (`Query`) and each request's, which SQLite
carries out or refuses. The backup of a schedule ends because its context has a
deadline of 30 minutes (manager.go:150 and 162), at which `exec.CommandContext`
kills what it runs. A manual backup runs under its request's context, which has
no deadline (server.go:625), so nothing is assumed of it, and `EveryRunEnds` says
nothing of it. `ReloadRemove` waits for a mutex other requests may take again and
again; Go's mutex hands itself to a waiter that starves, hence strong fairness.
Nothing is assumed of users, cron ticks, kills or restarts.

## Theorems

`RegistryFileProofs`, for any sets of clients, changes, files and secrets:

* `FileTypeOK`: `TypeOK`, with writers in any interleaving.
* `SerialNeverTorn`, `SerialSavedStays`, `SerialImplementsAtomic`: assuming
  `Serial` (one operation at a time), the two invariants and the refinement.
  `NeverTorn` is not inductive: that the file `Rename` installs is whole needs
  that it is the operation's own file and was written (`Written`), that it is
  not the registry itself (`Apart`), and that no other operation is under way
  (`Alone`); that nothing saved is lost needs that what an operation will save
  is what is stored plus its change (`Current`). `SerialInv` is their
  conjunction, preserved by each action (`SerialNext`).
* `SerialKeyStays`: also assuming `Serial`, `KeyStays`, from `SerialInv` and
  `KeyInv` (until a secret changes, an operation's payload has its client's
  secret, and a registry it loaded has no other).

Without `Serial` the theorems would be false: `registry_torn` shows it.

`ProvisioningProofs`, for any sets of apps, clients and kinds of requests and
any services of the catalog:

* `ProvisioningTypeOK`: `TypeOK`, under every interleaving, failure, kill and
  loss. `TypeOK` is not inductive: an operation reads the entry of its target
  and the next command of a list, so `WellFormed` adds that a target which
  needs an entry has one in the loaded copy, and keeps it over the saves of the
  earlier targets, that `step` stays within the commands, and, since `ACL SAVE`
  reads the redis part of every app, that only redis has that command.

`ProvisioningSafetyProofs`, for any apps, services of the catalog and number of
requests, states every property of the four runs of Provisioning. All but one
assume `OneClient`, a single client that runs one operation after the other;
operations may still fail, be killed or meet a loss, wherever the list below
does not say otherwise. With two clients the first two are false: a save writes
the whole copy, stale entries included.

* `SerialOnlyTargetChanges`, `SerialSetupNeverReplaces`: a step changes only
  the entry of its target, and a setup replaces no entry, because the copy an
  operation works on is the registry at every step, and what it has still to
  provision is not listed (`Course`, in `CourseAlways`).
* `SerialRegisteredUsable`: `RegisteredUsable` is not inductive, since it says
  nothing of an operation between two commands. `Steady` does: what is listed
  works and survives a restart of redis, or is damaged, or a removal has come
  to it (`Kept`); what the operation has entered works, and the commands of the
  service at hand have had their effect so far (`OnTrack`).
* `SerialSetupDelivers`, `SerialReconcileRestores`: success at the end of a list
  means that nothing on the way was skipped, so `Delivering` and `Ensured` say
  what has been registered or ensured of the services already passed; that
  the credentials work comes from `Steady`.
* `SerialRemoveCleans`: `Cleared` says that each listed service of the removed
  app is still to come, or is blank; `HalfTorn` what the commands of the Teardown
  at hand have done; `Shapes` that no grant outlives its account. Of the services
  in `Heeded` only, and of a removal during which nothing was lost: a restart of
  redis between `ACL DELUSER` and `ACL SAVE` brings the account back.
* `SerialNoOrphans`: what exists is listed or being provisioned (`Tidy`). It
  also assumes `Faultless` (no failure, kill or loss), as the run `orderly` does:
  what a failed setup has created is not removed by the code. No refusal may
  happen either, which is proved: a Provision finds nothing of its own
  (`Fresh`), and a removal is refused only commands whose failure it may discard.
* `SerialImplementsShelf`: every step of the engine is a step of `AtomicShelf` or
  leaves the shelf as it is (`ShelfNext`, with one lemma per action). `Steady`
  gives that what is closed belongs to the removal under way (`ClosedLeaves`)
  and that a save delivers nothing closed; a command of a Teardown gives no
  account back (`TearingWeakens`), one of an Ensure takes none away. Two facts are
  new (`Fits`): what a redis account accepts of the registry and of the entry
  under construction is on file even when the credential is damaged, or a
  restart could break what works; and where nothing is lost no service that has
  just been provisioned is damaged, or a setup could deliver something broken.
* `ConcurrentCredentialsWork` has any number of clients and states
  `ConcurrentSetupsUsable`. Every secret in the registry, in a copy of it or in an
  entry under construction works (`Safeties`), since commands only add to what is
  there (`Grows`) and no account but that of redis ever has two secrets
  (`Single`). It assumes `NothingTaken`, no removal and no loss, and says
  nothing of aistor, where a setup replaces the secret of another.

`AistorStagingProofs`, for any apps, objects and number of scripts:

* `StagingTypeOK`, `StagingBackupComplete`, `StagingRestoreExact`,
  `StagingCleanedUp`. The three properties speak of a script that has ended; the
  invariant `Inv` says of one at work how far it is. A calm script is the only
  one of its kind (`Alone`), and its progress can be read off the directory, the
  bucket and the archive: what `rm` has left, that what was mirrored is what
  the bucket holds of the objects already passed, what is archived or pushed so
  far. Each action's step shows that it moves its own script on and disturbs no
  calm one (`StagingInductive`).

`TargetsProofs`, for any names, environments and any `Join` with
`JoinAssumption`:

* `TargetsTypeOK`, `TargetsReattachKeeps`, `TargetsSiblingsApart`. The properties
  are about what is attached; `IInv` adds that an entry with nothing attached
  remembers its setup: the environment, and the service if it differs from the
  name, and that an expanded app's name is the join of the two. That two
  siblings report apart follows from `Join` being a function.

`SchedulerProofs`, for any schedules, requests, runs and entry ids, with kills,
stops, cancelled contexts and the command line, and with every ordering of the
statements of goroutines:

* `SchedulerTypeOK`, `SchedulerCronFollowsTable`, `SchedulerRunningIsOwned`,
  `SchedulerLastStatusIsOfARun`, `SchedulerHistoryIsFinal`,
  `SchedulerPausedDoesNotFire`: every safety property of the two runs.
* `CronFollowsTable` says nothing of the time when a reload is between its
  statements, so its invariant has to (`Follows`, `SchedulerFollows`): of each row
  that is not stale, unless some request is about to remove and list, cron runs it
  only if it is due, misses it only while a reload is at work or cron was emptied,
  and what a reload has listed agrees with the row. That needs that the map holds
  exactly the entries of the cron table, that a request between remove and install
  holds the lock, and that cron is empty then (`Manager`). `PausedDoesNotFire`
  follows, since a tick starts a run only of a schedule that is in the table.
* `RunningIsOwned` needs that two jobs never share a row (`OwnRow`), and
  `LastStatusIsOfARun` that a job at `MarkScheduleRun` has finished its row
  (`RowOfJob`) and works for a schedule that was created (`WorksCreated`,
  `ReloadsCreated`).

`BackupStoreProofs`, for any apps, services, jobs, names and retentions, any
clock and any number of incidents:

* `BackupTypeOK`, `BackupOnDiskWhole`, `BackupQuotaMet`, `BackupMirrorComplete`,
  `BackupMirrorFollows`, `BackupLastBackupStays`: every property of the run,
  from one inductive invariant, `Keeping` (`BackupInvariant`), each part of which
  excuses only the incidents it does not survive.
* A half-written file has a living writer (`Bodies`), a writer is a job at that
  statement (`WritersWrite`), and a name that did not clash belongs to one
  backup and does not come back once dropped (`Names`). Which jobs can be under
  way together without `overlap`, `mix` or `stray delete` is `Company`.
* The quota and the last backup are decided when the files are listed and met
  when they are gone, so `Quota` counts what remains once the doomed files are
  removed, and `Spared` names a whole file of the group that is not doomed.
  Both rest on what `Prune` takes: `PruneTakes` and the lemmas on finite sets.
* `Mirrored` says which of a run's files are whole in the bucket at each of its
  statements, `Following` that what the directory has lost is gone from the
  bucket or on some job's list.

`RestoreProofs`, for any apps, services, items, workers and length of history,
with any setups, removals, writes, backups and deletions around the restores:

* `RestoreTypeOK`, `RestoreRestoreDelivers`, `RestoreHalfIsNoSuccess`,
  `RestoreRegisteredUsable`, `RestoreNothingAfterRemoval`, `RestorePlanKept`:
  every property of the run, from `Restoring` (`RestoreInvariant`).
* What a restore promises is about its end, while it works item by item:
  `Courses` says of each restore what it has done so far, for dropped, filled
  and untouched items, for half a file, and for mongodb archives of another app.
* That an account survives a restore of rabbitmq's definitions needs that files
  of the app's present life hold its present account (`Accounts`), which needs
  that nothing is dated after now (`Dated`). `Expected` ties what is left of a
  plan to the registry or to `revived`; `Prompted` says of the plan that was
  shown that it had the newest files.

Only model-checked: liveness (`EveryRunEnds`, `WebChangeTakesEffect`), which is
outside what the prover handles, and `LeaksAreNoticed`. Every other property of
the passing runs is stated by one of the theorems above.

## Not modelled

* A backup that fails to remove its own partial file (`os.Remove`'s error is
  dropped) counts as a killed one. Registered apps and their services do not
  change in BackupStore; in Restore they do, with setup and removal as one step.
* Restore: redis hashes and sorted sets behave as sets do. Privileges on what psql creates
  (`grantPermissions`) are left out, its failure is a failed restore.
* SQLite errors (a locked database, two processes that add a column to an old
  table at once), `next_run_at`, messages and sizes of runs.
* `ParseServices` as text: requests are sets of services.
* Rendering of pages, credentials, `.env` blocks and run logs; the comparison
  of `internal/web/auth`; configuration.

## Plan

Done: ServiceCommands, Provisioning with AtomicShelf, RegistryFile with AtomicRegistry,
Scheduler, BackupStore, Restore, AistorStaging, Targets, and the proofs above.
Left, in this order:

1. What is left of `RegisteredUsable` and `RemoveCleans` with several clients
   that remove as well, as theorems under weaker assumptions.
2. Setup and removal in Restore step by step, composed with Provisioning.
3. The migration of the scheduler's tables by two processes at once.
