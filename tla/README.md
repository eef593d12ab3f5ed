# Verification of pz-server

TLA+ specifications of pz-server (a Project Zomboid dedicated server with
transactional game updates, an idle watchdog and guarded host operations), the
TLC configurations that check them and proofs checked by TLAPS.  Paths below are
relative to the repository; `core.py` is `src/pz_updater/core.py`.

Every definition follows the source.  `PROJECT.json` maps each one to the lines it
models, names the mutated definition that breaks each property, lists the hazards
the properties are for, and the findings.

## The system

| Component | State it keeps | Operations | What is hard | Correct means |
|---|---|---|---|---|
| Game update transaction (`core.py`, `GameUpdater`, `StateStore`, `ReleaseLayout`, `TransactionLock`) | `update-state.json`, pointers `active-release` and `previous-release`, directories under `releases/`, an advisory lock | `prepare-start`, `update`, `mark-world-opened`, `wait-runtime-ready`, `fail-readiness`, `accept` | five files written one after the other; a kill or a failed write between any two; retries over whatever is left | the pointer always selects a complete supported release; a candidate is either fully selected or fully gone; nothing leaves a candidate that has touched the world |
| Pre-update backup (`core.py`, `BackupManager`) | archives `pz-pre-update-*.tar.gz` with two sidecars each | `create`, prune | a kill or failure between archive, sidecars and pruning; retention | recovery points do not disappear without a complete new one; a returned path is a complete archive |
| Container entrypoint (`docker/entrypoint.sh`) | server, readiness poller, stop flag, exit status | prepare, select, mark, launch, wait, stop | three processes, two timers, signals and Docker's own timeout in any order | a candidate runs only with its world boundary on record; exit status zero proves a clean stop |
| Idle watchdog (`src/pz_watchdog/engine.py`, `shutdown.py`, `rcon.py`, `service.py`) | idle and outage timers, final checks, verified container | tick, final validation, shutdown, restart | stale answers, retries, lost confirmations, partial failures of a stop | host power-off only after continuous confirmed emptiness and a verified clean stop |
| `pzctl` (`scripts/linux/pzctl`) | lifecycle lock, unit states | start, stop, restart, update, wait-ready, shutdown-host, deploy, rollback | commands interrupted half way; the watchdog beside them | one lifecycle command at a time; acceptance only of a verified server |
| Deployment (`pzctl deploy`, `deployment-unit-guard.sh`) | checkout, two watchdog environments, deployed and pending markers, start authorisation, guardian | deploy, retry, roll back, guard, monitor | a deployment killed, interrupted or without power between any two commands, then retried | without a marker the host is of one commit; with one, the previous commit can be put back and no candidate runs unwatched |
| Host backup (`scripts/linux/backup.sh`) | archives, lifecycle lock | stop, archive, restart | failure of one step of many | the stack returns, the archive is complete |
| Text contracts (`core.py`, `rcon.py`) | none | read Steam's answer, the manifest and player counts; rewrite the launcher | input that is cut, repeated or misplaced | what is accepted means what is done with it |
| Windows helpers, Terraform, cloud-init, metrics, INI merge | none shared | | | |

The components interact through files, processes and the Docker and systemd
daemons only.  The entrypoint runs `pz-updater` commands; each takes the transaction
lock without waiting and fails if it is held.  `pzctl` stops the stack before it
runs `pz-updater update` in a one-off container, and executes `accept` in the
running one.  Steam may publish a build at any time; the host may lose its root
volume while the world's data volume survives.  `pzctl`, `pz-backup` and
`pz-start-stack` exclude each other by the lifecycle lock; the watchdog daemon does
not take it, and is kept away by stopping its unit.

## Modules

| Module | What it is |
|---|---|
| `GameUpdater` | the update transaction, the session of the entrypoint, the operator's commands, kills and faults |
| `ReleaseSelection` | what the updater promises: five actions on (selected build, phase, build that opened the world) |
| `GameUpdaterRefinement` | the refinement mapping from `GameUpdater` to `ReleaseSelection` |
| `GameUpdaterProofs` | TLAPS: the transaction's inductive invariant and its consequences; what an update keeps and forgets (the fallback, leaked directories, space) |
| `GameUpdaterSessionProofs` | TLAPS: the session's invariant on top of it, the world across sessions, its archives, and the refinement |
| `IdleWatchdog` | the watchdog daemon, a one-shot `pz-watchdog` beside it, the container and its players |
| `IdleWatchdogProofs` | TLAPS: its inductive invariant and the four properties that follow |
| `HostLifecycle` | composes `IdleWatchdog` with the two systemd units, boot and power loss, `pzctl` and `pz-backup` |
| `HostLifecycleProofs` | TLAPS: daemon, commands and start jobs stay apart, what a command stopped stays down, the watchdog is given back |
| `WorldBackup`, `WorldBackupProofs` | `BackupManager.create`, which `GameUpdater` takes as one step; TLAPS: its invariant and three properties |
| `Deployment`, `DeploymentProofs` | `pzctl deploy` with retry, rollback and guardian; TLAPS: its invariant and three properties |
| `EntrypointSession`, `EntrypointSessionProofs` | `run_server` of the entrypoint, which `GameUpdater` takes as a few steps: its children, waits, signals, timers and exit status; TLAPS: its types, its invariant and two properties |
| `SteamMetadata`, `LauncherContract`, `PlayerAnswers` | the pure functions: VDF parser and queries, launcher rewriting, player count |
| `MCTextContracts` | inputs for these three: genuine texts, damaged step by step, and what they are compared with |
| `TextContractsProofs` | TLAPS: the three properties of `MCTextContracts`, for texts of every length and any number of edits |
| `MCGameUpdater`, `MCGameUpdaterLive`, `MCIdleWatchdog`, `MCHostLifecycle` | instances for TLC: symmetry; bounded faults and fairness |

### GameUpdater

`upd` is `update-state.json`, reduced to the fields the code branches on;
`active` and `previous` are the pointer files; `dir` says for each release name
whether the directory is absent, just created, partial, or a complete
installation of a build.  These survive every kill.  `txn` is the one command
that holds the transaction lock, with its program counter and local variables
(`base` is the state it loaded, `latest` the build it was told, `candidate` and
`final` its directories); `sess` is the container's entrypoint and its server.
`world` is the build that opened the world last and `archived` says whether a
verified archive holds the world exactly as it is.

Each durable write (a state record, a pointer, a rename, a deletion) is a step
of its own, so a kill (`KillContainer`, `KillUpdate`) can fall between any two.
A kill during a deletion or a download leaves any part of it done (`CutShort`).
Each write can fail, before or after the replacement, because `atomic_write`
syncs the directory after `os.replace`.  The deletion of a cleanup can fail too, in
silence (`CleanupFails`, `LeaveBehind`): `rmtree(ignore_errors=True)` then leaves any
part of the directory (`Left`, maybe all of it), and the record forgets it all the
same.  `TwoReleases` and `NoLeakedRelease` speak of the directories beside such
remainders, since the code keeps neither of them with one.  The order of the steps is the order of
the code: `prepare_start` and `explicit_update` begin with recovery, go on to
the decision, `_check_and_update` and `_stage_and_activate`, and end in the
handler of `prepare_start`.  Between the commands of one session the entrypoint
reads the pointer outside the lock, as the code does.

Abstractions, each because no property tells the difference:

- releases are names; whether a directory's launcher is supported depends only on
  its build (`Incompatible`), and `dir` holds the build of its manifest;
- a directory that is empty, or that a failed cleanup left behind, and that nothing
  refers to any more is not told apart from an unused name;
- timestamps, details, `current_build`, `last_result` and the archive's path are
  left out of `upd`: the code writes them and never branches on them;
- a fresh release name is one no record refers to (uuid4 and timestamps);
- `StartContainer` covers boot, `docker compose up` and restarts by Docker;
- one poll by `pz-updater wait-runtime-ready` that decides is one step.

### IdleWatchdog

`server` is the container: running, or how it exited (`clean`: exit code 0, no OOM
kill, no error), Docker's health of it, and whether players are connected.  `run`
holds the program counter of the two `pz-watchdog` processes: the daemon, and a
one-shot `graceful-stop` or `shutdown-host`, with or without
`--allow-connected-players`.  `dog` is the daemon's `WatchdogState` (its two timers,
`shutdown_reported`) and the final check it has reached.  `seen` is history: for how
long and how often the daemon has really observed what a shutdown or a restart must
rest on; the properties compare `dog`'s steps with it.

An RCON query, a docker command and a `systemctl` call are a step each, so players
join and leave, the server exits and processes die between any two.  A docker command
that fails, times out or loses its caller may have taken effect or not (`Effects`).
`tick` is `Tick` (the sleep), `Poll`, then `InspectDead`/`InspectAlive` for an unknown
answer or `Recheck` for the final checks; `ShutdownCoordinator.execute` is
`CheckEligible` to `Await`, and any of its aborts is `Aborts`, which also clears both
timers as the engine does after an unsuccessful attempt.

Time is counted in poll intervals and passes at `Tick` only; a timer stops at its
timeout, since the code only asks whether it was reached.

Abstractions: a query with its retries and both its parsers is one step that answers
truly or not at all; container identity is left out (`graceful_stop` inspects
the very container it stopped), as is the difference between a
container that is missing and one that stopped cleanly; `systemctl poweroff` takes the
host down in one step; Docker does not restart containers (`RESTART_POLICY=no` on AWS).
`pz-watchdog save`, `players`, `status` and `once` change nothing the rest depends on.

### HostLifecycle

`stack` is `pz-stack.service`: inactive, in its start job (before or after
`docker compose up` created the container) or active, on whose authority
`pz-start-stack` runs (its own lock, or a live `pzctl start`), and whether
`pz-watchdog.service` is started with it.  `ctl` is the command that holds the
lifecycle lock, with what it remembers: whether the watchdog was active (`watched`,
`owed`), whether the server ran (`ran`).  `IdleWatchdog`'s one-shot is the process
such a command launches; `systemctl stop` of a unit (`StackStops`, `StopDaemon`) ends
the daemon at whatever step it is.

The guarded stop is `Quiesce`, `Launch`, `Succeeded` or `Failed`, `StopUnit`, with
`Recover` when the unit does not stop; `start_stack` is `InspectRunning` to `UpFails`;
`update` and `pz-backup` reach both through their own first steps, and `Trap` is
`pz-backup`'s exit trap.  `KillCommand` kills a command with its one-shot, and leaves
the start job it ordered.  `StackReady` needs a healthy container.

Abstractions: the release staged by `update` is one step that may fail (`GameUpdater`
models it), as is `tar`; the process group of a command dies together; starting the
watchdog's unit does not itself fail; a start that fails after `update` is over keeps the
lock until it is reported (an over-approximation); deployments have a module of their
own.  The run has `DRY_RUN` off, as on the production host; the theorems cover both.

### WorldBackup

`shelf` is the sequence of archives by modification time, the latest first, each with
its checksum and metadata sidecars or without; `mine` is the place of the archive being
made among them, `partial` its partial file.  `pc` follows `create` from `tarfile` to
the `finally` clause, and `ok` is its local `succeeded`.  Each write, rename, sync,
verification and deletion is a step that may fail (the deletion of an archive also
after the archive is gone and before its sidecars are), and after each the process may be
killed or the power lost (a rename that was not synced is then undone).  A new archive
is the latest unless the clock had been set back (`behind`), because `_prune` sorts by
`st_mtime`.  Contents, digests and space are abstracted to the verdict of a step; two
creates never overlap, since each runs under the transaction lock.  `Completed` counts
the archives with both sidecars, `Torn` those that a killed or failing create left
without; `_prune` does not tell them apart, and `Retained` says what that costs.

### Deployment

`head` and `clean` are the checkout, `venv` and `rollbackVenv` the installed and the
preserved watchdog environment (of a commit, half made, or absent), `deployed` and
`pending` the two marker files, `auth` the start authorisation with its live `pzctl`,
`guardian` the transient unit, `server` what the running container was built from.
`op` is the running `deploy`: its stage, whether it is rolling back, whether it resumes
an earlier attempt.  The stages are the commands of `deploy_commit` and
`rollback_deployment` in their order; a `git checkout` or `rm -rf` takes two steps, so
that a kill meets it half way.  `Failed` is what follows a
failure after the safe stop: the first begins the rollback, a failing rollback ends with
the marker in place.  `MayStart` is the
`ExecCondition` of the units.  The lifecycle lock is that there is one `op`.

Abstractions: preflight, fetch and the player query are verdicts; sweeping old
environments and the root helper's plumbing are left out; the guardian's poll is one step.

### EntrypointSession

`pc` is the place in `run_server`, `server` and `poller` its children, `flag` the
variable the trap sets, `failed` and `unready` the two verdicts, `status` what would be
returned.  Time is in ticks (of `TickSeconds`) and passes only where the entrypoint sleeps
or waits (`Idle`): `timer` is the present sleep, `stop` Docker's time since SIGTERM.
`wait -n` and `wait` are entered in a step of their own, so that a signal can come
before (`missed`).  A second `wait` for a process already waited for returns its status
again, as bash does, which is why failed readiness followed by a stop request may
return zero.  `conf` ranges over every accepted pair of settings that a tick can tell
apart: in the run a tick is five seconds, so the pairs are multiples of five; the theorems
also hold with ticks of one second, of every accepted pair.

### Text contracts

`Member` is what the parser makes of one position given what it makes of the later ones,
`Members` the function that this recursion defines; `ParseObject`, `ParseRoot` and
`NestedString` are the VDF parser from its tokens on;
`AppInfoBuild` and `InstalledBuild` the two queries.  A token is what `_vdf_tokens`
yields: quotes are gone, so a quoted brace is a brace.  `ConfiguredArguments` and
`StatusPreserving` rewrite the JVM arguments and `start-server.sh`, whose arguments and
lines are represented by what the patterns tell of them; `Count` is
`parse_player_count` on kinds of lines.  `MCTextContracts` starts from the texts the
programs genuinely emit, loses, inserts, replaces or cuts elements, and compares what
is accepted with a reading of its own: the nesting of braces for the metadata, an
execution of the rewritten script, the last flag for the JVM.

## Runs

The safety runs of the updater use every policy and symmetric release names: four
(active, previous, candidate, promoted), which never run out: some name is unused
whenever a step takes one.  Builds are 1..3 with 2 incompatible (an upgrade,
a downgrade, and one build past the incompatible one), or 1..2 where a property concerns
a single transaction.  Nothing else is bounded in them: faults, kills, publications
and commands may happen any number of times, and the state spaces are finite as they
are.  `CHECK_DEADLOCK FALSE` is set because an unattended system may stop: a failed
container stays down until someone starts it, a host that is off stays off.

| Run | Question | Instance |
|---|---|---|
| `updater_aws` | With acceptance by `pzctl` apart from readiness and the loss of the host with its root volume: are pointers, record, directories, session and world consistent (`TypeOK` to `SInv`), is a surviving world archived before a reinstalled server opens it, is `ReleaseSelection` implemented (`KeepsPromise`)? | AWS, host replacement, 4 names, builds 1..3; 973,000 states |
| `updater_local` | Where readiness accepts at once and updates may also be executed in the game container: is a candidate never deselected, a failed one never left, the world never opened by an older build? | local, executed updates, 4 names, builds 1..2; 1,230,000 states |
| `updater_live` | Does the lock come back, does every candidate reach a verdict, is a failed update retried? | AWS, executed updates, 4 events, builds 1..3; 220,000 states |
| `watchdog` | What justifies a stop, a restart and a power-off, whom may a stop disconnect; and once faults cease, does an empty host sleep and a dead server return? | timeouts 2, 3 final checks, a slow tick counts 2; 50,000 states |
| `host` | Is the daemon kept away from a command, does a stopped server stay down, is the watchdog given back; and once faults cease, is the lock free again and an empty host switched off? | all six commands, kills, power loss; 144,000 states |
| `world_backup` | How many completed archives survive any series of creates, what do a returned path and an error mean, what is an older archive deleted for? | retention 3, up to 5 archives at the start; 14,800 states |
| `deployment` | What do an absent and a present pending marker promise, and who watches a candidate? | 3 commits (previous, target, and another one to ask for); 42,000 states |
| `session` | What does exit status zero prove, and can Docker's timeout cut a shutdown that was noticed? | every accepted setting in ticks of 5 s; 875,000 states |
| `text_contracts` | Is what is accepted read as its braces nest, does the rewritten launcher start as configured and end as the game does, does a lost line hide players? | `MaxEdits = 2`; 114,000 states |
| `updater_retry`, `host_recovery`, `deploy_resume` | Statements of the documents and of `pzctl` the code does not keep; see Findings. | |

The timeouts of the watchdog are 2 intervals: a timer is then off, running and reached,
and a row of answers can break in the middle.  Two final checks are the fewest the
configuration admits, three make `Recheck` repeat.  `MaxGap = 2` lets one slow tick jump
over a timer's whole course.  Five archives over a retention of three let pruning delete
two in one create.  Two edits suffice to repeat a member and misplace another, or to
lose one and put a second in its place; that no more are needed is proved.

### Fairness

`MCGameUpdaterLive` bounds faults, kills, publications and operator commands by
`MaxEvents` (4: enough for an interruption, another inside its recovery, and two
more builds or commands), after which only the program and ordinary starts and stops
go on.  Release names are taken in order there (`NamedInOrder`): unused ones are
interchangeable, and liveness admits no symmetry.  Steps of a command and of the entrypoint are weakly fair: each `pz-updater`
call ends, since Steam calls, SteamCMD and the readiness poll have timeouts.  The
server that was asked to stop exits (the entrypoint escalates to SIGKILL), a running
server is stopped some day and a stopped container is started again.  `Accept` is
strongly fair: a session may end before `pzctl` looks, so acceptance is only enabled
again and again; without it a candidate on AWS stays `runtime-ready`, as the code intends.

Watchdog and host: no events are counted; the liveness properties speak of behaviours
that are calm from some time on (`Calm`, `HostCalm`: no fault, kill, boot or command
any more).  Each `pz-watchdog` process, each command and each start job is weakly fair,
since RCON, docker and `systemctl` calls and the wait for health all have timeouts;
systemd restarts a daemon that died (`Restart=on-failure`); a server that is up becomes
healthy, since becoming unhealthy is a fault.  In the calm part a healthy server answers;
one that is not may stay silent.  Nothing is assumed of players, who may come and go
for ever.

## Proofs

TLAPS proves for every value of the constants; the named assumptions of `GameUpdater`,
`IdleWatchdog`, `HostLifecycle`, `WorldBackup`, `Deployment` and `EntrypointSession` are
all that is used.

- `GameUpdaterProofs!Invariance`: `Spec => []IInv`.  None of the properties is
  inductive: that the selected release is launchable depends on what a
  transaction in progress may still delete.  `IInv` therefore says, for each step
  of a transaction, what is on disk, what the record says and what the local
  variables hold (`RecordAtStep`, `StagedApart`, `Consistent`), and that
  nothing that `Debris` or `Doomed` would delete is selected.  It holds with
  executed updates and host replacement.
- `SelectionLaunchable`, `CandidateIsSelected`: consequences of `IInv`.
- `SelectionIsSettled`, `FailureIsFinal`: action properties proved from `IInv`
  step by step, without host replacement (which forgets everything).
- `GameUpdaterSessionProofs!SessionInvariance`: without executed updates, what
  the entrypoint selected and launched agrees with pointer, record and `pzctl`
  (`SInv`).  From it `TypeCorrect`, `BoundaryOnRecord` and
  `StagingApartFromServer`.
- `GameUpdaterSessionProofs!WorldInvariance`: without host replacement, but with updates
  executed in the game container, `[](IInv /\ WInv)`, and from it `WorldNeverDowngraded`.
  That the selected build is no older than the world does not suffice: a session may launch
  what it read before an executed update moved the pointer.  `AimsForward` says that
  what a transaction installs is no older than the selection it replaces; `NotAhead` that
  the world is no newer than the selection, and a candidate no older than the release it
  replaced; `ReadStands` that what the entrypoint read is still selected, or was replaced by
  a candidate not tried yet and is no older than what opened the world (`Overtaken`).
- `PromiseInvariance`: without executed updates, `[](IInv /\ SInv /\ AimsForward /\
  Archived /\ Resolved)`.  `Archived` says that a world which the selected build did not
  open, also one that outlived its host, is archived from the backup on until the server
  opens it; `Resolved` that no session goes on with an activation that was interrupted,
  whose record does not say yet which way it went.  From it `MigrationsArchived`, and
  `ImplementsReleaseSelection`: every step of a transaction, its recovery, the session and
  `pzctl` is a step of `ReleaseSelection` or leaves selected build, phase and world as they
  are.  Both exclude executed updates, and have to: with them TLC finds both properties
  false (see the observations).
- `GameUpdaterProofs!KeepingInvariance`: `Spec => []FInv` beside `IInv`.  That
  the fallback is complete says nothing of the moment the pointer moves before the
  record does, so `FallbackReady` begins there; that no directory leaks says nothing of
  what a step is about to strike off the record, so `Forgettable` says it holds no data
  by then, besides what a failed cleanup left (`HoldingLeft`), and `OnePlace` that the data of a promotion is in one of its two places.
  `FallbackIsKept`, `NothingLeaks` and `SpaceForTwo` follow; the last one by a case for
  each state of the record, naming the two directories that hold data.  Every one of them holds with
  cleanups that fail: what they leave is `Left`, which `Holding` excludes.
- `IdleWatchdogProofs!Invariance`: `Spec => []IInv`, and from it `TypeCorrect`,
  `ShutdownIsJustified`, `RestartIsJustified` and `StopDropsNobody`, whatever the
  timeouts, the number of final checks, `DRY_RUN` and the guard file.  That an order to
  shut down is justified by observations is not inductive, because the daemon decides by
  its timers: `TimersBacked` says a timer that runs is no older than the row of
  observations it stands for, and `ChecksConfirmed` that each final check has a
  confirmation behind it and no outage beside it.
- `HostLifecycleProofs!HostInvariance`: `HostSpec => []HInv`, with kills and power loss.
  The lock alone says none of it, since neither the daemon nor a start job left by a
  killed command holds it.  The invariant says where each can still be: a start job that
  has not created the container yet finds it down (`BuildsOverStopped`), a one-shot runs
  only at the steps of its command that launched it (`OneShot`), and past the stop the
  server is down (`HeldDown`).  `IdleWatchdog`'s `IInv` is kept beside them by units,
  commands, boots and power losses.  From it `HostTypes`, `WatchdogsApart`,
  `PowerOffOverClean`, `StaysDown`, and `PromisesKeptOnHost`: what is proved of the
  watchdog alone holds on the host.
- `WatchdogGivenBack`, the action property `WatchKept`, from `HInv` and `Accounts`: what
  each command remembers of the daemon it stopped.  Before it has stopped the daemon
  it owes nothing; only `pz-backup` defers the debt, to its exit trap; and a backup that
  stopped the server itself goes on to a start, which starts the daemon.  With `DRY_RUN`
  the proof found an end that TLC, with it off, had not: `pzctl shutdown-host` (143) takes
  the one-shot that did nothing for a success and leaves the host without its watchdog.
  `WatchKept` excepts it.
- `WorldBackupProofs!BackupInvariance`: what `create` has done at each step about its
  archive, for every retention and any number of archives at the start.  From it
  `BackupTypes`, `ArchivesRetained` (completed and torn archives together are never fewer
  than the retention when a create returns, and at most one fewer when it fails or dies:
  `CompletedAndTorn`),
  `PruningJustified` (an older archive goes only while the new one is complete) and
  `OutcomesHonest`.
- `DeploymentProofs!DeploymentInvariance`: what checkout, environments and markers are at
  each stage of going forward and of rolling back, and in what a kill leaves.  From it
  `DeploymentTypes`, `WholeHost` (no marker, no mixed host), `PreviousIsPreserved`
  (with a marker, what a rollback needs is there) and `CandidatesGuarded`.
- `EntrypointSessionProofs!SessionInvariance`: for every accepted pair of shutdown times, to
  the second.  `Accounted` ties a signalled server to `failed` and a shutdown to its reason,
  `ZeroEarned` what a status pieced together as zero stands for, and `Fits` says that the
  time since the signal and the time a noticed shutdown may still take (`TicksLeft`) are no
  more than 115 seconds together.  From it `ZeroIsHonest` (`ExitHonest`) and `NoShutdownCut`
  (`KilledOnlyIfMissed`).  `TypeCorrect` needs only that the server has been told to save
  before it is told to quit.

- `TextContractsProofs!TextInvariance`: a text is a sequence of its own words, whatever
  edits were made.  That is all the state has to say; what follows is about functions that
  are defined by recursion over the text, and holds for every text of those words, however
  many edits made it.
- `PlayersKept` (`CountKept`): of its words only the header gives a count, its own.
- `LaunchKept` (`LaunchContract`): `ArgumentsConfigured` says that both configured flags are
  left and none of the file's own.  For the script, `AcceptedShape` says where acceptance
  and rewriting put the lines that decide the outcome (`Ordered`, `Shape`); `ScriptInv` says
  where an execution is after each line (skipping, on its way with the status still to be
  taken or taken, or ended of its own or with the answer), and each line keeps it.
- `MetadataKept` (`MetadataRead`): what the parser accepts from a position on is where the
  braces put it (`ObjectSpan`), by induction from the end of the text.  What is needed of
  each object is `Span`: it ends at the closing brace of the section it began in; every
  section met on the way is that one or below one of its names; its names are those that the
  braces put there; each of its texts is at a name whose section and key spell its path; and
  no name is twice in a section.  The last two give that `Reads` finds exactly the text that
  the parser found (`TextRead`).  `ValueSpan` and `NestedSpan` are the two ways an object
  goes on (a text, a nested object), and `RootParsed` adds that nothing after the root's
  closing brace belongs to it (`Outside`).

The library's induction theorems take an operator, which the provers cannot instantiate.
The recursive definitions above are therefore reasoned about through least
counterexamples: `Least` takes the least element of a set of numbers from the library's
`WFMin`; `Upwards` and `Downwards` give induction along a text in both directions, on sets
instead of operators; `Recursion` the existence of a function that follows a definition,
without which `f[i] == ... f[i - 1] ...` says nothing.

Only model-checked: all liveness, and ENABLED, out of TLAPS's reach.
`KeepsPromise` and `ArchivedBeforeMigration` are proved without executed updates and
`NoWorldDowngrade` without host replacement, which is how the runs check them: without
these conditions they do not hold.

## Findings

1. `updater_retry`.  docs/architecture.md:55 promises that interruptions retry on
   a future start.  `discard_old_previous` deletes the directory before the
   pointer; killed in between, `previous-release` names nothing, and every later
   attempt fails as `update-precondition-failed`.  `RetriesUnlessDangling` is what
   the code keeps.
2. `host_recovery`.  When the unit does not stop, `pzctl` announces a recovery and
   restarts it with the lock held and no authorisation written: `pz-start-stack`
   refuses, and neither server nor watchdog comes back.
3. `deploy_resume`.  README.md:340 says that retrying the same SHA resumes an
   interrupted deployment.  `deploy_commit` asks for a clean checkout before it reads the
   marker; a kill during `git checkout --force` leaves one that is not, and every retry is
   refused.

Observations without a run, met while modelling:

- docs/architecture.md:51 promises "at least two completed recovery points".  Pruning counts
  an archive whose create was killed between `os.replace` (core.py:666) and its sidecars
  (668-683) like any other, and nothing removes it.  With a retention of three, two such
  kills and one success leave a single completed archive; with the accepted retention of
  two, one kill does, or one create that fails while pruning and deletes its own archive as
  well.  `Retained` therefore says what the code keeps: completed and torn archives together.
- The same line says that any backup failure removes the candidate, and
  updater/tests/test_core.py:591 asserts it of a failed download.  Every such cleanup ignores
  the errors of its own deletion (core.py:1233, 1251, 1257, 1275, 1312), and
  `_record_pre_world_failure` (1440-1463) then forgets the directory.  What was not deleted,
  up to a whole release, stays for good, and may pile up until `_require_candidate_space`
  refuses every update.  `TwoReleases` and `NoLeakedRelease` except such remainders.
- `pz-stack.service` started by `pzctl start` does not take the lifecycle lock, it only
  checks that a live `pzctl` holds it; if that one is killed, the start goes on while
  another command has the lock (docs/architecture.md:26 says the unit holds it).
- `pz-backup` stops only a watchdog that is active.  One that awaits its automatic
  restart comes back and restarts the cleanly stopped server while `tar` reads the world;
  the final check then discards the archive.
- When only the sync after removing the pending marker fails (pzctl:351), the deployment
  rolls back without a marker (pzctl:789).  When only the sync of a new marker fails
  (pzctl:716), the marker stays while the recovery orchestrator beside it is removed.
  An interruption after the marker was removed (pzctl:554) says that it remains.
- The entrypoint's trap only sets a flag, so a SIGTERM between the test and `wait -n` is
  noticed when a child ends.  Its own escalation may take 115 s, and an accepted
  `SERVICE_STOP_TIMEOUT_SECONDS` may be as low as 30.
- The VDF parser takes a closing brace in a value's place as the value.  The rewritten
  launcher keeps a heap flag spelled in a way it does not know, which then overrides the
  configured one; a wrapper with an `exit $?` of its own gets the status of the assignment
  inserted before it.
- A build that Steam republishes between query and download blocks the queried build,
  whose launcher nobody examined (core.py:1245).
- `pzctl shutdown-host` under `DRY_RUN` stops the watchdog, reports success and does not
  start it again (pzctl:139, 143).
- An update may be executed in the game container after its session has prepared or read
  the selection and before the server runs (core.py:834 looks for a server, once).  The
  server then opens, with the release just replaced, the world the update has archived,
  and the candidate later migrates what that archive does not hold.  Or the session starts
  a candidate whose activation stopped before its record said so.  `NoWorldDowngrade` holds
  all the same.
- `NoWorldDowngrade` assumes the host keeps its root volume: with `HostReplacement` a
  reinstallation takes whatever build the branch publishes then.

## Not modelled, and the plan

Left for later, in this order:

1. `pz-backup`'s own archives (name, checksum, pruning); `HostLifecycle` has its lock,
   stop, `tar` and trap.
2. The Windows helpers that stop, restore and copy, which follow the Linux lifecycle.
3. What is left of `ReleaseSelection` with updates executed in the game container, which
   needs an abstract selection that a session in progress has not seen.

Not to be modelled: metrics (read-only), Terraform and cloud-init (declarations),
installation and volume resizing (one-shot scripts), the INI merge (text without a
protocol), the tokenizer of the VDF parser, option parsing, Compose definitions.
