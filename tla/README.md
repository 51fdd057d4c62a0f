# Verification of epics.sh

Specifications of the parts of this repository whose correctness depends on
order: the daemon `epicsd`, which accepts webhooks and cron firings and runs
them, and the files that it and the `epics` command write. TLC checks every
module on a small instance. TLAPS proves every safety property of every module,
and the two refinements, for every value of the constants.

## The system

| component | state | operations | interacts with |
|---|---|---|---|
| run queue and dispatcher (`internal/daemon/daemon.go`) | `pending`, `routeRunning`, `workspaceRunning`, `notifyCh`, `finishCh`, ledger | enqueue, overlap test, dispatch, finish, shutdown, purge | HTTP handlers and scheduler call it; executors report over a channel |
| webhook ingress (`handleWebhook`) | `dedup`, a handler per request | checks, duplicate check, enqueue, mark, rejection records | reads routes, workspaces, secrets; feeds the queue |
| route table (`upsertRoute`, `setRouteEnabled`, `handleFinished`) | `routes`, `routes.json`, `secrets/` | upsert, rename, enable, record of a delivery, load | admin API; snapshots go into queued events |
| cron scheduler (`catchUpCron`) | last tick in memory and in `state.json` | catch-up, save | reads routes, refreshes workspaces, feeds the queue |
| workspace registry | `workspaces`, `workspaces.json` | register, refresh, recover | every consumer refreshes before use |
| adapters | `SelectedAdapter` of a route | select, health, dispatch | handlers, scheduler, executors |
| the process (`New`, `Run`, `shutdown`) | admin socket, webhook port, `config.json` | load, listen, close | clients of the admin API, other processes over the same home |
| store | JSON files, `runs/*.jsonl` | atomic replacement, append, list, inspect | everything above |
| cron expressions (`cronexpr.go`, `internal/cron`) | none | match, due times, validate | scheduler, CLI |
| epic state file (`internal/state`) | `state.json`, lock directory | get, set | CLI, several processes |
| install and metadata (`internal/install`, `internal/workspace`) | package directory, backup, `installs.json` | stage, hooks, promote, roll back, record | CLI, several processes |
| plans, logs, resume (`internal/plan`, `internal/logutil`, `internal/resume`) | numbered and dated files in two layouts | create, list, current, recent | CLI, several processes, the author |
| epic packages (`internal/epic`) | `SKILL.md` with its footer, `EPIC.md` | init, validate, upgrade the footer | CLI, the author |
| host adapters (`internal/hosts`, `internal/hostutil`) | command files, an instruction file of the user's | setup, doctor | CLI, install, the user |
| doctor, service, CLI, harness | none of their own | probes, units, printing | |

Hard to test: goroutines between two critical sections of `s.mu` (the scan of
the queue, the duplicate check, the finish), the single wake-up token, a
shutdown whose deadline passes while runs execute, calls that are refused after
their first steps took effect, a process that ends between a file and the
table that names it, windows of time that must tile although ticks are late,
saves fail and the saved tick loses its fraction, and processes of the CLI that
meet in one directory. `PROJECT.json` lists the hazards, each at its line and
with the properties that guard it.

What makes each component correct:

- run queue: routes exclude each other, caps hold, policies hold, no wake-up is
  lost, every accepted run ends, is recorded once, and a shutdown ends and
  accounts for the runs;
- webhook ingress: the answer tells what happened; repetitions and only
  repetitions are refused;
- route table: what the operator was told holds in memory and on disk, unless a
  failed save has taken `routes.json` away; secrets belong to their route;
- registry: a path keeps one id, and what a registration answered stands;
- adapters: an event is executed by the adapter selected for its route, in a
  workspace that is there, or not at all;
- ledger: no answer leaves an acknowledged record out in silence;
- the process: one serves a home, clients reach it, and what crashed before is
  no obstacle;
- scheduler: every due time fires once unless a crash, a failed save or the clock
  intervenes;
- cron expressions: what `epics cron validate` accepts and what makes `epicsd`
  fire agree;
- files of the CLI: no update is lost, no reader sees an old file or half of
  one, every call ends;
- install: all or nothing, and never no package;
- epic packages: what `epics validate` tells an author to run leaves no error
  about `SKILL.md` and keeps the author's text;
- plans and logs: numbers grow, no plan is written over, and every command names
  the same plan and log as long as the author keeps to their names;
- host setup: it adds to the user's files and never takes away.

## Modules

| module | models | state and actions |
|---|---|---|
| `RunQueue` | the queue's goroutines | one action per critical section or channel operation; `stage` says where a run is (in a queue, in an executor, on its way to the ledger); `dispatcher`, `scheduler`, `phase` are control points |
| `RunLifecycle` | what the daemon promises about a run | `status` and `ledger` only: no goroutines, queue order or wake-ups |
| `RunQueueImplements` | the refinement mapping | `statusOf(stage)`; `ImplementsLifecycle` |
| `RouteTable` | routes, `routes.json`, secret files | `upsertRoute` is five steps under the mutex (`call` says which is next), because the process may end between two or the call be refused after some; `promised` is what was last answered, `disturbed` the ids whose last call failed or was cut off; `wiped` says that a save has removed `routes.json` |
| `Webhook` | `handleWebhook` | `step` is the position of each handler; the critical sections of `checkDedup`, `enqueue`, `markDedup` are steps of their own; `known` holds what was answered 202 before a delivery arrived, `unwritten` the refusals whose record failed |
| `WorkspaceRegistry` | `registerWorkspace`, `refreshWorkspace`, `recoverState` | a refresh is four steps, because it lets the mutex go between its read and its write; a save may fail after it has removed the file; `named` and `overtaken` say which names an answer leaves possible |
| `AdapterChoice` | `selectAdapterLocked`, `Dispatch` | the selection at the upsert, at the admission and at the start of an event, while programs and directories come and go |
| `RunLedger` | `AppendRun`, `ListRuns`, `InspectRun` | a file is a sequence of lines, a line the records and fragments in it; a reader takes one file at a step |
| `DaemonHome` | `New`, `Run`, `shutdown` of several processes | `pc` is a process's position; the socket's path, the port and the files are shared; `raced` says that a process met port 0 when it should not have, `removed` names the records that a save took away with their file |
| `CronScheduler` | `catchUpCron` | steps of the catch-up; `handed` counts the firings of each due time, `replayable` holds those that an end of the process or the clock's order lets come again, `excused`, `unrefreshed` and `forgotten` those that were passed over, each for its own reason |
| `CronFields` | one field of a cron expression, in its two readings | a field is a set of parts; a token is its number and whether it is written plainly; the steps only add parts, so that TLC visits every field |
| `LockedFile` | `state.Set` and `Get`; `SaveInstall` and `LoadInstalls` | one action per system call; a file holds the values of a set of writers, or is absent, empty or torn; `package` chooses between the two fallbacks; `before` is what a reader must find, `left` whether a release could not remove the lock directory |
| `SharedFile` | what such a file promises | a set to which each call adds its value at one moment; `status` of the calls, `answer` of the reads: no lock, no temporary file, no rename |
| `LockedFileImplements` | the refinement mapping | `statusOf(pc)`, and `valueNow`: what is in the file or, while a fallback has taken it away, in the hands of its writer; `ImplementsSharedFile` |
| `InstallPackage` | `Install` with its defers | one action per file operation that matters; a version is the process that brings it; `atStart`, `alone` and `unlisted` (its failing save removed `installs.json`) are history |
| `EpicPackage` | `stripSkillFooter`, `Validate`, `runInit`, `runUpgradeSkillFooter` | a `SKILL.md` is a sequence of kinds of lines; every file of a few lines is an initial state; the errors of the live state are a free choice of `Validate` |
| `EpicDirectory` | `Create`, `Current`, `resolvePlanPath`, `CreateAt`, `Recent` | a file is its layout, its number and how many digits that is written in (none in `notes.md`), its slug and its ending; names are ordered digit by digit; creators step one call at a time, and the author adds and removes files and writes logs between |
| `HostSetup` | `Setup` of the three hosts | a setup reads, truncates and writes; a guide is the set of its parts |
| `DaemonRecords` | `WorkspaceRegistry`, `DaemonHome`, `AdapterChoice` and `RunLedger` side by side | each part has variables of its own |
| `CommandFiles` | `InstallPackage`, `EpicPackage`, `EpicDirectory` and `HostSetup` side by side | the same |
| `*Proofs` | theorems about the module of the same name and the parts it brings together; `CronProofs` about `CronScheduler` and `CronFields` | |
| `MC*` | small instances | |

A definition commented "Mutant: ..." is a faulty variant that a property must
reject; the specification does not use it.

`RunQueue` and `Webhook` overlap in `enqueue`: `RunQueue` keeps each event and
abstracts the handler to accept-or-refuse, `Webhook` keeps the handler and
abstracts the queue to its length. `RouteTable` admits runs without a queue:
only the id they carry matters to it. `CronScheduler` ends where `enqueueCron`
begins, which `RunQueue` models, and takes the due times of a route as given,
which `CronFields` models a field at a time. `AdapterChoice` begins and ends an
event where `RunQueue` queues and finishes it, and keeps what `RunQueue` leaves
out, the route and the workspace it sees. `RunQueue` appends a record in one
step, `RunLedger` cuts it short. `WorkspaceRegistry` is one process and every
step of a refresh, `DaemonHome` several processes and a whole call at a time.
`InstallPackage` takes `SaveInstall` for one step, which `LockedFile` takes
apart; where that step fails or is cut short, it may leave no `installs.json`.

All JSON files of the daemon are replaced by `writeFileAtomically`, and
`installs.json` by a copy of it: when the first rename fails it removes the old
file and renames again, and when that fails too, or the process ends between,
there is no file. The next `epicsd` writes defaults in its place (`Ensure`).
Every module that saves such a file has these outcomes.

Three MC modules are sums: `MCCron`, `MCDaemonRecords` and `MCFiles` each bring
together several modules that share no variable (`DaemonRecords` and
`CommandFiles` name them and their properties), and an initial choice says which
of them moves. They are no compositions: each part is checked as if it were
alone, and its bounds are its own.

## Runs

| run | question | bounds |
|---|---|---|
| `queue_safety` | exclusion, caps, wake-ups, records, shutdown | two deliveries of one route, one of another, one cron firing; queue of 2, cap 2, finish channel of 1: every limit is reached |
| `queue_promises` | overlap policies; the ledger is append-only; `RunQueue` implements `RunLifecycle` | a delivery, and two firings of one route whose policy changes from `single_flight` to `queue_one`; ledger writes may fail; crashes |
| `queue_liveness` | every accepted run is recorded unless the process ends; a shutdown ends although adapters hang | two deliveries and a firing, cap 1, fair goroutines |
| `routes_kept` | answers hold in memory and on disk unless the file was removed; own secrets only | two ids (each can be renamed to the other), two secrets, three upserts and an enable or disable: create both, rename one onto the other, switch one anywhere between |
| `routes_durable`, `routes_phantom` | two documented statements the code violates | the same with one secret, saves succeed |
| `webhook` | the answer agrees with queue and ledger; repetitions, and only those, are refused | three deliveries, each of one key to one of two routes or of another key to the first; queue of 1; TTL 1 on a clock of 3 instants: a key can expire and come again |
| `daemon_records` | ids and names stand; adapters fail closed; queries are complete; one process serves and is reachable | two paths, names and ids and a refresher, so that a registration can fall into a refresh; two adapters and an event; four records over two days, the later day's written first or last; three processes over one home, so that a third meets what two left |
| `cron` | no firing missed or doubled; validator and matcher agree | a minute of four ticks and a second of two, a clock of six instants, so that a window can start and end off the minute; one end of the process or one step back of the clock; any number of failing saves. Fields of up to two parts over days and months, which between them have every shape of bounds: names, zero or one as least value, a 7 beyond the top, and a 7 that is not plain |
| `locked_file` | no update lost, reads current, calls end; `LockedFile` implements `SharedFile` | three writers, so that a lock can be lost while two others contend, and one reader: readers do not affect anybody |
| `files` | installs are all or nothing and a package survives; footers heal; plans are in order; the commands agree; setups only add | three installers, no more than two at the same time (`TwoAtOnce`): the third meets what a failure and a race left. Every `SKILL.md` of up to three lines: a footer has three, and each kind of damage shows in two. Two creators and four files by hand: the last number that fits, `notes.md`, an unpadded number, and a text in the other layout; numbers of two binary digits, so that one overflows its width after three plans; two days of logs, created and written by hand. Two setups, two command files and a user who writes |
| `install_race` | a documented statement the code violates | two installers |

`CHECK_DEADLOCK` is off where processes are commands that end
(`LockedFile.cfg`, `Files.cfg`, `InstallPackageRace.cfg`) and in
`DaemonRecords.cfg`, where the ledger has a last record and each process over a
home starts once. The other modules of the daemon never stop: they can restart,
tick or switch a route in every state. Symmetry is used only where no liveness
property is checked.

### Findings

Each has a run of its own.

- A refused rename loses the route: `upsertRoute` deletes the old id before it
  validates (`routes_durable`).
- A run that ends after its route was renamed stores an empty route under the
  empty id (`routes_phantom`).
- An install whose promotion fails because another process was quicker removes
  what the other has reported as installed (`install_race`).

Less than a finding, because no document says otherwise, but what the models
show and a reader should know:

- A save whose first rename fails removes the file, and what is in it is lost if
  the second one fails or the process ends before it: the routes (`wiped`), the
  workspaces (`removed`), the saved port (`raced`: two processes may then serve
  one home), the last tick (`forgotten`: due times are skipped), the records of
  all installed packages (`unlisted`). While the daemon runs, its next save
  brings the file back.
- A refused upsert can leave the stored route without its secret file.
  `RefsAreOwn` and `StoredRoutesKept` except it by `disturbed`.
- Not every refused webhook has a record: the 405, the 503 of a shutdown and the
  404 of a path that names no route have none, nor has a refusal for want of a
  run id; and a record that cannot be written is dropped in silence
  (`unwritten`).
- A route is passed over if `workspaces.json` cannot be saved when the catch-up
  comes to it, and its due times are not tried again (`unrefreshed`).
- A registration that falls into a refresh of its workspace loses its new name:
  the refresh stores the record it read before. `NameKept` excepts it by
  `overtaken`.
- A line of the ledger that is cut short makes every query fail that has to
  read its file, for older records too. `FailuresAreExplained` says no more.
- A second `epicsd` over a home takes the admin socket's path from the first
  before it fails over the port; the first serves on without being reachable
  (`disturbed` in `DaemonHome`).
- Two overlapping creations share a plan number unless title and layout are the
  same; past 999 plans, or beside `notes.md` or `5-old.md`, the plan with the
  highest number is not the last name, and the commands name another;
  `epics resume` takes files for plans that do not end in `.md`.
- A log of the same day and title is written over. `epics log recent` sorts by
  modification time, `epics status` by name: a log that was edited or copied
  makes them disagree (`reordered`).
- A host setup that is cut short may leave the instruction file empty, and one
  that overlaps with an edit writes back what it read.
- A fallback of a rename that is cut short loses `state.json` or
  `installs.json`; `UpdatesKept` excepts it by `fallback`.
- `epics state set` that has copied its file across devices reports a chmod or a
  close that fails as an error although the change is made (`doubtful` in
  `SharedFile`); every other error leaves the value as it was.
- A process that dies with a lock directory, or cannot remove it (`left`: the
  error is dropped), blocks every later writer until someone removes it; they
  fail after five seconds (`CallsEnd` says no more).
- `epics cron validate` accepts `5-7` as days of the week, which never fires,
  and `0-7`, which fires on Sundays only, and rejects `7-3`, which fires: the
  matcher reads the text 7 as 0 before it checks the range. It does not read `07`
  or `+7` so, which are valid too: as a day they never fire, as the end of a
  range they lose the Sunday. `SevenMisread` names all these, and `SevensDisagree`
  says which of the accepted ones are misread: with plain sevens all but `7-7` and
  those from 0 whose step is 7 or more.
  A step after a single value is accepted and ignored by both.

### Fairness

`GoroutineFairness`: a goroutine that can run does. `select` picks among its
ready cases at random, so each case of the dispatcher and each send on the
finish channel is strongly fair. Nothing forces a trigger, a shutdown or a
crash. The code sets no timeout for an adapter, so `FairSpec` says nothing of
executors: `ShutdownEnds` holds under it, and `AcceptedRunEnds` has
`ExecutorFairness`, that adapter processes end, as its antecedent.

In `LockedFile` each writer's steps are weakly fair as one disjunction: a
process that runs goes on. Whether it gets the lock is left open; its deadline
lets it fail, so `CallsEnd` does not depend on the fairness of the lock.

## Proofs

| module | for any | proves | assumes |
|---|---|---|---|
| `RunQueueProofs` | runs, routes, workspaces, capacities | `TypeOK`, `QueueSound`, `RouteExclusive`, `WorkspaceCapHolds`, `CronOverlap`, `NoLostWakeup`, `RecordedOnce`, `StopAccountsForRuns`, `LedgerIsAppendOnly`, `ImplementsLifecycle` | finitely many runs, types of the snapshots, a route has one kind, capacities are positive (`normalizeConfig` replaces zeros; nothing in the code stops a negative one) |
| `WebhookProofs` | deliveries, requests, capacity, TTL | `TypeOK`, `AnswersMatchEffects`, `RepeatsAreRefused`, `OnlyRepeatsAreRefused` | `BoundTypes`: the TTL is a natural number |
| `RouteTableProofs` | routes, secrets, calls | `TypeOK`, `RefsAreOwn`, `ServedRoutesKept`, `StoredRoutesKept` | `EmptyStrings`, `RefsAreNamed`: the empty string is no id, no secret and no reference; `BoundTypes` |
| `CronProofs` (`CronScheduler`) | routes, units, schedules | `TypeOK`, `NoDoubleFiring`, `NoMissedFiring` | `UnitTypes`, `ScheduleTypes`: a unit is whole seconds, a due time whole units; `BoundTypes` |
| `CronProofs` (`CronFields`) | fields, numbers, steps, parts | `ReadingsAgree`; a valid field fires at what it names; which of those written with a 7 do not | `FieldTypes`, `TokenTypes`: bounds as in the tables of the code, numbers are naturals |
| `DaemonRecordsProofs` (`WorkspaceRegistry`) | paths, names, ids, refreshers | `TypeOK`, `OneRecordPerPath`, `AnswersStand` | `NoneTypes`: the absent value is no record and no id |
| `DaemonRecordsProofs` (`AdapterChoice`) | adapters, events | `TypeOK`, `EventsFailClosed`, `SelectionSticks` | `AdapterTypes`: an unknown name and no name are no adapters |
| `DaemonRecordsProofs` (`RunLedger`) | runs, days, limit, readers | `TypeOK`, `AnswersAreComplete`, which has `FailuresAreExplained` in it | `LedgerTypes`: finitely many runs, each with a day and a time; the limit is positive |
| `DaemonHomeProofs` | processes, calls, ports | `HomeTypeOK`, `OneServes`, `ServingIsReachable`, `LoneStartServes`, `RegistrationsSaved` | `HomeTypes`: there is a port; port 0, nobody and what is no socket are no ports or processes |
| `LockedFileProofs` | writers, readers | `TypeOK`, `LockExcludes`, `UpdatesKept`, `ReadsAreCurrent`, `ImplementsSharedFile` | `ProcessTypes`: no process is both |
| `CommandFilesProofs` (`InstallPackage`) | installers | `TypeOK`, `AllOrNothing`, `PackageSurvives` | `VersionTypes`: versions differ |
| `CommandFilesProofs` (`HostSetup`) | setups, command files | `SetupAddsOnly` | |
| `CommandFilesProofs` (`EpicDirectory`) | creators, slugs, days, base and width of numbers, greatest number | `PlansInOrder`, `ReadersAgree`; padded names sort as numbers | `DirectoryTypes`: the base is 2 or more and the width 1 or more, 0 is no slug, days are natural numbers; a file made by hand has a number that can be written in its digits, or none and no digits |
| `CommandFilesProofs` (`EpicPackage`) | `SKILL.md` of any length | `UpgradeHeals` | |

The assumptions of modules that are one part of several are definitions
(`AdapterTypes`, `HomeTypes`, `LedgerTypes`, `DirectoryTypes`) and stand as
hypotheses of the theorems; `MCDaemonRecords` and `MCFiles` assume them, so that
TLC evaluates them.

A `TypeOK` that is proved is not checked by a run as well: the constants of the
runs are an instance of the theorem's. Where no `TypeOK` is stated, the types
are a part of the inductive invariant.

The argument for the queue goes in layers, each inductive relative to the ones
before:

1. `TypeOK`.
2. `QueueSound`: the three sequences are injective and hold exactly the runs of
   their stage. The other invariants speak of stages, so this turns steps on
   sequences into steps on stages.
3. `RouteExclusive`: the set of marks is the set of routes of marked runs, and
   marked runs have different routes; so removing a mark at the finish frees
   exactly the route of the run that ended.
4. `WorkspaceCapHolds`, by the same correspondence with cardinalities.
5. `CronOverlap`, `NoLostWakeup`, `RecordedOnce`.
6. `ShutdownSound`, which strengthens `StopAccountsForRuns`: it says what is
   true from the moment the loop context is cancelled (an idle runtime has no
   marked run unless the deadline forced it, and a run being cleared is in the
   dispatcher's hands), because the property itself speaks of the last state
   only.

The refinement uses the first four layers: each action maps to one action of
`RunLifecycle` or to a stutter.

For the locked files, `LockExcludes` is inductive with `TypeOK`. `UpdatesKept`
is not: a rename replaces the file by what was read some steps before.
`KeptInv` adds that what a writer holds between its read and its rename
contains every update that has succeeded, which mutual exclusion preserves.
`ReadsInv` adds the same about the file a reader is about to get.

That `LockedFile` implements `SharedFile` needs more than `UpdatesKept`, which is
about writers that have succeeded. `ShareInv` says that what a writer holds
before its rename is exactly the file's content, and that the value of a writer
which has not replaced the file yet is nowhere: so the rename is the moment at
which its value appears, and an error before it has changed nothing. The other
actions map to the beginning or the end of a call or to a stutter (`Unseen`);
only a fallback maps to a rewriting in place.

For the installation, `AllOrNothing` is about a whole call, so `AloneInv` says
at each of its steps where the old version is (in the install directory, or in
the backup that `backupDir` names), and what the record is, as long as the call
ran alone. `SurvivesInv` adds to `PackageSurvives` that a process between its two
renames, or between them and its return, leaves a backup if the record names a
package; a rollback may empty the install directory then.

For the webhooks, `AnswerInv` says at each position of a handler what it has
done so far. The duplicate check sees the map only, so two invariants relate the
map to deliveries: each entry comes from a delivery in the queue (`EntriesInv`,
for "only repeats"), and each acknowledged delivery has an entry at least as
late as its own TTL until that has passed (`MemoryInv`, for "all repeats").

For the scheduler, `WindowIs` and `TickIs` turn the cuts to minutes and seconds
into plain comparisons, because due times are multiples of both: so the windows
tile although the tick is cut. `FiredInv` says where the due times that were
handed over lie relative to the last tick, the saved one and the catch-up in
progress, `MissedInv` where those that were not do, unless they are excepted:
beyond every tick reached so far, or in the hands of the catch-up. `reached`
bridges a loss of the saved tick: what lies between it and the next start is
`forgotten`, and nothing else.

The fields need no invariant of their own: `AcceptedPart` and `RejectedPart`
compare the readings of one part, `MeaningInField` bounds what a part names,
and the theorems lift them to fields. `SevensDisagree` goes through the ways to
write the two ends of a range; `StepsOfWeek` says which steps pass over a week.

For the routes, `TypeInv` adds to `TypeOK` the types of a call's local
variables. `RefInv` adds to `RefsAreOwn` that the call's record refers to its own
files from the step that writes the secret on: before it, it holds the
references of the route it replaces. The two tables agree with what was
answered only outside the call that is in progress, so `KeptInv` adds
`CallKept`: what the call has done so far agrees with what it will answer. The
file agrees or is gone (`FileAgrees`); a process that starts without it disturbs
what was answered of present routes, and of no absent one. The
one step that takes thought is a secret that is not given again: the file in use
is found through the old record (`WrittenSecret`), which is the promised one only
if the mode has not changed, and the step that removes the files of other modes
has left it there (`StaleRefs`).

For the registry, `PathInv` adds to `OneRecordPerPath` that an id that was never
given out is free and that what a refresher holds, between its read and its
write, has the path that its id has in memory: so what it stores late belongs
where it is stored. `AnswerInv` says that an answered id has its path in memory
while a process is up, and in the file unless a save has removed it. `NameInv`
bounds the names in the two tables and in the hands of refreshers; the record
that a refresher writes back is why `overtaken` is in it.

For the adapters, `EventFits` says at each position of an event what its route
and its executor's checks have settled; `AdapterInv` adds that a pinned name is
the one selected. `UpsertSelects` is the one step at which a selection may move.

For the processes over one home, `PortsHeld` says that a process between its
listen call and its end has the port it asks for. `OneAddress` says, unless the
home was `raced`, that all that have yet to take a port ask for the same one, that
no other is taken, and that whoever asks for port 0 starts alone; `SavedAddress`
that this is the port in `config.json`, if one is there, and that one is there
while a process serves or stops. A `config.json` that a save has removed fits
both, because the process that saves is then the only one with a port. `PlaceInv` ties the socket and
the admin server to the position of a process. `ReachInv` is about all other
processes: while one listens undisturbed, none is at a position from which it
may still remove the socket (`Touches`). `AloneInv` follows a lone start, and
`SavedInv` says that an answered registration, unless it was `removed` with the
file, is in the file and in the memory of every process that may still write it
(`Loaded`).

For a host setup, the invariant has a part for what an overlap spoils
(`TheirsKept`), one for what a cut call spoils as well (`WordsKept`), and one for
what holds in spite of an overlap (`NothingForgotten`): whatever is missing is
still to be written by each setup that goes on, or by one. `OneSetup` says that
without an overlap one setup at most is under way.

For the plans, `PlansMade` says that a file that is created is its creator's
own, in the layout that all read, and `PlansCounted` that the number a creator
has counted is above those of all who ended before. `NextNumberIsNext` is the
lemma between them: the next number is above those of all plans in the
directory.

`ReadersAgree` has three parts. That the commands pick the same plan is by their
definitions, once all files end in `.md`. That this plan has the highest number,
if all names are padded, is about their digits: `PaddedBefore` compares two names
by the digits of their numbers, `FitLength` says that a number that fits its width has
that many digits, `DigitStep` that each digit is what one more power of the base
adds to a quotient, and `SamePrefix` that equal digits make equal quotients; so
the first digit that differs decides (`NumberOrder`, and its converse
`DigitsOrder`; `NamesSortAsNumbers` has both). The powers are a recursive function, and no prover
knows that one exists; `TableExists` and `TablesAgree` make it out of finite
tables. The logs need an invariant, `LogsInv`: unless they are `reordered`, a log that was
written later is of a later day or of the same.

For the ledger, `LedgerInv` says that the text of an acknowledged record is in a
line of its day, torn or not, and that a file without damage has one record to a
line. `CallFits` says that what a call has still to find is in a file that it has
still to read. `WrittenKeeps` is about the bytes of one append.

For the footer, the lemmas say what the helpers return for every sequence of
lines: `TrimEnds` where the blank lines at the end begin, `FooterAt` where the
first footer is. `FootedKeepsAuthorPart` is the crux: a canonical footer below a
text without one is found again at the line where it was put, so that a second
refresh cuts the same text.

Three facts about numbers (`LeastNumber`, `LargestNumber`, `FiniteSetHasLargest`)
take the place of induction: every set of natural numbers has a least element,
because `<` is well-founded. This is how a first line, a highest number and the
newest records of a set are found in a proof.

Only model-checked: the liveness properties (`AcceptedRunEnds`, `ShutdownEnds`,
`CallsEnd`), which are out of the prover's reach, as `ENABLED` is, and the three
runs that expect a violation. The bounds on clock, faults and calls stay in the
theorems as constants of any value.

## Not modelled

- What a delivery contains: signatures, headers, JSON; a failing check is a
  free choice.
- What an `epicsd` that starts sees of a file which another one has removed and is
  about to rename: it may write defaults that the rename replaces, except that in
  `DaemonHome` the defaults may also come last. Two first starts at the same time
  on an empty home: its files are taken to exist.
- A foreign program at the webhook port, and binaries that `New` does not find.
- The records of other packages in `installs.json`, and installs of theirs whose
  failing save removes it.
- Two calls for one key of a state file: the later one wins, whichever it is.
- Removing a package directory step by step: `RemoveAll` is one step. A
  rollback meets no further error but a directory that is in its way.
- Warnings of `epics validate`, titles, summaries and excerpts; the text of a
  prompt and of a resume context.
- The probes of the doctor (writable directories, installed copies that differ
  from their source), the admin protocol's framing and its reading calls, the
  parsing of arguments and all printing: each reads and answers, and keeps no
  state.
- The user service, which writes a unit and calls `launchctl` or `systemctl`,
  the end-to-end harness (test code), the web site, the registry's data and the
  examples.

## What may come next

- A composition of `RunQueue` with `RouteTable` and `WorkspaceRegistry`, so that
  an event carries the snapshot that the other two modules change meanwhile.
- An abstract specification of a route table, which `RouteTable` would implement
  but for the two documented statements it violates.
