# Carrera Monitor in TLA+

Carrera Monitor reads a Carrera slot-car Control Unit over Bluetooth (or a mock),
fans the telemetry out to a CSV writer, a state file and a race service, and keeps
configured races in SQLite. Race pages (Streamlit) create, start, pause and finish
races. The specifications here model that program from its source: the race service with
its users and telemetry threads, the safety car, the connection supervisor with the
settings file, the pipeline from the adapter's queue to the files, and the live adapter
with the runner that reconnects it.

To run: `tlc -workers 2 -config race_together.cfg MCRaceService` (each `.cfg` with the
module that section 3 names), and `tlapm` on each of the eight `*Proofs.tla`.

Paths below are relative to the repository's `src/` package unless they start with
`specs/`, `tests/` or `README.md`.

## 1. The system

### Processes and threads

`main.py` is the telemetry process: one asyncio loop with the connection supervisor,
the adapter's pump, the event writer, the state manager and the race runner, which
calls the race service through `asyncio.to_thread` (so on worker threads). The race
pages (`app.py`, `pages/`) run either in the same process or, as README.md:131-135
documents, in a Streamlit process with one thread per browser session. What is shared
between processes is only the SQLite file, the runtime settings file and the files the
state manager and the writer produce. Everything in class-level singletons
(`ActiveRaceContext`) is per process.

### Components

| component | state | operations | interacts by | hard because |
|---|---|---|---|---|
| Race service (`services/race_service.py`, `repositories/`, `models.py`, `database.py`) | rows of races, laps, checkpoints, lap identities, reports | create, update, delete, repeat, mark_ready, start, pause, resume, finish, cancel, record_lap, recover_on_startup | called by pages, runner and `main.py`; SQLite | status is read in one transaction step and written by primary key in another; pysqlite reads outside a transaction; a `SAVEPOINT` opened outside one commits on release |
| Active race context (`race_context.py`) | one race id and an RLock per process | get, set, clear, lock | read by the runner, written by the service | per process; some clears are not in the same lock section as the look that justified them |
| Race runner (`race_runner.py`) | subscription queue, two tasks | consume a lap, tick | bus to service, on worker threads | both threads call the service beside the users |
| Lap continuity (`services/live_continuity.py`) | none of its own | identity, checkpoint seeding, slot mapping, active cars, link record | called by record_lap and recovery | numbers must survive restarts |
| Reporting (`services/reporting_service.py`) | report rows | standings, summary, export | snapshot after finish and cancel | a transaction after the one that ends the race |
| Safety car (in `race_service.py`) | race_events rows, a flag cached per service instance | set, is_active, record_event | pages, bus | the cache is not refreshed while a race runs |
| Bluetooth supervisor (`services/bluetooth_connection_supervisor.py`) | connection state, desired state, retry counters, operation lock, wake event | connect, disconnect, retry_now, scan, set_preferred; the run loop | calls an adapter, reads settings, emits lifecycle events | user calls and the loop interleave at every await |
| Runtime settings (`services/runtime_settings.py`) | one JSON file | setters, command slot | written by pages and supervisor | unlocked read-modify-write by two processes |
| Event bus, state manager, writer (`event_bus.py`, `state_manager.py`, `storage.py`) | bounded queues, state file, CSV batch | publish, consume, drain | `main.py` starts and stops them | drop-oldest, order of shutdown |
| Live adapter, legacy runner, mock (`carrera_client.py`, `mock_client.py`) | connection, reader thread or task, lap counters | connect, read, reconnect | feeds the pump | reconnect, numbering, idle watchdog |
| Wiring (`main.py`) | order of start and stop | run, shutdown | all of the above | crash and restart |
| Dashboards, configuration, utilities | none shared | rendering, parsing | files | nothing a model adds to |

`PROJECT.json` lists all of them with their status, and the hazards of this code, each at
its line.

### What makes each component correct

* Race service: the status of a race moves only as `_VALID_TRANSITIONS` allows; at most
  one race runs per process (FR-110); a running race is the one telemetry goes to;
  laps are written only while the race runs (FR-120); lap numbers have no gap and no
  repetition and agree with the checkpoint; a crossing is counted once; the leader's last
  lap ends a `fixed_laps` race; the summary agrees with the laps; every call releases the lock.
* Supervisor: one link at a time; a manual disconnect wins; a lost link is retried with
  the documented back-off while connecting is desired; no request is lost or handled twice.
* Settings: no setter's change is lost; each command is executed once.
* Safety car: every reader sees the last toggle; no event is stored for a race that ended.
* Pipeline: no subscriber starves another; what was published before shutdown is stored;
  the shown state is the result of a prefix of the events.
* Adapter: lap numbers rise; loss of the link is noticed; one reader per connection.

## 2. Modules

| module | models | built from |
|---|---|---|
| `RaceLifecycle` | the races' transition table (abstract) | |
| `RaceService` | race service, context, runner threads, users, recovery | refines `RaceLifecycle` |
| `SafetyCar` | safety-car rows, the flag of each session | moves races by `RaceLifecycle` |
| `RuntimeSettings` | the settings file and the pages that write it | |
| `ManagedLink` | what the supervisor promises of the link (abstract) | |
| `BluetoothSupervisor` | run loop, API calls, operation lock, adapter | extends `RuntimeSettings`, refines `ManagedLink` |
| `LossyFeed` | what a drop-oldest queue promises its consumer (abstract) | |
| `DropOldest` | such a queue | |
| `TelemetryPipeline` | pump, bus, writer, state manager, race subscriber, shutdown | extends `DropOldest`, refines four `LossyFeed`s |
| `RawFrames` | frames of the unit into events, validation | |
| `LiveRunner` | live adapter, reconnecting runner, disconnect | extends `RawFrames`, `DropOldest` |

An `MC...` module beside each state machine gives TLC its constants; `...Proofs` modules hold
the theorems of section 5. Definitions whose comment begins with "Mutant:" (and in
`RaceService` those whose comment speaks of a slip, such as `UnlockAny`) are not used by the
specifications: each is a plausible mistake, paired in the "mutants" of `PROJECT.json` with
the property that then fails.

### `RaceLifecycle`

The abstract specification: `status` per race id and the transition table, one atomic
action per transition, with `NoneRunning` as a guard of `Start` and `Resume`. It knows
neither locks nor threads nor the context.

### `RaceService`

State and the code it stands for:

| variable | code |
|---|---|
| `status`, `mode`, `startedAt`, `finishedAt` | columns of `races`; `"absent"` is no row, the time stamps are whether they are set |
| `laps`, `checkpoint`, `identity` | `race_laps`, `race_lap_checkpoints`, `race_lap_ingest_identities`, per race and car |
| `report` | the laps counted by the latest `race_summary` row |
| `ctx[p]`, `lock[p]` | `ActiveRaceContext._race_id` and the holder of `_lock` in process `p` |
| `call[t]` | which service call thread `t` is inside, and between which two of its steps |
| `lap` | the lap event in the hands of the consumer |
| `pending` | the running races recovery still has to visit |
| `stranded` | history: running races that `recover_on_startup` did not reach because an error ended it, or that were started by a call whose error after the COMMIT kept them out of the context |
| `deleted`, `failures`, `deletes` | history and bounds |

Grain. A database transaction is one step, as is a change of the context with its lock
held. A handler is split wherever another actor can act in between: between a `SELECT`
and the `COMMIT` after it (pysqlite opens no transaction for a `SELECT`), between two
transactions, and where the lock is not held. So `start_race` is `UserCall` (take the
lock, look at the context, lines 180-184), `Preempt` (the auto-pause, its own
transaction), `Check` or `Refuse` (`_transition` reads and consults the table), `Write`
(the commit and the change of the context) and, for finish and cancel, `Snapshot`.
`record_lap` is `LapArrives`, `Load`/`Drop`/`OrphanClear`, `Register`/`Duplicate` (the
savepoint, durable by itself), `FirstLap` or `LoadCheckpoint` and `CommitLap`, `Rank`
and `AutoFinish`. `delete_race` is `DeleteCheck`, `DeleteWrite`, `Unlink`, `Clear`.
`DatabaseError` is a SELECT that fails or a transaction that rolls back; `RefreshFails` is the
error after the COMMIT (`Commit`), in the SELECT of `session.refresh` (race_service.py:291): the status stands and
the context is not settled. `RowGone` is what an UPDATE or INSERT does
after the row went, and `Crash` takes a process down between any two steps; `BootList` and
`RecoverNext` are `recover_on_startup`, after which the telemetry threads serve
(`Serving`). An error while recovery lists the races, seeds one (`RecoveryFails`) or pauses it (`EndRecovery`)
ends all of it: main.py logs the exception and goes on (main.py:144-147).

Data is abstracted to what the properties tell apart: a name, a configuration and a wall
clock are absent; a lap is a car and a Control Unit timestamp (its identity); whether a
fixed duration has elapsed is a choice (`TickerJudge`). Lap events of cars without a
driver, which are dropped with a warning, are not generated.

### `MCRaceService`, the `race_*.cfg` files

Constants for TLC. *Together*: pages and telemetry threads are in one process with one
user thread, what the documents assume (specs/001-race-management/spec.md:166). *Apart*:
the pages in a process of their own, as the README deploys them.

### `SafetyCar`

| variable | code |
|---|---|
| `status` | `races.status`, moved by `RaceLifecycle`'s actions (`race_together` shows the service implements them) |
| `log[r]` | the safety-car rows of `race_events`, in the order of the commits; `at` is the time stamp they are later sorted by |
| `cache[s][r]` | `_safety_car_active` of the `RaceService` that browser session `s` keeps |
| `call[s]` | where the session's script is: drawing the button (`listed` to `shown`), or inside `set_safety_car` (`checked` to `stamped`) |

`Told` is what an answer of `is_safety_car_active` leads to for each of its two callers;
`LookInactive`, `LookCached`, `LookMissed`, `ReadLog`, `ReadFails` are its paths. Neither it
nor `set_safety_car` takes a lock, so each `SELECT` and the `COMMIT` are steps of their own.
The wall clock is assumed not to go back. The dashboard makes a service per look: it is a
session that has just restarted.

### `RuntimeSettings` and `BluetoothSupervisor`

`RuntimeSettings` has the file, what each writer still has to set (`todo`) and the copy it
works on (`hand`): every setter of `services/runtime_settings.py` is `Load`, then `Save` (or
`SaveFails`), with other processes between. The supervisor writes through the same two
steps, as the writers `loop` and `api`; `torn` records that such a save undid one of a page.
A read (`Readings`) gives what the file holds or, when it cannot be read or parsed, the defaults,
which a setter then saves over the file (`forgotten`).

In `BluetoothSupervisor` all coroutines share one event loop, so a step is what one does
between two points where it is really suspended; `LoopBusy` and `ApiBusy` keep the other one
out meanwhile, and the pages are kept out by nothing.

| variable | code |
|---|---|
| `desired`, `manual`, `status`, `stop`, `lastSeq` | the fields of those names |
| `adapter` | `_adapter` with its event generator: none, live, failed (reader raised, queue empty), finished (ended by a cancelled read) |
| `lock` | holder of `_operation_lock`; a release hands it to the one that waits |
| `loop` | where `_run` is: `Top`, `Consume` (the command slot), `Decide`, `Resolve` to `Connected`/`ConnectFails`, `Event`, `Quiet`, `StreamEnds`, `LoopScans`, ... |
| `api` | the API call (`connect`, `disconnect`, `retry_now`, `scan_devices`, `shutdown`) and where it is |
| `strays` | links that only a thread knows of: a connect or close dropped by a timeout or a shutdown leaves its `to_thread` call running (`LinkLeft`, `StrayEnds`) |
| `use` | `monitor`: only main.py uses it (connect at startup, pages through the file); `embedded`: other code calls the API |

`Crash` and `Boot` end and start the process at any point. The configuration flags have
their default values; back-off lengths, attempt counters, device ids and the wake event
(which only shortens a wait) are abstracted.

### `LossyFeed`, `DropOldest`, `TelemetryPipeline`

Events are named by their place in the stream. `emitted` and `published` are the streams,
`queue` the four bounded queues, `got` (history) what each consumer took. `Pump` is main.py's
pump with `EventBus.publish`; `Write`, `WriterCloses` the writer with its batches and final
drain; `disk` is the log file: its lines, those still in the buffer Python keeps in front of it
(`kept`), those lost (`failed`), and whether it ends in a torn line (`cut`). `Writes` and `Closes`
give what a batch or a close may leave there: a flush that fails keeps what the disk did not take, a batch
beyond the buffer may be refused in the middle of a line, and the first line appended to a torn one is lost
with it. `Manage`, `Refresh`,
`ManagerCloses` the state manager, `board` its state and `shown` the state file, with the
standings as `Order`, the enumeration of the cars in which each is `Ahead` of the next;
`RaceCalls`/`RaceReturns` the race subscriber, whose call may never return. `Signal`,
`PumpCancelled`, `AdapterStops` and the closing actions are the shutdown of main.py in its
order (`main`); `ProcessEnds` is the end of `asyncio.run`, which first joins the threads of `to_thread`.

### `RawFrames`, `LiveRunner`

`RawFrames` is pure: `FuelFrames`, `PitFrames`, `SpeedFrames`, `StartFrames` compare two
statuses of the unit, `LapFrame` is what a timer makes, `Primary` and `Translate` turn a
frame into events, and `Accepts` is the validation of `event_model.py`, without which an
event is told as `not_supported`. The loops over the slots of a status are the increasing
enumeration (`InOrder`) of the slots that changed.

`LiveRunner` has the unit (`clock`, `saying`; external), the adapter (`cu`, `reader`, `why`,
`streak`, `heard`, `inq`), the runner's task (`runner`, `first`, `backoff`, `latest`, `said`)
and the task that calls `disconnect` (`asking`). A poll that answers is `Repeats`,
`HearsStatus` or `HearsTimer`; one that times out `TimesOut`; one that raises `PollFails`.
What one poll says is put in the queue at once (`OfferAll`, which is `Offer` of one event after
the other: theorem `OfferedInTurn`), since the reader does not wait in between; `Events` are
those of a status. The runner connects (`Connect` to `Resets`), forwards (`Forward`), sees an error or an end,
closes, sleeps and wakes. `disconnect` sets the stop flag, closes the adapter, waits two
seconds and cancels. `laps`, `lost`, `leaked` are history.

## 3. What the runs check

| run | instance | shows |
|---|---|---|
| `race_together` | one process, one user, 2 races, 1 car, no laps, 3 failures | `TypeOK`, `LockDiscipline`; `RunningIsTracked`: outside recovery a running race is the one the context names; `LifecycleSpec`: the split, failing, crashing service implements `RaceLifecycle`; both until an error strands a race |
| `race_apart` | two processes, two users, 1 id re-used after a deletion, 1 failure | `LockDiscipline` with two threads in contention; `StampsExplainStatus`: the facts about a row that no interleaving of unguarded UPDATEs breaks |
| `race_live` | one process, one user, 2 cars, 2 timestamps, target of 1 lap, recovery by pausing, 1 failure, fairness | `LapLedger`, `CrossingsAccounted`, `LapsBounded`, `ReportComplete`; liveness: `LeaderEndsRace`, `CallsReturn` |
| `race_late_lap` | one process | `LapsStopAtFinish` is violated: a lap loaded while the race ran is committed after the finish (FR-120) |
| `race_orphan` | one process, one deletion | `OneRaceRuns` is violated: the lap consumer finds the race of its lap deleted and clears a context that names another race by then; the next start leaves two running (FR-110) |
| `race_unfed` | two processes | `RunningIsTracked` is violated: the telemetry process never learns of a race started by the pages |
| `safety_car` (`MCSafetyCar`) | 1 race whose id can be re-used, 2 sessions, 3 toggles, 2 failures | `OneLateRowEach`, `LoneSessionAlternates`, `FlagHasItsRow` |
| `link_supervised` (`MCBluetoothSupervisor`) | both uses, 1 page session, 2 buttons, 3 presses, calls and starts in all, 1 read that gives the defaults, 1 thread left behind; fairness | `OneLink`: one link at hand, and one more for each connect or close that was dropped; `StatusTellsTheLink`; `SlotNotBehind`; `LinkSpec`: the supervisor implements `ManagedLink`; liveness: `LostLinkRetried`, `CallsReturn`, `DisconnectObeyed` |
| `link_idle` | the same, 3 in all | `SilenceIsNotLoss` is violated: half a second without an event closes a link that is up (specs/005 data-model.md:93) |
| `link_manual` | the same, 4 in all | `ManualDisconnectWins` is violated: the loop decided to connect before it waited for the lock behind a disconnect (specs/005 spec.md:59) |
| `pipeline` (`MCTelemetryPipeline`) | queues of 2, 1, 1, 1, batches of 1, two stories of 3 events; fairness | `LogTellsAll`, `FileTellsAPrefix`; `FeedSpec`: each queue implements `LossyFeed`; `FileTakesNothingBack`; liveness: `NobodyWaitsForTheRace`; `StopsWhenTold`: a signal stops every task whatever the race call does, and the process ends unless that call never does |
| `live_runner` (`MCLiveRunner`) | slots 0 and 7, two statuses, 3 crossings, queue of 2, warning at 2 and end at 3 timeouts, periodic renewal; fairness | `LapsDoNotOverlap`, `ToldAsPolled`, `NothingLeftOpen`, `StallToldFirst`, `BackoffStartsAnew`; liveness: `SilenceIsGivenUp`, `DisconnectEnds` |

`race_unfed` needs the deployment of README.md:131-135, which the specification of the
race management (spec.md:166) declares out of scope; both texts are in the repository.
`race_orphan` needs one process and one user, `link_manual` a caller of the supervisor's API
(the pages ask through the file).

What the properties would catch, in words: `CrossingsAccounted` says that a crossing in the
identity table is missing from the laps only while it is being recorded or once per
crash or database error. That loss is real: the identity is durable before the lap.
`LapsBounded` says a `fixed_laps` race overshoots only by one lap per crash or error, since only
those can keep a lap that reaches the target from finishing the race.
`ReportComplete` says the summary misses at most the one lap in flight.
`LoneSessionAlternates` lets a row repeat the one before only after a failed read or an end
of the race inside the call: one row per change (FR-212, FR-213) is what is left when one
session alone toggles, through its restarts and with others reading. `OneLateRowEach` bounds
what the look at the status before the write misses (FR-214). `FlagHasItsRow` bounds how stale
a flag can be: not older than the session's own last toggle.
`FileTellsAPrefix` compares the state manager's event-by-event `Apply` with an account of
all events at once (`Account`), and its order with what the order means. `LogTellsAll` and `FeedSpec`
together say where an event can be lost: in a full queue, on a disk that refuses, nowhere else; `disk.failed`
names the events of the second kind.
`SlotNotBehind` and `DisconnectObeyed` hold until a setter has saved the defaults for a file that could not be read; a read
that goes wrong in the supervisor is in them.
`LapsDoNotOverlap` holds across reconnects because each adapter begins without a last
crossing; `ToldAsPolled` says that the states told follow the polls through repeats,
recoveries and renewals, unless the queue overflowed.

### Bounds and why they are enough

* `MaxRace = 2` where two races matter (auto-pause, one race running, the context naming
  the other one): transitions look at the call's race and the one in the context, no third.
  `MaxRace = 1` elsewhere: laps of different races share no row, and re-used ids need one.
* `Car`, `CuTime`: one each where laps only have to exist (`race_apart`); two each in `race_live`, so that one car leads, a timestamp is repeated
  (a duplicate) and a second lap follows one that failed to finish the race.
* `LapTarget = 1`: one lap reaches it and a second overshoots it; auto-finish, ranking
  and late laps all happen.
* `MaxFailures`: 1 is one crash or database error at every possible step. `race_together` has
  3, enough for a crash, an error in the recovery after it and one more in what follows, and
  pays for them with `NoTime`: no property of that run speaks of laps, and the auto-finish is
  reached by the ticker. More faults are left to the theorems, which have no bound.
* `MaxDeletes`: 0 where properties hold only without deletions, 1 elsewhere.
* `RecoverRunning`: TRUE in the first two runs, FALSE in `race_live`, so both branches of
  recovery are taken.
* `safety_car`: two sessions are one that toggles and one that may interfere; three toggles
  give a row its predecessor and one to be late; a second failure can hit the read and the
  commit of one call.
* `MaxEvents = 3` in `link_supervised` counts buttons, API calls and starts together: a start and two
  buttons, a start, a button and a call, or a start, a button or a call, and a restart. One misread
  (`MaxMisreads`) falls on any read, one thread left behind (`MaxDrops`) on any connect or close. Calls of the API are made one at a time: main.py makes no two at
  once (`connect` at its start, `shutdown` at its end), and two of an embedding program
  would wait for each other at the operation lock.
* `pipeline`: the program has 8192, 1024, 2048 and 4096 places and batches of 512. With
  capacities of 1 and 2 three events overflow each queue, and the theorem `FeedsKept` holds for
  any. `LogIsWhole` holds for any batch; here one line is a batch, and lines kept from a failed flush make several.
  The stories have a car whose laps come out of order, a car without laps, an unknown
  car, a link event and a lap of zero milliseconds.
* `live_runner`: `QueueCap = 2` overflows with a status that changes twice; three crossings give
  two laps of one car, or a renewal between them; slot 7 has no car. `Hard = 3` is the
  smallest the code allows (`max(3, ...)`), and `MaxBackoff = 1` lets the back-off grow once.
* Symmetry is used in the safety runs only: cars, timestamps and the users of a process are
  compared and never ordered.

`CHECK_DEADLOCK` stays on in the runs of the race service and the safety car. The supervisor
and the runner stop for good after a shutdown or disconnect, and the pipeline ends with its
process, so their runs switch it off; liveness says what must happen before.

### Fairness

`FairSpec` has weak fairness for the steps of a thread inside a call under the lock
(`InLocked`), for recovery (`Booting`) and for the ticker's look at the row: a thread in
Python code that waits for nobody goes on. Strong fairness is assumed where a lock is waited
for (`InUnlocked`, whose `Unlink` and `Clear` need it, `Recording` with `OrphanClear`, and
`AutoFinish`): the lock is released after each call, and a person clicking leaves it
free for long enough that a waiting thread gets it. Nothing is assumed of users, cars,
crashes and faults.

* Supervisor: weak fairness of the run loop's steps (its waits have time limits) and of each
  writer of the file; strong fairness of the steps of an API call, which waits for the operation
  lock and is served in turn by asyncio's lock. Nothing of pages, links and crashes.
* Pipeline: weak fairness of the pump, the writer, the state manager, its refresh and the shutdown,
  tasks that are scheduled again after each suspension. A race call need not return (the second half of
  `StopsWhenTold` supposes that it is over again and again); the adapter's own stop is assumed to.
* Live: weak fairness of the reader (a poll has a time limit), of the runner's forwarding and
  closing, of its sleep and of `disconnect`. None for opening and resetting the unit, which
  may take forever: `DisconnectEnds` holds all the same.

## 4. Facts the model brought out

* In the Apart deployment no lap is recorded for a race started from the pages until the
  telemetry process restarts with `recover_running_race` on.
* A crash followed by an error in the recovery after it leaves a race running that no context
  names (`stranded`): its laps are dropped, nothing ends it, and a second race can be started
  beside it. `RunningIsTracked`, `LifecycleSpec` and the theorem `OneRace` hold up to that
  moment. It takes two faults, so no run with one sees it. One fault is enough in `start_race` and
  `resume_race`: an error of the refresh after the COMMIT (race_service.py:291). The instance of `race_orphan`
  with `MaxFailures = 1` and `MaxDeletes = 0` violates `OneRaceRuns` through it.
* A connect that times out leaves a thread that may open a unit nobody holds, beside the one of the
  retry: `OneLink` counts such links (`strays`) and fails without the `drops` that
  allow for them (specs/005 plan.md:20 speaks of one active session). A settings file that is read as the defaults while it cannot be parsed loses
  the wish and the command sequence with the next save, although specs/005 data-model.md:53 calls the
  sequence strictly increasing: `SlotNotBehind` fails without `~forgotten`. Commands are then taken for
  old ones until the sequence has caught up or the telemetry process restarts.
* A failed flush of the log loses nothing by itself, although "write failed" is logged: the lines come with
  the next batch. A write refused beyond the buffer tears a line, and the next batch continues it,
  against specs/main/contracts/event-log.md:8 and 42 (one event per line, a partial line only at the end):
  `LogTellsAll` fails when `failed` leaves out the line that was joined to a torn one.
* A race call that never returns keeps the process alive after the shutdown: `asyncio.run` waits for its thread.
* SQLite re-uses the id of the newest race when it is deleted (the primary key is
  declared without AUTOINCREMENT): a lap or call in flight then lands in the next race of
  that id. `LapLedger`, `StampsExplainStatus` and `CrossingsAccounted` therefore speak of ids never
  deleted, and the runs for `LapsBounded` and `RunningIsTracked` delete nothing.
* In the Apart deployment a pause that was checked before the ticker's finish and written after
  it takes a race out of `finished` (specs/001-race-management/data-model.md:247 has no such
  arrow); `StampsExplainStatus` is what remains true.
* Each browser session has a safety-car flag of its own and reads the rows only when it has
  none: two sessions can disagree for the whole race and both write the same change. A failed read is told
  as "off" inside `set_safety_car` too. A session that set the flag of a race which was then
  deleted shows it for the next race of that id.
* main.py connects at every start (main.py:191), also after a manual disconnect that was stored.
* A loop that is poisoned by an exception of a scan (`LoopPoisoned`) is started again only
  by an API call; a scan that raises inside an API call leaves the state at `scanning`.
* A page's request can be undone by a setter of the supervisor that loaded the file before
  (`torn`); `SlotNotBehind` holds for one session, two can hand out one sequence number twice.
* The state manager drops what is queued for it at stop (state_manager.py:373); the writer
  drains. A car's `lap_count` is a maximum, so it stands still after its numbering restarts with a new
  adapter.
* A first attempt to connect that fails leaves the unit's clock unreset for good; the first
  crossing of a car after a reconnect gives no lap. `disconnect` can leave a unit open: one whose
  opening or reset it cancelled.
* `mark_ready`, `update_race`, `delete_race` and `record_lap` take no lock; with two users
  in one process nothing but the stamps and the lock discipline is left of the lifecycle.

## 5. What is proved

For every value of the constants that satisfies the assumption of the module (so any number of
races, cars, users, processes, sessions, calls, failures and deletions; any capacities, batches
and stories). The theorems marked * assume one session besides, as told below.

| module | theorem | states |
|---|---|---|
| `RaceServiceProofs` | `TypeCorrect`, `LockSafe` | `Spec => []TypeOK`, `Spec => []LockDiscipline` |
| `RaceLedgerProofs` | `LedgerSafe`, `StampsSafe`, `CrossingsSafe` | `Spec => []` of `LapLedger`, `StampsExplainStatus`, `CrossingsAccounted` |
| `RaceTogetherProofs` | `RunningTracked`*, `OneRace`* | `Spec => []RunningIsTracked`; FR-110: `OneRaceRuns` while no race is stranded |
| | `LifecycleKept`*, `LifecycleImplemented`* | `Spec => LifecycleSpec`; refinement of `RaceLifecycle` |
| | `EndIsFinal`* | a race that has ended keeps its status |
| | `DistanceSafe`*, `ReportSafe`* | `Spec => []LapsBounded`, `Spec => []ReportComplete` |
| `SafetyCarProofs` | `TypeCorrect` | `Spec => []TypeOK` |
| | `LateRowsBounded`, `FlagsHaveRows`, `LoneAlternates` | `Spec => []` of `OneLateRowEach`, `FlagHasItsRow`, `LoneSessionAlternates` |
| `BluetoothSupervisorProofs` | `TypeCorrect` | `Spec => []TypeOK` |
| | `OneLinkAtATime`, `StatusOfTheLink` | `Spec => []OneLink`, `Spec => []StatusTellsTheLink` |
| | `CommandsAreRead`* | `Spec => []SlotNotBehind` |
| | `LinkManaged` | `Spec => LinkSpec`: refinement of `ManagedLink` |
| `TelemetryPipelineProofs` | `TypeCorrect` | `Spec => []TypeOK` |
| | `FeedsKept` | `Spec => FeedSpec`: refinement of `LossyFeed`, four times |
| | `LogIsWhole`, `FileIsAPrefix` | `Spec => []LogTellsAll`, `Spec => []FileTellsAPrefix` |
| | `NothingTakenBack` | `Spec => FileTakesNothingBack` |
| `LiveRunnerProofs` | `TypeCorrect` | `Spec => []TypeOK` |
| | `NothingLeft`, `LapsInOrder`, `ToldAll` | `Spec => []` of `NothingLeftOpen`, `LapsDoNotOverlap`, `ToldAsPolled` |
| | `BackoffAnew`, `StallTold` | `Spec => BackoffStartsAnew`, `Spec => StallToldFirst` |
| | `OfferedInTurn` | offering several events at once is offering one after the other |
| `RawFramesProofs` | `AlwaysAccepted`, `CrossingIsALap` | every event made of a frame is valid; a crossing after an earlier one is a lap |

The hypotheses `OneSession`. In `RaceTogetherProofs`: every user lives in the process of the
pipeline, there is one user at most, and nothing is deleted. It is the deployment that
specs/001-race-management/spec.md:166 assumes, and each part is needed: `race_unfed` breaks
`RunningIsTracked` with a second process, `race_orphan` breaks FR-110 with one deletion, and
two users in one process can start a race that one of them is editing. Crashes and errors
stay unbounded; the ones that strand a race end what `RunningTracked`, `OneRace` and the two theorems on the
lifecycle say. In `BluetoothSupervisorProofs`: one page session, since two can hand out one sequence
number. The other bounds, laps, races and clicks are free in both.

In the race service `ConstantsAssumption` says that the bounds are numbers, every user and the pipeline live in
a process, the consumer and the ticker are two threads that are no users, and `None` is
none of the things it stands in for.

* *Types.* `TypeOK` is not inductive. `Typed` adds that a call under way names a race and,
  under the lock, a method of the transition table (`CallsMade`; a write looks it up in
  `NewStatus`), that the consumer has a lap in hand in the stages of `record_lap` (`LapInHand`),
  and that the laps are finite (`FiniteLaps`; seeding counts them). One lemma for each part,
  each with one step per action; `AlwaysTyped` feeds the other theorems.
* *Lock.* With `Typed`, `LockDiscipline` is inductive. Every step is one of three kinds, each
  with a lemma: it stays on its side of the lock (`LockStaysGoto`, `LockStaysFor`, `LockAside`),
  takes a free lock (`LockTaken`) or returns (`LockReturned`); a crash frees a process at once.
* *Ledger.* `CommitLap` writes a number computed in an earlier transaction. `NumberFresh` says
  it is still one past the checkpoint: only the consumer writes laps, and recovery is over
  before it consumes. `OneMore` is the fact about sets, 1..n with n + 1 is 1..n + 1 and has
  n + 1 elements.
* *Crossings.* `CrossingsAccounted` compares the number of identities with the number of laps, so
  the induction needs that both sets are finite (`FiniteCrossings`), and that every way out of
  `record_lap` between the two transactions has paid one failure.
* *Stamps.* A write acts on a decision taken a step before, so the reason has to be carried:
  `StampsInv` says that whatever a call is about to pause, resume, finish or record a lap for,
  and what a context or the recovery list names, was started (or its id was deleted); and
  that a started race whose id was never deleted still has its row, so that no new race takes it.
* *One session.* `Orderly` carries from stage to stage why the next write of a call is right: the
  status it checked is there still when it writes, since whoever could change it holds the lock,
  is the same user or is busy with a race of another status; what is to be paused before a
  start runs; the threads of the pipeline only handle races that were started; recovery is over
  before a call begins. `Alone` adds that a running race is in the context, in the list of
  recovery or in the pause recovery is making (`Tracked`), and that no race runs beside one that is about to be
  started. Without `Orderly` neither is inductive: a start that was checked could be written over a
  finish. The refinement (`LifecycleKept`) then maps `Write` to the transition that was
  checked, and `RowsStay` says that ended rows do not move.
* *Distance and report.* The consumer decides to rank a race by the mode it read when the lap
  arrived (`RankedByMode`), and a race whose car has all laps is over or about to be finished by
  the consumer, which adds none meanwhile (`Distance`). `Reported` says what is in a report: the laps
  there are, or all but the one lap the consumer had loaded, after which it loads no more.
* *Safety car.* `LateInv` says that a session that is about to write to an ended race has
  no late row there yet: once a race has ended, `Click` refuses. `StampInv` says that the stamps of one
  session grow with its rows and that the stamp in hand is newer than all of them, so a
  row of its own is never older than its flag; whatever a flag was read from is at least as new as the
  session's last row. `BegunInv` (a race somebody is toggling has begun or ended, unless
  deleted) and `LoneInv` (a lone session is about to write the opposite of the last row) carry the
  alternation; `LastOfLone` is why the newest stamp is the last row then.
* *Link.* `LinkInv` names who holds the operation lock in which phase (`LockHeld`), that an
  adapter is given up before it is closed (`OneAdapter`), and that the wish seen at the decision still
  stands when the link is opened in main.py's use (`WishLasts`). The refinement then goes action by
  action: each maps to a step of `ManagedLink` or to none. `OneLink` has two halves: the loop and the calls
  never have two links at hand (`HeldOnce`), and every link of an abandoned thread is paid for by a drop
  (`StraysCounted`), since only `LinkLeft` adds one.
* *Command slot.* `Turns` says that the run loop and an API call take turns at the file and that a
  process going down has no loop; `Drafts` that the process stores no commands when main.py runs
  it; `SlotInv` that what was loaded is not behind what was read, and that no one but a page
  moves the slot. So a stale save can undo a request, but never make a new one look old; only a setter that
  saves the defaults can (`forgotten`), while a misread of the supervisor's own (`ReadingIs`, `OnlyRead`) is harmless.
* *Feeds.* `Streams` says that each queue holds a window of the numbers sent to it: the last
  ones, as many as its consumer has not taken and there is room for. `WindowOffer` and
  `WindowTaken` move it. The file: every step of the manager keeps the board (`Kept`, reflexive and
  transitive), and what is shown is a board of before.
* *Log.* `Numbered` (what a consumer took is in order and not twice) and `LogInv` (the lines in the file, those kept and
  those lost share out what was taken, each in its place). `Parted` cuts the lines where the disk stopped taking them,
  `ReachedShares` adds what got to the file, and `Shared` puts the three parts together for each outcome of a
  write (`WritesShare`) and of the close (`ClosesShare`). `Stages` says the writer's queue is empty when
  main.py goes on.
* *Prefix.* `Account` is stated with `Max`, `Min` and sums over a growing sequence; `Tells` states the
  same with a witness for each, which a further event moves (`ApplyTells`), and the account
  can then only be the board (`TellsTheAccount`). `OrderIsOne` shows that the order of the
  standings exists: the number of cars ahead of a car is its place, and no two share it.
* *Live.* `Control` relates the runner's phase to the adapter's and to `disconnect`'s; `Anew`
  that a runner which was connected has its back-off reset. `LapInv` says that what the reader knows
  of a car is not before the end of its last lap told.
* *Told.* `LatestIs` says what a reader of a queue will have got of a type in the end;
  `StillLatest`, `JoinedLast` and `LatestOfTail` move it through an offer and a take. `Told`
  relates it to the count of timeouts and to the status heard; `Idle` says that an adapter which is left
  leaves neither events nor a count to the next. `StatusEvents` is what a status puts in the
  queue: nothing about the link, and the state of the race last, if it changed.

Only model-checked: the liveness properties (`LeaderEndsRace`, `CallsReturn`, `DisconnectObeyed`,
`LostLinkRetried`, `NobodyWaitsForTheRace`, `StopsWhenTold`, `SilenceIsGivenUp`,
`DisconnectEnds`), which the prover does not reach (no fairness, no ENABLED). Every invariant and
every action property of a passing run is stated by a theorem. Laid out so that they can be proved about are
`Order`, `InOrder`, `OfferAll` and `Events`: an enumeration or a window says in one step what a
loop would do, where `SelectSeq` and folds would need induction over a sequence.

## 6. Plan

Done: the race service (A), the supervisor and the settings file (B, C), the safety car (D), the
pipeline (E), the live adapter and the runner (F, G), and the proofs of their safety properties.
Left, in the order of importance:

| what | why |
|---|---|
| the theorems of one session for races that are deleted, other than the one at hand | `MaxDeletes = 0` is stronger than needed where a deleted race was never in the context |
| `SlotNotBehind` for several sessions whose numbers do not collide | names what two pages need of each other |
| refinement of the queue of lifecycle events and of the runner's output queue | two more `LossyFeed`s |
| pure algorithms: standings of the report, active cars, device choice | each against a reference definition over bounded inputs |
| the supervisor's other configurations (`reconnect_on_stale` off, manual calls refused) | each flag closes a path that is modelled |

## 7. Not modelled, and why

* Rendering, CSV exports, the HTTP handler of the dashboard: pure functions of files or rows.
  YAML configuration and file helpers; schema creation; drivers and their validation (rows
  written once with the race).
* The mock's random generator: its laps are the lap events of the models.
* Rows of `race_events` other than the safety car's: written by transitions and by
  `record_event`, read by no code that decides anything.
* `_safe` of the race pages evaluates its callable twice: in the model that is one more call
  of the same user, which users may make at any time; no property tells the second call from a wanted one.
* Supervisor: back-off lengths, retry counters, the choice of a device, the queue of lifecycle
  events, a cancelled loop that swallows its cancellation at shutdown.
* Pipeline: the CSV beside the log (a projection that fails by itself), most fields of a car in
  the state manager, the active-car window, a hand-over that `wait_for` of Python 3.11 can
  lose, and the last event of the shutdown, which nobody publishes.
* Live: mapping modes other than `zero_based`, scanning for an address (one is given), a second
  `connect` on one runner, the runner's own output queue (one more `DropOldest`; the model keeps
  the last state told) and an exception in connecting that is not an `AdapterConnectionError`,
  which kills the runner's task.
