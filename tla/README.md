# spindoctor in TLA+

Specifications of the backend of spindoctor, the disk-testing service under
`src/`: modules that model its test engine, TLC configurations that check them
on small instances, and theorems about them that TLAPS checks.

spindoctor takes a drive through a *regime*: read SMART, run the drive's long
self-test, scan (usually overwrite) every sector with `badblocks`, read SMART
again, grade. That takes hours to days, on several drives at once, and a run
has to survive restarts of the process. The dangerous mistakes are to write a
drive that must not be written, to write it twice at once, to lose or wedge a
run, and to grade a drive on evidence that is not there.

## Inventory

Paths are relative to `src/apps/backend/src/` unless they start with `apps/`
or `packages/`.

| Component | State | Operations | What makes it correct |
|---|---|---|---|
| Semaphore (`engine/semaphore.ts`) | permits, queue | acquire, release closure | permits conserved, FIFO, no idle permit, no starvation |
| TestEngine, admission (`engine/engine.ts`) | `#activeSerials`, `controllers`, `terminalRuns`, semaphore; table `test_runs` | `startRun`, `#execute`, `abortRun`, `reconcile`, `#reconcileRun` | one run per drive, no leaked reservation, no forgotten run, terminal stays terminal, aborts win |
| TestEngine, regime (`engine/engine.ts`, `engine/regime.ts`) | tables `stage_results`, `smart_snapshots`, audit log; `RunState`, `skipStages` in memory | `#run`, five stages, `#gateOnBaseline`, `#planResume` | a verdict has its evidence, no settled stage repeated, no cut-short stage passed over |
| Safety guard (`safety/guards.ts`), claim probe (`device/deviceClaim.ts`) | protect list in the settings | `checkRunAllowed`, `probeDeviceClaim` | consulted with a real probe before every write |
| Surface process (`device/realDeviceApi.ts`, `surfaceArgs.ts`, `badblocksParser.ts`) | child, kill and abandon timers, `abandonedWriters`, progress tracker | `runSurfaceTest`, `hasAbandonedWriter` | an abort settles, no late signal, never two writers on a drive, progress counts phases |
| Self-test (`device/realDeviceApi.ts`, `smartParser.ts`) and command runner (`device/runner.ts`) | what the drive's firmware runs and logs; a deadline per command | start, poll, percentage, second read, abort | the reported result is the run's own, an abort stops the drive |
| Drive discovery (`device/lsblkParser.ts`, `scanParser.ts`, `discovery.ts`) | none; `SPINDOCTOR_SYSTEM_DISK_SERIALS` | `listDevices` | no mounted, system, virtual or claimed disk is taken for a free drive |
| SMART parsing (`device/smartParser.ts`) | none | metrics, attribute rows, self-test results and durations | flags and verdict agree about a page |
| Verdict (`verdict/evaluate.ts`, `baselineGate.ts`, `packages/shared` thresholds) | none | `evaluateVerdict`, `condemnedByBaseline` | the gate condemns only what the verdict fails |
| Auto-mode poller (`engine/autoMode.ts`) | `#enqueued`, loop, settings | `pollOnce`, `start`, `stop` | at most one automatic run per drive and process |
| Repositories and settings (`db/`, `api/routes/settings.ts`) | SQLite | row reads and writes, protect list | a write is atomic, a list entry protects whatever its form |
| HTTP routes (`api/routes/`) | none | start, abort, list | the list agrees with the guard |
| Realtime bridge and console (`api/realtime.ts`, `apps/web/src/stores`) | live entries and drive list in the browser | snapshot on connect, `run:update`, `stage:progress`, start and stop | running runs are shown, the stop button is the right run's |
| Diagnostics (`diagnostics/`), logging, views | none of its own | reports | not behaviour of a run |

How they interact: HTTP routes and the poller call `startRun`; the engine
reserves the serial, asks the device API for the drives and the guard for
leave, writes a row and starts a task. A task waits for a permit, walks the
stages, each of which awaits the device API, and writes rows as it goes.
`main.ts` builds everything, runs `reconcile()` to the end and only then
starts the poller and the HTTP server. The device API asks the engine
(`isDriveActive`) which drives not to probe; that call back is where one of the
divergences sits. The engine's events feed the realtime bridge and the console.

What is hard: JavaScript is single-threaded but every `await` lets other
requests, polls and timers in; the process can die between any two database
writes; the drive goes on with its self-test when the process is gone; a
`badblocks` may survive every signal; drives come and go.

## Modules

| Module | What it is |
|---|---|
| `Semaphore` | `engine/semaphore.ts`. One action per operation; a task is one dispatched run. |
| `TestEngine` | Admission, dispatch, abort, crash, boot and `reconcile`, with several drives, callers and runs. Instantiates `Semaphore`; its action is a conjunct of every step that acquires or releases. |
| `RunRegistry` | What the engine promises, in eight actions: a drive has at most one run being worked on, a run finishes once. `TestEngine` implements it with `dispatched <- controllers`. |
| `RegimeRun` | One run, row by row: the loop of `#run`, the stages, the gate, `#planResume`, a crash between any two writes. |
| `AutoMode` | The poller's loop, what it remembers between two awaits, and the setting, on top of `TestEngine`: a caller of `startRun` beside the HTTP requests. |
| `Verdict` | Every rule of `evaluateVerdict`, the gate that reuses them, and a run as far as grading sees it: baseline, gate, regime or skip, verdict. |
| `Smart` | The pages smartctl prints and what `smartParser.ts` makes of them: the run of `Verdict`, which it extends, from pages a drive prints, and the attribute table beside the verdict. |
| `SurfaceProcess` | `runSurfaceTest`: the child with its events, the kill and abandon timers, `abandonedWriters`, the progress tracker and the block size, for scans of one path that follow each other. |
| `SelfTest` | `#runSelfTestStage` over the commands it is made of: each one a child with a deadline, which may take effect on the drive before it answers, after it was given up on, or never. |
| `Console` | The realtime bridge and the browser's store: snapshot, broadcasts, fetched drive list, start and stop. |
| `Intake` | Discovery, system disks, claims, the protect list, `GET /drives` and `POST /runs`, and the guard they meet at. |
| `MCTestEngine`, `MCIntake` | For TLC: the symmetry of drives and callers; the hosts, lists and requests considered. |
| `SemaphoreProofs`, `TestEngineProofs`, `RegimeProofs`, `VerdictProofs`, `SurfaceProofs`, `SelfTestProofs`, `IntakeProofs`, `ConsoleProofs` | Theorems. `TestEngineProofs` has those of `AutoMode` and the refinement of `RunRegistry` too, `VerdictProofs` those of `Smart`. |

`TestEngine` and `RegimeRun` are two views of `engine.ts`. `TestEngine` asks who
may hold which drive, so a run is only *early* (first read and self-test),
*surface* and *late* (second read and verdict). `RegimeRun` asks what one run
writes and reads back, so there is one drive and no contention; the permit it
waits for is granted some time, which is `EveryDispatchSettles` of `TestEngine`.
`SurfaceProcess` and `SelfTest` open up what those two take as one step: the
promises of the device API, of which they use only that an aborted one settles
(`AbortSettles`, `AbortedStageEnds`), that a process given up on is remembered
(`OneWriter`), and that a result is the stage's own (`ResultIsOwn`). `Smart`
supplies `Verdict` with the metrics that pages can produce, `Intake` opens up
the one step in which `TestEngine` asks for the drives and the guard.

### State and code

`TestEngine`: `driveOf`, `status`, `stage` are the columns of `test_runs` (and
the unfinished stage row); `activeSerials`, `controllers`, `terminalRuns` the
fields of that name; `aborted` the signals of the controllers; `awaiting[c]`
the local variable `serial` of a `startRun` that awaits `listDevices()`;
`pc[r]` the await a task rests at; `cursor` the run `reconcile()` has come to;
`drive` what the host does with a drive; `abandoned` the map
`abandonedWriters`. An action is the code between two awaits, which nothing
can interrupt. `Serving` keeps other callbacks out until `reconcile()` has
returned, as `main.ts` does; its loop has no await.

`RegimeRun`: `rows` is `stage_results`, `state` is `RunState`, `stageId`,
`skipStages`, `aborted`, `restartCount` as in the code; `testing` and `log` are
the drive's own: whether a self-test runs, and whose result it would report.
`uncounted` is history: deaths that fell between closing the row of a scan and
counting its restart, or ending the run for it. `isScsi`, which `#planResume`
does not restore, is `knowsScsi` of `SelfTest`.
`pc` names the await or the write a run rests at. Here two synchronous writes
are two actions, since a process can be killed between them; an abort can only
come at an await.

`AutoMode`: `enabled` is `autoModeEnabled` in the database, `enqueued` is
`#enqueued`; `poll` says what the loop is at and `todo` which drives of the
listing are left, without those its own guard refuses: that guard reads the
listing and the protect list of the start of the poll, so its answer is fixed
there. In "turn" the loop awaits nothing and no other action of the process is
enabled. `started` is a history variable. `stop()` is not modelled: it ends the
process, which `AutoCrash` does at any await.

`Verdict`: a metric is a number or `Null` (not reported); `smartHealthPassed`
is kept as `healthFailing`, 0 or 1, so that larger is worse for every metric. A
rule yields the set of reasons it pushes. `powerOnHours` and the temperatures
are graded by no rule and left out.

`Smart`: `baseline` and `latest` are the JSON of the two snapshots, as far as
the parser reads it; a key that is missing is `Null`, a row of the ATA table
that is missing `NoRow`. The rows of the attribute table are pairs of a name
and a flag. A SAS page lists the counters of `Phys` phys, which the parser adds
up, leaving out what a phy does not report.

`SurfaceProcess`: a variable per local of `runSurfaceTest` (`timers`, `result`,
`sawProgress`, `tracker`), for each scan; `abandonedWriters` is the map's entry
of the path. `child` says what became of the process ("stuck" is blocked in the
kernel, "exited" waits for its event, "closed" had it), `call` what became of
the promise. `truth` and `missed` are history: where badblocks really is, and
how many phases ended below the reset threshold. `Recheck` is the question the
guard asks before a scan, through `hasAbandonedWriter`. `BlockSize[n]` is the
block after `n` turns of the loop that doubles it.

`SelfTest`: `stage` is the command awaited; `reached` and `answer` whether the
child has taken effect, and what it will print; `orphans` the children that
missed their deadline. `drive` is the drive: what routine it runs and whose
result is the newest. `declared` is whether `declaredTotalMinutes` is known,
`knowsScsi` whether `state.isScsi` is set: the process that runs the stage read
the baseline itself. Otherwise the baseline is that of a process before it, and
the log may have got its first entry since.

`Console`: `runs` is the database; `queue` what is on its way to the page;
`live`, `latest`, `loaded` are `liveByDrive`, the `latestRun` of `drives`, and
whether `drives` was fetched; `gets` the `GET /drives` under way, read by the
server at one time and applied by the page at a later one. A percentage is kept
as the number of the progress report of its stage that brought it (`report`):
what the properties tell apart is which report is shown, and the figures of
successive reports may rise or fall. `missed` and `overtaken` are history.

`Intake`: `host` is what `lsblk`, `smartctl --scan` and an exclusive open say
about each disk. A text is a name and a form, so that normalisation has
something to do. The stored list and the listings are sets: the code only looks
things up in them. `typed` and `current` are history.

Abstractions, and why they are harmless: SMART values are whether they condemn
the drive; a self-test's result is whose it is, not what it says; a scan is
complete or partial, its bad blocks are data; a drive is `free`, `claimed`,
`refused` (mounted, system disk, protected: refused whatever a probe says) or
`gone`. An abandoned writer is kept by serial where the code keeps it by device
path: the kernel does not hand out the name of a device that a process holds
open. The answer of `listDevices()` and the state of the drive are one instant;
in the code they are milliseconds apart, and no check can close that window.
Logs, `setDriveType` and what is only displayed are left out: nothing reads
them back into a decision. An NVMe drive's completion percentage is modelled as
the code has it, as what remains.

The definitions marked *seeded fault* are plausible mistakes in the definition
that follows them. They take no part in any specification; `PROJECT.json` says
which property notices which.

## What is checked

| Run | Instance | Shows |
|---|---|---|
| `semaphore` | 5 tasks, 2 permits, rebuilt at will | no permit is lost or minted; no waiter starves |
| `engine_safety` | 2 drives, 2 callers, 3 runs, 1 permit, 1 crash; symmetry | one run and one writer per drive, reservations and permits match, a restart forgets no run, only free drives are written, terminal is for ever |
| `engine_faults` | 2 drives, 2 callers, 2 runs, 2 permits, 2 crashes, 1 database error; symmetry | two tasks at once and a stranded row: refinement of `RunRegistry` |
| `engine_liveness` | 2 drives, 1 caller, 2 runs, 1 permit, 1 crash | aborts take effect; every dispatched run leaves |
| `regime` | cap 1, 2 crashes, commands may fail | evidence of verdicts, resume, what scans a run may cost, aborts; a run gets a terminal status |
| `auto_mode` | 1 drive, the poller and an HTTP caller, 2 runs, 1 crash, 1 database error | one automatic run per drive and process; denied drives are retried |
| `verdict` | thresholds 1, 1, 1, 2, readings up to 2, ATA disk and SSD, SAS, NVMe | gate and verdict agree; a PASS has evidence; worse is not graded better; flags agree with the verdict, row by row |
| `surface` | 2 scans, 2 write phases, readings 0, 20 and 60, a drive of no size, of just under and of the ceiling | one writer, no stray signal, an abort settles, the quarantine ends, progress, block size |
| `selftest` | one stage, fresh or resumed, each kind of drive, progress in 2 levels | the result is its own, an abort ends the stage and leaves the drive at work in three named ways only, the SAS duration |
| `console` | 1 drive, 2 stages of which the second reports twice, 2 runs, 1 lost connection, 1 restart, 1 `GET /drives` at a time | what the page shows and which run it offers to stop |
| `intake` | 2 disks, the first in each of its shapes, 2 changes | no run begins on a used or protected disk; list and guard agree |
| `engine_resume` | 1 drive, 1 run, 1 crash | the finding below |

Bounds. In `engine_safety` three runs share one permit: one that works, two in
the queue, and with a crash a run older and one newer than the one resumed
first. `engine_faults` lets two runs work at once. Two callers are enough for a
race: a third only repeats one. A crash returns the process to a state in which
nothing volatile is left, so a second one is interesting only after a fault has
made a row without a task, and that run has two. The cap on restarts is 3 in
the code; with a cap of 1 and two crashes a run is restarted to the cap and
given up on, and a third crash (checked once with a cap of 2, without liveness)
showed nothing new. `MaxFaults` bounds database errors, `MaxRuns` the rows ever
created: when all ids are used `startRun` can still be refused, so callers
never block; `DeniedIsRetried` is excused then. In `auto_mode` one drive
suffices: the poller's properties are about one drive at a time, and what
other drives do to it, a permit aside, is to delay it.

In `verdict` a baseline is a blank page with one reading set, and the second
page changes one more: a rule reads at most two values, and reasons of
different rules only add up. The readings of a wear attribute count down from
100, and 188 also takes values at and above `Word`, which stands for 65536. Two
phys tell a sum from its parts, one of them silent. The spare capacity of an
NVMe drive takes every reading, with a threshold and with none, whatever the
drive says of its own health.

In `surface` two scans are what a writer needs to meet its successor. Two
phases have the one boundary at which the tracker decides; it may be crossed
from a reading below the reset threshold and from one above it, and within one
chunk: two readings a chunk (`MaxChunk`) are enough for that. The ceiling is 8
blocks of 4, so that a size of 32 just misses fitting; `MaxDoublings` only has
to suffice for the sizes, as `SizesAssumption` says.
In `selftest` nothing depends on how many polls there are: two levels tell the
start, the middle and the end of a routine. The number of orphans is bounded by
their being a set: two that are alike behave alike. In `console` the second run
succeeds the first on the same drive, which is where entries are mixed up; runs
of other drives use other keys of the same maps. Two reports a stage make an
older, a newer and none. In `intake` the second disk
may bear the first one's serial, and the two changes are a saved list and a
claim, or two of one kind.

Deadlock is checked for the engine, the poller and the semaphore. It is not in
the other runs, where something that is over does nothing more: a run, a stage,
the bounded scans of a path, a page whose runs and requests are used up.

Fairness. Every external command has a deadline (`device/runner.ts`), so an
await on one returns: weak fairness of those steps. `SelfTest` shows it: there
only the deadline's timer and the poll's timer are fair, and no command. `Boot`
and `Reconcile` are fair: the container is restarted. A self-test or a
`badblocks` may take for ever, so nothing is assumed of them unless the run is
aborted: then the poll loop wakes at once (`#waitForNextPoll`) and the abandon
timer of the surface process is running. `SurfaceProcess` asks for Node's
timers, file reads and events, and nothing of the process. `EveryDispatchSettles`
and `EventuallyTerminal` say what they add to that: `DrivesAnswer`,
`DriveAnswers`. The poller's loop never ends and its sleep is a timer;
`PollFairness` adds that discovery, and a `startRun` of a drive that stays
eligible, do not fail every time. Other callers, aborts, crashes, faults and
the host owe nothing. `Console` and `Intake` state safety only.

## Where code and documents disagree

One disagreement is kept as a run:

- `engine_resume`, `ResumeRefusesClaimed`. The guard of a resume is consulted
  with the probe suppressed, since the run's own reservation makes the drive
  look "under test"; `IN_USE` cannot fire there, against the comment at
  `engine.ts:435-441`. `startRun` and the pre-write check pass `alwaysProbe`,
  so no drive is *written* (`WritesOnlyFreeDrives`); what goes on is the
  self-test. The test in `reconcile.test.ts` passes because the fake device
  API does not suppress probes.

The others are reproduced with the configuration named, for instance
`tlc -config RegimeDied.cfg RegimeRun`. Each ends in a counterexample.

| Configuration, module | Property | What happens |
|---|---|---|
| `RegimeUnsupported.cfg`, `RegimeRun` | `SkippedMeansCondemned` | A self-test the drive cannot run is recorded SKIPPED, with UNSUPPORTED in its metrics; after a restart `#planResume` reads only the status (`engine.ts:598`) and the verdict says that the baseline condemned the drive. |
| `RegimeDied.cfg`, `RegimeRun` | `DoneSurfaceFinished` | A scan that died midway is ABORTED at its percentage in the write of `#runSurfaceStage`, and DONE at 100% after the "harmless no-op re-write" of `#run` (`engine.ts:843-845`). |
| `RegimeCap.cfg`, `RegimeRun` | `ScansCapped` | A resume that finds a scan cut short closes its row and counts the restart in two writes (`engine.ts:480-484`). If the process dies between them, the next resume finds no RUNNING row, does not look at `restartCount` and scans again for free, against the "Cap on SURFACE-stage restarts via reconcile() before giving up on a run" (`engine.ts:216`). `RestartsCapped` says exactly what such deaths cost: one scan each, as do those between a scan's last row and the end of its run. |
| `RegimeStale.cfg`, `RegimeRun` | `VerdictOnOwnTest` | The self-test's row is RUNNING before the command is issued. If the process dies in between, the resume polls a test nobody started and reports the result of an older one (`engine.ts:749`). |
| `AutoDisable.cfg`, `AutoMode` | `OnlyWhileEnabled` | A poll reads `autoModeEnabled` once and then awaits a `startRun` per drive. Switched off in between, it still starts destructive runs of the drives that are left, against `autoMode.ts:35-37`. |
| `SelfTestLost.cfg`, `SelfTest` | `LostStartIsNoResult` | A `smartctl -t long` that hit its deadline prints nothing, so `startLongSelfTest` answers true (`realDeviceApi.ts:306`), and the result of an older routine becomes the stage's, against `runner.ts:19-22`. |
| `SelfTestAbort.cfg`, `SelfTest` | `AbortReachesDrive` | An abort that arrives while a poll is under way takes effect when the poll returns. If the poll brings nothing (its deadline, or no JSON) it throws at `engine.ts:1090`, and the `smartctl -X` behind the loop is never issued: the routine grinds on, against `engine.ts:1116-1118`. `AbortStopsDrive` names the other ways: the `-X` itself is lost, or a `-t long` that had missed its deadline executes after it. |
| `SelfTestEta.cfg`, `SelfTest` | `EtaAfterRestart` | `#planResume` restores what the baseline told of the drive but not `isScsi` (`engine.ts:589-596`). If the process died between the baseline and the self-test's row, the resumed run starts the self-test and skips the second read (`engine.ts:951, 1075`): a SAS drive whose log was empty has no ETA, against `engine.ts:1068-1074`. |
| `SmartSpare.cfg`, `Smart` | `SpareRowMatches` | The row of the spare capacity is red from the threshold on (`smartParser.ts:477`), no rule of the verdict reads it; the comment at `smartParser.ts:463-476` relies on the drive's own warning bit, which is raised only below the threshold. At the threshold the row is red beside a PASS. |
| `ConsoleHeals.cfg`, `Console` | `LiveViewHeals` | The snapshot says nothing of runs that ended while the page had no connection; their live entries stay until the drive's next run, against `useConsoleStore.ts:214-216`. |

Known and without a configuration:

- The gate's decision is not persisted: a process killed among the skipped rows
  resumes without it and scans a drive the audit log says was spared
  (`engine.ts:882-895`). The window is a few synchronous writes.
- `smartParser.ts:370-376` says that a row's flag never disagrees with the
  verdict's reasons. A verdict may have a reason (spin retries, command
  timeouts, the wear of a SATA SSD, an unhealthy status) whose row is shown
  "ok"; `RowsMatchReasons` states the direction that holds on ATA and NVMe, and
  equality on SAS. It leaves out rows that a threshold of the drive's own flags
  (`when_failed` of an ATA attribute, the NVMe spare capacity): no rule reads
  those fields.
- `runs.ts:192` flags the attributes of a stored run with today's thresholds,
  its verdict was reached with those of its time.
- `realDeviceApi.ts:348` returns an NVMe drive's *completed* percentage as
  `percentRemaining`, so `engine.ts:1091` shows its progress running backwards.
- The last poll of any self-test has no `percentRemaining`
  (`realDeviceApi.ts:378`), so `engine.ts:1091` reports 0 % when the routine has
  just ended. `ShownNeverGoesBack` is therefore about which report is shown,
  not about the figure.
- `badblocksParser.ts` calls the overall figure monotonic. A phase whose last
  reading is at most 25 % is not counted, and the figure falls:
  `ProgressAccountsForPhases` says by how much.
- Two disks that bear one serial are one drive: `startRun` takes the first
  (`find`), `GET /drives` shows the last (`Map.set`). `ListAgreesWithGuard`
  leaves such serials, and those of nothing but spaces, out.

## What is proved

For every set of drives and callers, and every number of runs, permits, crashes
and faults:

- `SemaphoreProofs`: `Conservation`, `NoIdle`. The invariant adds to the two
  that the queue has no task twice and none that holds a permit, and that the
  holders are finite: without it a hand-over might give a permit to somebody
  who has one, and conservation, which counts holders, would not follow. The
  facts are stated per action, so that the engine's proof can cite them.
- `TestEngineProofs`: `TypeCorrect`, `MutualExclusion`, `Reservations`,
  `Permits`, `SingleWriter`, all from one inductive invariant `IInv`. Mutual
  exclusion is not inductive: a resumed run could take a drive for which a
  `startRun` awaits discovery. `IInv` adds that no two callers await the same
  serial, that an awaited serial is not owned by a task, that reservations are
  exactly the awaited and the owned serials, that rows have drives, and that a
  task is queued or holds a permit as its `pc` says. For `SingleWriter` it adds
  that an abandoned writer's drive is not being written, which holds because
  the guard reports it claimed.
  `NoRunForgotten` has an invariant of its own on top: while no database error
  has stranded a row, a drive has one unfinished row at most, every row
  `reconcile()` has passed over is terminal or has a task, and nobody awaits
  discovery meanwhile; otherwise a second row of the drive, or a reservation,
  would make `reconcile()` pass over a run for good. `ProbedBeforeWriting`: only
  the re-check leads to `badblocks`. `Refinement`: every step of the engine is
  one of `RunRegistry` or a stutter, and `TerminalForever` follows.
  `AutoIsEngine`: the engine with the poller implements `TestEngine`'s
  specification, so all of the above holds with auto-mode. `AutoStartsOnce`:
  what the poller started it remembers, and it asks for nothing it remembers.
- `RegimeProofs`, for any cap on restarts and any number of deaths of the
  process: `Capped`, `AbortPrevails`. `Capped` counts the rows of scans, not the
  counter: at most one, one more for each restart the cap allows and one for
  each death in `uncounted`. The bound is not inductive: `ScanInv` adds that a
  process that begins, or resumes, behind a closed row of a scan finds that scan
  paid for, by the counter or by a death (`Paid`), and which row is open or
  closed at each place the run rests (`ScanClosed`). `RegInv` has
  that the restart about to be counted is below the cap, that the row of the
  stage at hand is not a closed one, and that VERDICT is never reached with an
  abort accepted. Every step does one of six things to the rows (`RowsStep`),
  and only the plan of a resume closes one.
  `EvidenceComplete`, `SettledOnce` and `TestPolled` are about what the rows
  say, and `HistInv` is what they rest on: the rows come in the order of the
  plan (`Ordered`), a stage has a row only when those before it are settled
  (`Passed`), and the status of a row vouches for what its stage left behind
  (`Meant`). With these, `#planResume` finds the frontier from the last row
  alone (`AtHead`), and the `RunState` it rebuilds knows what the stages behind
  it found (`Known`), or that the gate decided, which only an audited
  condemnation allows (`Gated`).
- `VerdictProofs`, for all thresholds, metrics and test results:
  `GateNeverDisagrees`, `OnlyCondemnedSkipped`, by what one snapshot can be
  condemned for on its own (`FailsAlone`): the gate fires for nothing else, it
  survives readings that do not fall, and it always yields a failing reason.
  `PassIsEarned`: a clean completed scan and a self-test that passed, or that
  the drive does not have, stand behind every PASS. `WorseIsNeverBetter`: every
  reason is answered by one at least as severe in a snapshot that reads worse.
  `RowsMatchOnEveryPage` is about the parser: for every page with any readings,
  thresholds and number of phys, the flags of a SAS drive are its severities,
  and a row of an ATA or NVMe drive that is flagged has such a reason, unless a
  threshold of the drive's own flags it. A SAS flag is raised by a sum and a rule by the counters, so it takes that a sum
  is positive exactly if one of its terms is. Every metric a page yields is one
  the rules grade (`PagesAreGraded`: `Smart` implements `Verdict`), so the
  theorems on `Verdict` hold of what drives print, and `RowsAgree` follows.
- `SurfaceProofs`, for any number of scans, any sizes and any timing: no two
  badblocks live on one path (`SingleSurfaceProcess`) and no process is
  signalled on behalf of a settled scan (`StraySignals`). The invariant accounts
  for every process that lives: its scan is open, or it is the remembered one
  and no event is left that could delete the record. `ProgressRight`: the
  figure reported is the true one less the phases that ended below the reset
  threshold, however the readings are cut into chunks; `Tracking` relates the
  tracker to badblocks, reading by reading. `BlocksAddressable`: the block is
  the floor, or the least doubling of it that makes the count fit.
- `SelfTestProofs`: `OwnResult`, `AbortStops`, `DurationRecovered`. A command
  may reach the drive before it is answered, or after it was given up on. The
  invariant `StageInv` says what is so all the same: a routine that was accepted
  runs or is the newest the drive has to report (`Owned`), no start that could
  still begin another is left among the orphans (`NoLateStart`), what the
  command in flight will print is true of the drive (`AnswerTrue`), a stop that
  was carried out has left the drive idle (`Stopped`), a routine that was not
  accepted is that of a start given up on (`LateStart`), and the duration was
  read before the start or is read again behind it, where the process knows
  that the drive is a SAS one (`DeclaredKnown`). `AbortStops` thus names all the
  ways in which an aborted stage leaves the drive at work.
- `IntakeProofs`, for any hosts, lists and requests: `BeginsOnFreeDrives`,
  `ListAgrees`. `IntakeInv`: the disks of a host are numbered, the stored list
  is the typed one, normalised and without its blanks, and a list of drives
  called current is what a listing would answer now.
- `ConsoleProofs`, for any number of drives, runs, stages, drops, restarts and
  requests: `StopIsOwned` from `OwnedInv`: a drive has one active run, and every
  run that an entry of the page, an event on its way or a list names as active
  is so, or its end is queued behind, was missed, or overtook that list.
  `RunningIsShown` and `NeverGoesBack` from `Pictured`: there is a picture of
  what the page shows as it takes the queued events one by one, in which no
  entry falls behind the one before and which ends with every running run as
  its row has it. A snapshot is the hard case: a page with an older picture is
  brought to the end by one run after the other, by induction on the runs.
  `NeverGoesBack` is about stages and the reports behind the percentages; it
  does not say that a percentage never falls.

Assumptions: the named `ASSUME`s on the constants only. They say that bounds are
numbers and sets are of the right kind. Two say more: the first stage of a
regime, a SMART read, reports no progress (`ConsoleAssumption`), and
`MaxDoublings` suffices for the sizes of drives (`SizesAssumption`).

Every invariant and every action property of a passing run is a theorem.
Only model-checked are the nine liveness properties: `NoStarvation`,
`AbortedHolderSettles`, `EveryDispatchSettles`, `EventuallyTerminal`,
`AbortTakesEffect`, `DeniedIsRetried`, `AbortSettles`, `QuarantineEnds` and
`AbortedStageEnds`. They rest on fairness, and `ENABLED` is out of the prover's
reach. What a recursive function computes, and what a snapshot replays, is
shown by induction on the set of the numbers for which it holds (well-founded
induction over `Nat`), not by the library's induction rules, which take an
operator. The configurations above that end in counterexamples have nothing to
prove.

## Not modelled, and why

- Diagnostics (`diagnostics/`), logging and the views: reports over stored
  data, which nothing reads back into a decision of a run.
- The texts: run logs, the log of a surface scan (`formatSurfaceLog`), the
  collapsing of redrawn progress lines, the messages of a verdict, the
  dictionary of attribute names (`smartAttributeInfo.ts`). `countBadBlocks` is
  a count of lines; the verdict's input is any number of them.
- Database errors outside admission, discovery and the poller, the one in the
  progress callback of a scan (`engine.ts:1202`) among them: there a thrown
  write leaves the run's own control flow, and what then happens is Node's.
- The validation of the remaining settings, pagination and downloads: they
  hold no state and start nothing.
- Thresholds that change while a run is under way.
- A lost record of abandoned processes: `abandonedWriters` is memory, and after
  a crash the process of a previous life can only be noticed by the claim
  probe, which badblocks does not answer (`deviceClaim.ts:57-63`).
- Disks that change their device path between `lsblk` and the probe.
