----------------------------- MODULE TestEngine -----------------------------
(***************************************************************************)
(* Admission and dispatch of test runs: engine/engine.ts with the boot     *)
(* sequence of main.ts, the guard of safety/guards.ts and the claim that   *)
(* device/realDeviceApi.ts reports.                                        *)
(*                                                                         *)
(* JavaScript runs one callback to completion, so the unit of atomicity is *)
(* the code between two awaits; every action below is one such segment,    *)
(* and a run or a request rests at an await between its actions.  The      *)
(* stages of one run are coarse here (RegimeRun has them row by row): what *)
(* matters to the other runs is when a run holds its drive, its permit and *)
(* a badblocks process.                                                    *)
(***************************************************************************)
EXTENDS Naturals, Sequences, FiniteSets

CONSTANTS Serials,      \* drive serial numbers
          Callers,      \* who calls startRun: HTTP requests and the auto-mode poller
          MaxRuns,      \* bound on the rows of test_runs
          Concurrency,  \* config.concurrency when the engine was constructed
          MaxCrashes,   \* bound on deaths of the process
          MaxFaults     \* bound on database errors

ASSUME SizesAssumption ==
  /\ MaxRuns \in Nat
  /\ Concurrency \in Nat \ {0}
  /\ MaxCrashes \in Nat
  /\ MaxFaults \in Nat

None == "none"
ASSUME SerialsAssumption == None \notin Serials

RunIds == 1..MaxRuns

Active == {"PENDING", "RUNNING"}
Terminal == {"DONE", "FAILED", "ABORTED"}

VARIABLES
  \* durable: the test_runs table
  driveOf,        \* run id -> serial, None if the row does not exist
  status,         \* run id -> status
  stage,          \* run id -> the stage its rows show as unfinished
  \* volatile: the process
  up,             \* the process is running
  cursor,         \* next run reconcile() looks at, 0 when it has returned
  awaiting,       \* caller -> serial whose startRun awaits listDevices()
  activeSerials,
  controllers,    \* runs with an AbortController
  aborted,        \* runs whose controller was aborted
  terminalRuns,
  pc,             \* run id -> the await its task rests at
  available, queue, holders,   \* the engine's Semaphore
  \* the drives
  drive,          \* serial -> what the host does with it
  abandoned,      \* serials with a badblocks the engine gave up killing
  \* bounds
  crashes, faults

durable == <<driveOf, status, stage>>
sem == <<available, queue, holders>>
process == <<up, cursor, awaiting, activeSerials, controllers, aborted, terminalRuns, pc, sem>>
world == <<drive, abandoned>>
budget == <<crashes, faults>>
vars == <<durable, process, world, budget>>

Sem == INSTANCE Semaphore WITH Tasks <- RunIds, Max <- Concurrency

(***************************************************************************)
(* "refused": mounted, a system disk or protected, whatever a probe says.  *)
(***************************************************************************)
DriveStates == {"free", "refused", "claimed", "gone"}
Stages == {"early", "surface", "late"}
Awaits == {"idle", "execute", "resume", "resolve", "early", "recheck", "surface", "late"}

Init ==
  /\ driveOf = [r \in RunIds |-> None]
  /\ status = [r \in RunIds |-> None]
  /\ stage = [r \in RunIds |-> "early"]
  /\ up = FALSE
  /\ cursor = 0
  /\ awaiting = [c \in Callers |-> None]
  /\ activeSerials = {}
  /\ controllers = {}
  /\ aborted = {}
  /\ terminalRuns = {}
  /\ pc = [r \in RunIds |-> "idle"]
  /\ Sem!SemInit
  /\ drive = [s \in Serials |-> "free"]
  /\ abandoned = {}
  /\ crashes = 0
  /\ faults = 0

(* A callback can run: the process is up and not inside reconcile()'s loop. *)
Serving == up /\ cursor = 0
-----------------------------------------------------------------------------
(***************************************************************************)
(* What discovery and the guard say of a drive.                            *)
(***************************************************************************)

(* Seeded fault: the abandoned process is forgotten. *)
ClaimForgetful(s, alwaysProbe) ==
  IF drive[s] = "claimed" /\ (alwaysProbe \/ s \notin activeSerials)
  THEN "claimed" ELSE "free"

(* The claim listDevices() reports: the probe is suppressed for a drive under *)
(* test unless the caller asked for it with alwaysProbe.                       *)
Claim(s, alwaysProbe) ==
  CASE s \in abandoned -> "claimed"
    [] s \notin abandoned /\ s \in activeSerials /\ ~alwaysProbe -> "unknown"
    [] OTHER -> IF drive[s] = "claimed" THEN "claimed" ELSE "free"

Listed(s) == drive[s] # "gone"

Allowed(s, alwaysProbe) ==
  /\ Listed(s)
  /\ drive[s] # "refused"
  /\ Claim(s, alwaysProbe) # "claimed"
-----------------------------------------------------------------------------
(***************************************************************************)
(* startRun: reserve the serial, await listDevices(), then refuse or       *)
(* create the row and hand the run to #execute.                            *)
(***************************************************************************)

(* Seeded fault: the serial is reserved only once the run is dispatched. *)
CallStartUnreserved(c, s) ==
  /\ Serving
  /\ awaiting[c] = None
  /\ s \notin {driveOf[r] : r \in controllers}
  /\ awaiting' = [awaiting EXCEPT ![c] = s]
  /\ UNCHANGED <<durable, up, cursor, activeSerials, controllers, aborted,
                 terminalRuns, pc, sem, world, budget>>

(* Up to the first await.  A serial that is active already is answered with *)
(* RunInProgressError, which changes nothing.                               *)
CallStart(c, s) ==
  /\ Serving
  /\ awaiting[c] = None
  /\ s \notin activeSerials
  /\ activeSerials' = activeSerials \cup {s}
  /\ awaiting' = [awaiting EXCEPT ![c] = s]
  /\ UNCHANGED <<durable, up, cursor, controllers, aborted, terminalRuns, pc,
                 sem, world, budget>>

(* Seeded fault: the early exits do not release the reservation. *)
StartRejectedLeaks(c) ==
  /\ Serving
  /\ awaiting[c] # None
  /\ awaiting' = [awaiting EXCEPT ![c] = None]
  /\ UNCHANGED <<durable, up, cursor, activeSerials, controllers, aborted,
                 terminalRuns, pc, sem, world, budget>>

(* The catch: drive not found, refused by the guard, or listDevices() threw, *)
(* which it can whatever the drive is.                                       *)
StartRejected(c) ==
  /\ Serving
  /\ awaiting[c] # None
  /\ activeSerials' = activeSerials \ {awaiting[c]}
  /\ awaiting' = [awaiting EXCEPT ![c] = None]
  /\ UNCHANGED <<durable, up, cursor, controllers, aborted, terminalRuns, pc,
                 sem, world, budget>>

(* createRun: the next id of an autoincrement key, status PENDING. *)
CreateRun(r, s) ==
  /\ status[r] = None
  /\ \A q \in RunIds : q < r => status[q] # None
  /\ driveOf' = [driveOf EXCEPT ![r] = s]
  /\ status' = [status EXCEPT ![r] = "PENDING"]
  /\ UNCHANGED stage

(* Allowed: create the row and call #execute, which runs to its first await. *)
StartDispatched(c, r) ==
  /\ Serving
  /\ awaiting[c] # None
  /\ Allowed(awaiting[c], TRUE)
  /\ CreateRun(r, awaiting[c])
  /\ controllers' = controllers \cup {r}
  /\ pc' = [pc EXCEPT ![r] = "execute"]
  /\ Sem!Acquire(r)
  /\ awaiting' = [awaiting EXCEPT ![c] = None]
  /\ UNCHANGED <<up, cursor, activeSerials, aborted, terminalRuns, world, budget>>

(* A database error after createRun: the catch releases the reservation, the *)
(* row stays PENDING with no task behind it.                                 *)
StartFaults(c, r) ==
  /\ Serving
  /\ faults < MaxFaults
  /\ awaiting[c] # None
  /\ Allowed(awaiting[c], TRUE)
  /\ CreateRun(r, awaiting[c])
  /\ activeSerials' = activeSerials \ {awaiting[c]}
  /\ awaiting' = [awaiting EXCEPT ![c] = None]
  /\ faults' = faults + 1
  /\ UNCHANGED <<up, cursor, controllers, aborted, terminalRuns, pc, sem, world,
                 crashes>>
-----------------------------------------------------------------------------
(***************************************************************************)
(* The task of one run: #execute or #reconcileRun, and #run inside it.     *)
(***************************************************************************)

(* Seeded fault: a finally that keeps the permit. *)
LeaveKeepingPermit(r) ==
  /\ UNCHANGED sem
  /\ controllers' = controllers \ {r}
  /\ activeSerials' = activeSerials \ {driveOf[r]}
  /\ aborted' = aborted \ {r}
  /\ pc' = [pc EXCEPT ![r] = "idle"]

(* The finally of #execute and #reconcileRun. *)
Leave(r) ==
  /\ Sem!Release(r)
  /\ controllers' = controllers \ {r}
  /\ activeSerials' = activeSerials \ {driveOf[r]}
  /\ aborted' = aborted \ {r}
  /\ pc' = [pc EXCEPT ![r] = "idle"]

(* A terminal status is written, then the task unwinds without an await. *)
Settle(r, outcome) ==
  /\ status' = [status EXCEPT ![r] = outcome]
  /\ terminalRuns' = terminalRuns \cup {r}
  /\ Leave(r)
  /\ UNCHANGED <<driveOf, stage, up, cursor, awaiting, drive, budget>>

(* The run goes on to its next await with its row as `st`, `at`. *)
Proceed(r, st, at, where) ==
  /\ status' = [status EXCEPT ![r] = st]
  /\ stage' = [stage EXCEPT ![r] = at]
  /\ pc' = [pc EXCEPT ![r] = where]
  /\ UNCHANGED <<driveOf, up, cursor, awaiting, activeSerials, controllers,
                 aborted, terminalRuns, sem, drive, budget>>

(* The permit is granted; #run marks the run RUNNING and, before its first *)
(* stage, looks at the abort signal.                                       *)
ExecuteBegins(r) ==
  /\ Serving
  /\ pc[r] = "execute"
  /\ r \in holders
  /\ \/ /\ r \in aborted
        /\ Settle(r, "ABORTED")
     \/ /\ r \notin aborted
        /\ Proceed(r, "RUNNING", "early", "early")
  /\ UNCHANGED abandoned

(* #reconcileRun got its permit and awaits #resolveDriveBySerial. *)
ResumeBegins(r) ==
  /\ Serving
  /\ pc[r] = "resume"
  /\ r \in holders
  /\ pc' = [pc EXCEPT ![r] = "resolve"]
  /\ UNCHANGED <<durable, up, cursor, awaiting, activeSerials, controllers,
                 aborted, terminalRuns, sem, world, budget>>

(* The guard of a resume, consulted without alwaysProbe, then #planResume.   *)
(* FAILED: DRIVE_GONE, refused, TOO_MANY_RESTARTS, or listDevices() threw.   *)
ResumeDecides(r) ==
  /\ Serving
  /\ pc[r] = "resolve"
  /\ \/ Settle(r, "FAILED")
     \/ /\ Allowed(driveOf[r], FALSE)
        /\ \/ /\ r \in aborted
              /\ Settle(r, "ABORTED")
           \/ /\ r \notin aborted
              /\ Proceed(r, "RUNNING", stage[r],
                         IF stage[r] = "surface" THEN "recheck" ELSE stage[r])
  /\ UNCHANGED abandoned

(* Seeded fault: the abort does not wake the poll loop. *)
EarlyEndsAsleep(r) ==
  /\ Serving
  /\ pc[r] = "early"
  /\ r \notin aborted
  /\ \/ Settle(r, "FAILED")
     \/ Proceed(r, "RUNNING", "surface", "recheck")
     \/ Settle(r, "DONE")
  /\ UNCHANGED abandoned

(* SMART_BEFORE and SELFTEST_LONG: one throws, or is cut short by the abort, *)
(* or both are done; DONE when the baseline gate skips all that is left.     *)
EarlyEnds(r) ==
  /\ Serving
  /\ pc[r] = "early"
  /\ \/ Settle(r, "FAILED")
     \/ r \in aborted /\ Settle(r, "ABORTED")
     \/ r \notin aborted /\ Proceed(r, "RUNNING", "surface", "recheck")
     \/ r \notin aborted /\ Settle(r, "DONE")
  /\ UNCHANGED abandoned

(* Seeded fault: the re-check before writing does not ask for the probe. *)
SurfaceBeginsUnprobed(r) ==
  /\ Serving
  /\ pc[r] = "recheck"
  /\ \/ Settle(r, "FAILED")
     \/ /\ Allowed(driveOf[r], FALSE)
        /\ \/ r \in aborted /\ Settle(r, "ABORTED")
           \/ r \notin aborted /\ Proceed(r, "RUNNING", "surface", "surface")
  /\ UNCHANGED abandoned

(* #recheckRunSafety answered.  FAILED: refused, or listDevices() threw.     *)
(* Allowed: runSurfaceTest spawns badblocks unless the signal is aborted.    *)
SurfaceBegins(r) ==
  /\ Serving
  /\ pc[r] = "recheck"
  /\ \/ Settle(r, "FAILED")
     \/ /\ Allowed(driveOf[r], TRUE)
        /\ \/ r \in aborted /\ Settle(r, "ABORTED")
           \/ r \notin aborted /\ Proceed(r, "RUNNING", "surface", "surface")
  /\ UNCHANGED abandoned

(* badblocks exited.  FAILED: it had never started. *)
SurfaceEnds(r) ==
  /\ Serving
  /\ pc[r] = "surface"
  /\ \/ r \in aborted /\ Settle(r, "ABORTED")
     \/ r \notin aborted /\ Settle(r, "FAILED")
     \/ r \notin aborted /\ Proceed(r, "RUNNING", "late", "late")
  /\ UNCHANGED abandoned

(* badblocks outlived SIGKILL: the stage settles, the process is remembered. *)
SurfaceAbandoned(r) ==
  /\ Serving
  /\ pc[r] = "surface"
  /\ r \in aborted
  /\ abandoned' = abandoned \cup {driveOf[r]}
  /\ Settle(r, "ABORTED")

(* SMART_AFTER, which needs the drive listed, and VERDICT right behind it. *)
LateEnds(r) ==
  /\ Serving
  /\ pc[r] = "late"
  /\ \/ Settle(r, "FAILED")
     \/ /\ Listed(driveOf[r])
        /\ \/ r \in aborted /\ Settle(r, "ABORTED")
           \/ r \notin aborted /\ Settle(r, "DONE")
  /\ UNCHANGED abandoned

(* A database error escapes #run and the FAILED write fails too: the catch *)
(* swallows it, the finally runs, the row keeps its status.                *)
SettleFaults(r) ==
  /\ Serving
  /\ faults < MaxFaults
  /\ pc[r] \notin {"idle", "resume"}
  /\ r \in holders
  /\ terminalRuns' = terminalRuns \cup {r}
  /\ Leave(r)
  /\ faults' = faults + 1
  /\ UNCHANGED <<durable, up, cursor, awaiting, world, crashes>>

(* abortRun: nothing for a terminal run or one this process does not run. *)
AbortRun(r) ==
  /\ Serving
  /\ r \notin terminalRuns
  /\ r \in controllers
  /\ aborted' = aborted \cup {r}
  /\ UNCHANGED <<durable, up, cursor, awaiting, activeSerials, controllers,
                 terminalRuns, pc, sem, world, budget>>
-----------------------------------------------------------------------------
(***************************************************************************)
(* The process dies and is started again.  It is the container's first     *)
(* process, so its badblocks children die with it.                         *)
(***************************************************************************)
Crash ==
  /\ up
  /\ crashes < MaxCrashes
  /\ crashes' = crashes + 1
  /\ up' = FALSE
  /\ cursor' = 0
  /\ awaiting' = [c \in Callers |-> None]
  /\ activeSerials' = {}
  /\ controllers' = {}
  /\ aborted' = {}
  /\ terminalRuns' = {}
  /\ pc' = [r \in RunIds |-> "idle"]
  /\ Sem!Rebuild
  /\ abandoned' = {}
  /\ UNCHANGED <<durable, drive, faults>>

(* start(): the engine is built and reconcile() runs before anything else. *)
Boot ==
  /\ ~up
  /\ up' = TRUE
  /\ cursor' = MaxRuns
  /\ UNCHANGED <<durable, awaiting, activeSerials, controllers, aborted,
                 terminalRuns, pc, sem, world, budget>>

(* Seeded faults: PENDING runs are not looked for; the drive is not checked; *)
(* terminal runs are not passed over.                                        *)
ResumableRunning(r) ==
  /\ status[r] = "RUNNING"
  /\ r \notin controllers
  /\ r \notin terminalRuns
  /\ driveOf[r] \notin activeSerials

ResumableUnguarded(r) ==
  /\ status[r] \in Active
  /\ r \notin controllers
  /\ r \notin terminalRuns

ResumableAll(r) ==
  /\ status[r] # None
  /\ r \notin controllers
  /\ driveOf[r] \notin activeSerials

(* reconcile() resumes this run: it is unfinished, no task of this process  *)
(* runs it, and no other run holds its drive.                               *)
Resumable(r) ==
  /\ status[r] \in Active
  /\ r \notin controllers
  /\ r \notin terminalRuns
  /\ driveOf[r] \notin activeSerials

(* One turn of reconcile()'s loop over listRuns(), newest first; the loop    *)
(* has no await, so no other callback runs until the cursor is 0.            *)
Reconcile ==
  /\ up
  /\ cursor > 0
  /\ cursor' = cursor - 1
  /\ IF Resumable(cursor)
     THEN /\ controllers' = controllers \cup {cursor}
          /\ activeSerials' = activeSerials \cup {driveOf[cursor]}
          /\ pc' = [pc EXCEPT ![cursor] = "resume"]
          /\ Sem!Acquire(cursor)
     ELSE UNCHANGED <<controllers, activeSerials, pc, sem>>
  /\ UNCHANGED <<durable, up, awaiting, aborted, terminalRuns, world, budget>>

(* The host mounts, claims, unplugs or frees a drive. *)
DriveChanges(s, d) ==
  /\ d # drive[s]
  /\ drive' = [drive EXCEPT ![s] = d]
  /\ UNCHANGED <<durable, process, abandoned, budget>>

(* The kernel lets go of an abandoned badblocks. *)
AbandonedExits(s) ==
  /\ s \in abandoned
  /\ abandoned' = abandoned \ {s}
  /\ UNCHANGED <<durable, process, drive, budget>>
-----------------------------------------------------------------------------
CallerStep(c) ==
  \/ \E s \in Serials : CallStart(c, s)
  \/ StartRejected(c)
  \/ \E r \in RunIds : StartDispatched(c, r)
  \/ \E r \in RunIds : StartFaults(c, r)

TaskStep(r) ==
  \/ ExecuteBegins(r)
  \/ ResumeBegins(r)
  \/ ResumeDecides(r)
  \/ EarlyEnds(r)
  \/ SurfaceBegins(r)
  \/ SurfaceEnds(r)
  \/ SurfaceAbandoned(r)
  \/ LateEnds(r)
  \/ SettleFaults(r)

Next ==
  \/ \E c \in Callers : CallerStep(c)
  \/ \E r \in RunIds : TaskStep(r) \/ AbortRun(r)
  \/ Crash
  \/ Boot
  \/ Reconcile
  \/ \E s \in Serials : AbandonedExits(s) \/ \E d \in DriveStates : DriveChanges(s, d)

Spec == Init /\ [][Next]_vars

(***************************************************************************)
(* Fairness the code justifies.  A command the engine awaits is settled by *)
(* its deadline (runner.ts), so every await that is one command returns.   *)
(* A self-test or a badblocks that nobody aborts may take for ever; once   *)
(* aborted, the poll loop wakes at once and the abandon timer is running.  *)
(* Callers, crashes, drives and aborts owe nothing.                        *)
(***************************************************************************)
EndsWhenAborted(r) == r \in aborted /\ (EarlyEnds(r) \/ SurfaceEnds(r) \/ SurfaceAbandoned(r))

Fairness ==
  /\ WF_vars(Boot)
  /\ WF_vars(Reconcile)
  /\ \A c \in Callers : WF_vars(StartRejected(c) \/ \E r \in RunIds : StartDispatched(c, r))
  /\ \A r \in RunIds :
       /\ WF_vars(ExecuteBegins(r))
       /\ WF_vars(ResumeBegins(r))
       /\ WF_vars(ResumeDecides(r))
       /\ WF_vars(SurfaceBegins(r))
       /\ WF_vars(LateEnds(r))
       /\ WF_vars(EndsWhenAborted(r))

FairSpec == Spec /\ Fairness

(* The drives answer: every self-test and every badblocks ends. *)
DrivesAnswer == \A r \in RunIds : WF_vars(EarlyEnds(r)) /\ WF_vars(SurfaceEnds(r))
-----------------------------------------------------------------------------
TypeOK ==
  /\ driveOf \in [RunIds -> Serials \cup {None}]
  /\ status \in [RunIds -> Active \cup Terminal \cup {None}]
  /\ stage \in [RunIds -> Stages]
  /\ up \in BOOLEAN
  /\ cursor \in 0..MaxRuns
  /\ awaiting \in [Callers -> Serials \cup {None}]
  /\ activeSerials \in SUBSET Serials
  /\ controllers \in SUBSET RunIds
  /\ aborted \in SUBSET RunIds
  /\ terminalRuns \in SUBSET RunIds
  /\ pc \in [RunIds -> Awaits]
  /\ Sem!SemTypeOK
  /\ drive \in [Serials -> DriveStates]
  /\ abandoned \in SUBSET Serials
  /\ crashes \in 0..MaxCrashes
  /\ faults \in 0..MaxFaults

(***************************************************************************)
(* No two tasks of this process own runs of the same drive, whatever races *)
(* startRun, reconcile() and the auto-mode poller run (engine.ts:187-200). *)
(***************************************************************************)
OneRunPerDrive ==
  \A r, q \in controllers : driveOf[r] = driveOf[q] => r = q

(***************************************************************************)
(* A drive never has two badblocks on it, an abandoned one counted: the    *)
(* hazard of issue #105 (realDeviceApi.ts:141-156).                        *)
(***************************************************************************)
Writing(s) == {r \in RunIds : pc[r] = "surface" /\ driveOf[r] = s}

OneWriterPerDrive ==
  \A s \in Serials : Cardinality(Writing(s)) + (IF s \in abandoned THEN 1 ELSE 0) <= 1

(***************************************************************************)
(* A serial is reserved exactly as long as a startRun awaits discovery for *)
(* it or a task of this process owns its run: no early exit leaks one      *)
(* (the drive would be "in progress" until a restart), none is freed early.*)
(***************************************************************************)
ReservationsMatch ==
  activeSerials = ({awaiting[c] : c \in Callers} \ {None}) \cup {driveOf[r] : r \in controllers}

(***************************************************************************)
(* Every task that is past its semaphore holds a permit, every other one   *)
(* is in the queue, and permits are neither lost nor minted: at most       *)
(* Concurrency runs touch drives.                                          *)
(***************************************************************************)
PermitsMatch ==
  /\ holders \cup Sem!Waiting = controllers
  /\ holders \cap Sem!Waiting = {}
  /\ \A r \in RunIds : pc[r] \notin {"idle", "execute", "resume"} => r \in holders
  /\ Sem!PermitsConserved

(***************************************************************************)
(* A restart forgets no run: once reconcile() has returned, every run that *)
(* is not terminal has a task, as long as no database error stranded one.  *)
(***************************************************************************)
NothingForgotten ==
  Serving /\ faults = 0 => \A r \in RunIds : status[r] \in Active => r \in controllers

(***************************************************************************)
(* "once a run is terminal it must stay that way forever" (engine.ts:203), *)
(* across late aborts, faults and restarts.                                *)
(***************************************************************************)
TerminalIsForever ==
  [][\A r \in RunIds : status[r] \in Terminal => status'[r] = status[r]]_vars

(***************************************************************************)
(* badblocks starts only on a drive whose claim was really probed: present,*)
(* not refused, not claimed by the host (engine.ts:1167-1177, 1250-1254).  *)
(***************************************************************************)
WritesOnlyFreeDrives ==
  [][\A r \in RunIds :
       pc[r] # "surface" /\ pc'[r] = "surface" => drive[driveOf[r]] = "free"]_vars

(***************************************************************************)
(* An abort of a run that has its permit takes effect, whatever the drive  *)
(* does: it needs neither the self-test nor badblocks to end by itself.    *)
(***************************************************************************)
AbortedHolderSettles ==
  \A r \in RunIds : (r \in aborted /\ r \in holders) ~> (r \notin controllers)

(***************************************************************************)
(* If the drives answer, every dispatched run leaves the engine: nobody    *)
(* waits for a permit that was lost, or behind a queue that never moves.   *)
(***************************************************************************)
EveryDispatchSettles ==
  DrivesAnswer => \A r \in RunIds : (r \in controllers) ~> (r \notin controllers)

(***************************************************************************)
(* What the comment at engine.ts:435-441 says of a resume: it does not     *)
(* carry on on a drive that has since been claimed by the host.            *)
(***************************************************************************)
ResumeRefusesClaimed ==
  [][\A r \in RunIds :
       pc[r] = "resolve" /\ drive[driveOf[r]] = "claimed" => pc'[r] \in {"resolve", "idle"}]_vars

(***************************************************************************)
(* The engine implements the registry: its AbortControllers are the tasks. *)
(***************************************************************************)
Registry == INSTANCE RunRegistry
              WITH Runs <- RunIds, Drives <- Serials, NoDrive <- None,
                   dispatched <- controllers

ImplementsRegistry == Registry!RegistrySpec
=============================================================================
