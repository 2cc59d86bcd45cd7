------------------------------ MODULE RegimeRun ------------------------------
(***************************************************************************)
(* The regime of one run, written to the database row by row:              *)
(* engine/engine.ts from #execute to #runVerdictStage, with #planResume.   *)
(*                                                                         *)
(* The database outlives the process, which can die between any two        *)
(* writes, so an action here makes at most one write that matters: two     *)
(* synchronous writes in a row are two actions.  Everything the process    *)
(* keeps in memory is lost by a Crash and rebuilt from the rows.           *)
(***************************************************************************)
EXTENDS Naturals, Sequences, FiniteSets

CONSTANTS MaxRestarts,    \* TestEngine.MAX_RESTARTS
          MaxCrashes,     \* bound on deaths of the process
          LossyCommands   \* smartctl -t long may fail or time out

ASSUME ConstantsAssumption ==
  /\ MaxRestarts \in Nat
  /\ MaxCrashes \in Nat
  /\ LossyCommands \in BOOLEAN

None == "none"

Stages == <<"SMART_BEFORE", "SELFTEST_LONG", "SURFACE", "SMART_AFTER", "VERDICT">>

(* What the baseline gate rules out. *)
GateSkips == {"SELFTEST_LONG", "SURFACE", "SMART_AFTER"}

Active == {"PENDING", "RUNNING"}
Terminal == {"DONE", "FAILED", "ABORTED"}

VARIABLES
  \* the database
  runStatus, restartCount,
  rows,           \* stage_results of the run, oldest first
  snapshots,      \* phases of the smart_snapshots saved
  audited,        \* EARLY_EXIT_CONDEMNED is in the audit log
  verdict,        \* what the verdict was graded from
  \* the process
  pc,             \* the write or the await the run rests at
  i,              \* loop index into Stages
  stageId,        \* the row of the stage at hand, 0 when it has none yet
  state,          \* RunState
  skipStages,     \* the gate's skips are in force
  aborted,        \* the AbortController's signal
  \* the drive
  capable,        \* of self-tests: "yes"; "declared" not in its SMART data; or
                  \* "silent", so that only the reply to -t long tells
  condemned,      \* its baseline fails the gate, which is on
  testing,        \* a self-test runs in the firmware
  log,            \* the newest self-test result: of this run, an older one, none
  \* bound and history
  crashes,
  uncounted       \* deaths that cost a surface scan no restart was counted for

database == <<runStatus, restartCount, rows, snapshots, audited, verdict>>
memory == <<i, stageId, state, skipStages, aborted>>
nature == <<capable, condemned>>
firmware == <<testing, log>>
deaths == <<crashes, uncounted>>
vars == <<database, pc, memory, nature, firmware, deaths>>

(* No verdict: one that exists was graded from a self-test result. *)
Ungraded == [selfTest |-> None, surface |-> None]

BlankState == [before |-> FALSE, supported |-> TRUE, selfTest |-> None,
               surface |-> None, after |-> FALSE]

Init ==
  /\ runStatus = "PENDING" /\ restartCount = 0
  /\ rows = <<>> /\ snapshots = {} /\ audited = FALSE /\ verdict = Ungraded
  /\ pc = "queued" /\ i = 1 /\ stageId = 0 /\ state = BlankState
  /\ skipStages = FALSE /\ aborted = FALSE
  /\ capable \in {"yes", "declared", "silent"}
  /\ condemned \in BOOLEAN
  /\ testing = FALSE
  /\ log \in IF capable = "yes" THEN {None, "old"} ELSE {None}
  /\ crashes = 0 /\ uncounted = 0

(* The pc values at which the process awaits something, so that it can be *)
(* aborted; at the others it is between two synchronous writes.           *)
Awaits == {"queued", "resumeQueued", "resolving", "smart", "starting", "polling",
           "stopping", "recheck", "badblocks"}

Stage == Stages[i]

Row(status) == [stage |-> Stage, status |-> status, metrics |-> None]

SetRow(status) == rows' = [rows EXCEPT ![stageId].status = status]

RowsOf(stage) == {n \in DOMAIN rows : rows[n].stage = stage}

LatestId(stage) == CHOOSE n \in RowsOf(stage) : \A m \in RowsOf(stage) : m <= n

LatestStatus(stage) == IF RowsOf(stage) = {} THEN None ELSE rows[LatestId(stage)].status

Keep == UNCHANGED <<nature, firmware, deaths>>
-----------------------------------------------------------------------------
(***************************************************************************)
(* The head of #run's loop.                                                *)
(***************************************************************************)

(* updateRun RUNNING: the run has its permit, and its plan if it resumes. *)
Begin ==
  /\ pc \in {"queued", "begin"}
  /\ runStatus' = "RUNNING"
  /\ pc' = "head"
  /\ Keep /\ UNCHANGED <<restartCount, rows, snapshots, audited, verdict, memory>>

Preflight == Stage = "SELFTEST_LONG" /\ ~state.supported

Skipped == Preflight \/ (skipStages /\ Stage \in GateSkips)

(* A stage the drive cannot run, or the gate ruled out: a SKIPPED row, and *)
(* the outcome nothing else will produce.                                  *)
SkipStage ==
  /\ pc = "head"
  /\ Skipped
  /\ rows' = Append(rows, Row("SKIPPED"))
  /\ state' = CASE Preflight -> [state EXCEPT !.selfTest = "UNSUPPORTED"]
                [] ~Preflight /\ Stage = "SELFTEST_LONG" -> [state EXCEPT !.selfTest = "SKIPPED"]
                [] Stage = "SMART_AFTER" -> [state EXCEPT !.after = state.before]
                [] OTHER -> state
  /\ i' = i + 1
  /\ Keep /\ UNCHANGED <<runStatus, restartCount, snapshots, audited, verdict,
                         pc, stageId, skipStages, aborted>>

AbortAtHead ==
  /\ pc = "head"
  /\ ~Skipped
  /\ aborted
  /\ runStatus' = "ABORTED"
  /\ pc' = "end"
  /\ Keep /\ UNCHANGED <<restartCount, rows, snapshots, audited, verdict, memory>>

(* The stage gets a RUNNING row, unless it resumes by polling and has one. *)
StartStage ==
  /\ pc = "head"
  /\ ~Skipped
  /\ ~aborted
  /\ IF stageId # 0
     THEN /\ pc' = "polling"
          /\ UNCHANGED <<rows, stageId>>
     ELSE /\ pc' = CASE Stage \in {"SMART_BEFORE", "SMART_AFTER"} -> "smart"
                     [] Stage = "SELFTEST_LONG" -> "starting"
                     [] Stage = "SURFACE" -> "recheck"
                     [] OTHER -> "verdict"
          /\ rows' = Append(rows, Row("RUNNING"))
          /\ stageId' = Len(rows) + 1
  /\ Keep /\ UNCHANGED <<runStatus, restartCount, snapshots, audited, verdict,
                         i, state, skipStages, aborted>>
-----------------------------------------------------------------------------
(***************************************************************************)
(* The stages.  One that returns goes to "return", one that throws to      *)
(* "failRow".                                                              *)
(***************************************************************************)

(* The drive was read (after SMART_AFTER found it again) and the snapshot   *)
(* saved.                                                                   *)
SmartRead ==
  /\ pc = "smart"
  /\ IF Stage = "SMART_BEFORE"
     THEN /\ snapshots' = snapshots \cup {"before"}
          /\ state' = [state EXCEPT !.before = TRUE, !.supported = capable # "declared"]
          /\ pc' = "gate"
     ELSE /\ snapshots' = snapshots \cup {"after"}
          /\ state' = [state EXCEPT !.after = TRUE]
          /\ pc' = "return"
  /\ Keep /\ UNCHANGED <<runStatus, restartCount, rows, audited, verdict,
                         i, stageId, skipStages, aborted>>

(* #gateOnBaseline, behind SMART_BEFORE whether or not the run is aborted. *)
Gate ==
  /\ pc = "gate"
  /\ pc' = "return"
  /\ audited' = (audited \/ condemned)
  /\ skipStages' = condemned
  /\ Keep /\ UNCHANGED <<runStatus, restartCount, rows, snapshots, verdict,
                         i, stageId, state, aborted>>

(* smartctl -t long reaches the drive. *)
TestStarts ==
  /\ pc = "starting"
  /\ capable = "yes" /\ ~testing
  /\ testing' = TRUE
  /\ UNCHANGED <<database, pc, memory, nature, log, deaths>>

(* The write of the stage's result and log, behind #runSelfTestStage. *)
TestStageReturns(result) ==
  /\ state' = [state EXCEPT !.selfTest = result]
  /\ rows' = [rows EXCEPT ![stageId].metrics = result]
  /\ pc' = "return"
  /\ UNCHANGED <<runStatus, restartCount, snapshots, audited, verdict,
                 i, stageId, skipStages, aborted>>

(* ... and returned.  Only "not supported" counts as not started: a command  *)
(* that failed or timed out has started something as far as this code knows. *)
StartAnswered ==
  /\ pc = "starting"
  /\ \/ /\ capable # "yes"
        /\ TestStageReturns("UNSUPPORTED")
     \/ /\ testing \/ LossyCommands
        /\ pc' = "polling"
        /\ UNCHANGED <<database, memory>>
  /\ Keep

TestEnds ==
  /\ testing
  /\ testing' = FALSE
  /\ log' = "own"
  /\ UNCHANGED <<database, pc, memory, nature, deaths>>

(* A poll found the drive idle: its newest result is the stage's. *)
PollEnds ==
  /\ pc = "polling"
  /\ ~aborted
  /\ ~testing
  /\ TestStageReturns(IF log = None THEN "UNKNOWN" ELSE log)
  /\ Keep

(* Seeded fault: the abort does not wake the loop. *)
PollAbortedAsleep ==
  /\ pc = "polling"
  /\ aborted
  /\ ~testing
  /\ pc' = "stopping"
  /\ state' = [state EXCEPT !.selfTest = "UNKNOWN"]
  /\ UNCHANGED <<database, i, stageId, skipStages, aborted, nature, firmware, deaths>>

(* The abort wakes the poll loop, which asks the drive to stop the routine; *)
(* the drive may not.  A poll under way may still have brought the result.  *)
PollAborted ==
  /\ pc = "polling"
  /\ aborted
  /\ pc' = "stopping"
  /\ \/ testing /\ testing' = FALSE /\ log' = "own"
     \/ UNCHANGED firmware
  /\ \E result \in {"UNKNOWN", IF testing \/ log = None THEN "UNKNOWN" ELSE log} :
       state' = [state EXCEPT !.selfTest = result]
  /\ UNCHANGED <<database, i, stageId, skipStages, aborted, nature, deaths>>

StopAnswered ==
  /\ pc = "stopping"
  /\ TestStageReturns(state.selfTest)
  /\ Keep

(* The surface row as #runSurfaceStage writes it. *)
SurfaceRow(surface) ==
  rows' = [rows EXCEPT ![stageId].status = IF surface = "complete" THEN "DONE" ELSE "ABORTED",
                       ![stageId].metrics = surface]

(* #recheckRunSafety allowed it: badblocks starts, unless the signal is      *)
(* aborted.                                                                  *)
RecheckAllows ==
  /\ pc = "recheck"
  /\ \/ /\ ~aborted
        /\ pc' = "badblocks"
        /\ UNCHANGED <<rows, state>>
     \/ /\ aborted
        /\ SurfaceRow("partial")
        /\ state' = [state EXCEPT !.surface = "partial"]
        /\ pc' = "return"
  /\ Keep /\ UNCHANGED <<runStatus, restartCount, snapshots, audited, verdict,
                         i, stageId, skipStages, aborted>>

(* badblocks is gone: completed, or cut short by the abort or on its own.  *)
(* If it never made progress and nobody aborted it, SurfaceToolError.      *)
SurfaceEnds ==
  /\ pc = "badblocks"
  /\ \E surface \in {"complete", "partial"} :
       /\ SurfaceRow(surface)
       /\ \/ /\ pc' = "return"
             /\ state' = [state EXCEPT !.surface = surface]
          \/ /\ surface = "partial" /\ ~aborted
             /\ pc' = "failRow"
             /\ UNCHANGED state
  /\ Keep /\ UNCHANGED <<runStatus, restartCount, snapshots, audited, verdict,
                         i, stageId, skipStages, aborted>>

(* A read failed, the drive is gone, the re-check refused. *)
StageThrows ==
  /\ pc \in {"smart", "polling", "recheck"}
  /\ pc' = "failRow"
  /\ Keep /\ UNCHANGED <<database, memory>>

Evidence == state.before /\ state.after /\ state.selfTest # None

(* #runVerdictStage: the row, and then the run. *)
VerdictRow ==
  /\ pc = "verdict"
  /\ IF Evidence
     THEN /\ SetRow("DONE")
          /\ pc' = "verdictRun"
     ELSE /\ pc' = "failRow"
          /\ UNCHANGED rows
  /\ Keep /\ UNCHANGED <<runStatus, restartCount, snapshots, audited, verdict, memory>>

VerdictRun ==
  /\ pc = "verdictRun"
  /\ runStatus' = "DONE"
  /\ verdict' = [selfTest |-> state.selfTest, surface |-> state.surface]
  /\ pc' = "end"
  /\ Keep /\ UNCHANGED <<restartCount, rows, snapshots, audited, memory>>
-----------------------------------------------------------------------------
(***************************************************************************)
(* Behind a stage that returned or threw.                                  *)
(***************************************************************************)

NextStage ==
  /\ pc' = "head"
  /\ i' = i + 1
  /\ stageId' = 0

(* Seeded fault: the abort is only looked at on the next iteration. *)
StageReturnsUnchecked ==
  /\ pc = "return"
  /\ \/ /\ Stage = "SELFTEST_LONG" /\ state.selfTest = "UNSUPPORTED"
        /\ SetRow("SKIPPED")
     \/ /\ ~(Stage = "SELFTEST_LONG" /\ state.selfTest = "UNSUPPORTED")
        /\ SetRow("DONE")
  /\ NextStage
  /\ Keep /\ UNCHANGED <<runStatus, restartCount, snapshots, audited, verdict,
                         state, skipStages, aborted>>

(* The row is ABORTED, SKIPPED for an UNSUPPORTED self-test, or DONE. *)
StageReturns ==
  /\ pc = "return"
  /\ \/ /\ aborted
        /\ SetRow("ABORTED")
        /\ pc' = "abortRun"
        /\ UNCHANGED <<i, stageId>>
     \/ /\ ~aborted
        /\ SetRow(IF Stage = "SELFTEST_LONG" /\ state.selfTest = "UNSUPPORTED"
                  THEN "SKIPPED" ELSE "DONE")
        /\ NextStage
  /\ Keep /\ UNCHANGED <<runStatus, restartCount, snapshots, audited, verdict,
                         state, skipStages, aborted>>

FailRow ==
  /\ pc = "failRow"
  /\ SetRow("FAILED")
  /\ pc' = "failRun"
  /\ Keep /\ UNCHANGED <<runStatus, restartCount, snapshots, audited, verdict, memory>>

(* The run's own terminal write. *)
EndRun ==
  /\ pc \in {"abortRun", "failRun"}
  /\ runStatus' = IF pc = "abortRun" THEN "ABORTED" ELSE "FAILED"
  /\ pc' = "end"
  /\ Keep /\ UNCHANGED <<restartCount, rows, snapshots, audited, verdict, memory>>

(* abortRun(), accepted in memory only. *)
AbortRun ==
  /\ pc \in Awaits
  /\ ~aborted
  /\ aborted' = TRUE
  /\ UNCHANGED <<database, pc, i, stageId, state, skipStages, nature, firmware, deaths>>
-----------------------------------------------------------------------------
(***************************************************************************)
(* The process dies; the next one reconciles the run.                      *)
(***************************************************************************)

(* Between two of the engine's writes: the row of a scan is closed, and      *)
(* neither is its restart counted yet nor the run ended.  A resume finds     *)
(* nothing RUNNING, and scans again for free.                                *)
CutShort ==
  \/ pc = "count"
  \/ /\ pc \in {"return", "failRow", "failRun", "abortRun"}
     /\ LatestStatus("SURFACE") \in {"ABORTED", "FAILED"}

Crash ==
  /\ pc \notin {"end", "down"}
  /\ crashes < MaxCrashes
  /\ crashes' = crashes + 1
  /\ uncounted' = uncounted + (IF CutShort THEN 1 ELSE 0)
  /\ pc' = "down"
  /\ i' = 1 /\ stageId' = 0 /\ state' = BlankState
  /\ skipStages' = FALSE /\ aborted' = FALSE
  /\ UNCHANGED <<database, nature, firmware>>

(* Seeded fault: only RUNNING runs are reconciled. *)
ReconcileRunning ==
  /\ pc = "down"
  /\ runStatus = "RUNNING"
  /\ pc' = "resumeQueued"
  /\ Keep /\ UNCHANGED <<database, memory>>

Reconcile ==
  /\ pc = "down"
  /\ runStatus \in Active
  /\ pc' = "resumeQueued"
  /\ Keep /\ UNCHANGED <<database, memory>>

ResumeBegins ==
  /\ pc = "resumeQueued"
  /\ pc' = "resolving"
  /\ Keep /\ UNCHANGED <<database, memory>>

(* DRIVE_GONE, refused by the guard, or discovery threw. *)
ResumeRefused ==
  /\ pc = "resolving"
  /\ runStatus' = "FAILED"
  /\ pc' = "end"
  /\ Keep /\ UNCHANGED <<restartCount, rows, snapshots, audited, verdict, memory>>

(* Seeded fault: a stopped stage is settled. *)
SettledStopped(stage) == LatestStatus(stage) \in {"DONE", "SKIPPED", "INTERRUPTED"}

Settled(stage) == LatestStatus(stage) \in {"DONE", "SKIPPED"}

(* The first stage to run again, VERDICT if none is unsettled. *)
ResumeIndex ==
  LET unsettled == {n \in DOMAIN Stages : ~Settled(Stages[n])}
  IN  IF unsettled = {} THEN Len(Stages) ELSE CHOOSE n \in unsettled : \A m \in unsettled : n <= m

(* What stages before the n-th contributed to the RunState.  That isScsi is   *)
(* not among it matters to the self-test alone (SelfTest, knowsScsi).         *)
Earlier(n, stage) == stage \in {Stages[m] : m \in 1..(n - 1)} /\ RowsOf(stage) # {}
WasSkipped(stage) == LatestStatus(stage) = "SKIPPED"

(* Seeded fault: a skipped second read is not replaced by the baseline. *)
ResumedStateNoAfter(n) ==
  [before    |-> Earlier(n, "SMART_BEFORE") /\ "before" \in snapshots,
   supported |-> ~(Earlier(n, "SMART_BEFORE") /\ capable = "declared"),
   selfTest  |-> IF Earlier(n, "SELFTEST_LONG")
                 THEN rows[LatestId("SELFTEST_LONG")].metrics ELSE None,
   surface   |-> IF Earlier(n, "SURFACE") THEN rows[LatestId("SURFACE")].metrics ELSE None,
   after     |-> Earlier(n, "SMART_AFTER") /\ "after" \in snapshots]

ResumedState(n) ==
  LET before == Earlier(n, "SMART_BEFORE") /\ "before" \in snapshots
      supported == ~(before /\ capable = "declared")
  IN  [before    |-> before,
       supported |-> supported,
       selfTest  |-> CASE ~Earlier(n, "SELFTEST_LONG") -> None
                       [] Earlier(n, "SELFTEST_LONG") /\ WasSkipped("SELFTEST_LONG") ->
                            IF supported THEN "SKIPPED" ELSE "UNSUPPORTED"
                       [] OTHER -> rows[LatestId("SELFTEST_LONG")].metrics,
       surface   |-> IF Earlier(n, "SURFACE") THEN rows[LatestId("SURFACE")].metrics ELSE None,
       after     |-> /\ Earlier(n, "SMART_AFTER")
                     /\ IF WasSkipped("SMART_AFTER") THEN before ELSE "after" \in snapshots]

(* Seeded fault: the cap is off by one. *)
TooManyLate == restartCount > MaxRestarts

TooManyRestarts == restartCount >= MaxRestarts

(* Seeded fault: the self-test is always started over. *)
PolledRowNever(n) == 0

(* The row of a self-test that is resumed by polling, 0 for none. *)
PolledRow(n) ==
  IF Stages[n] = "SELFTEST_LONG" /\ LatestStatus("SELFTEST_LONG") = "RUNNING"
  THEN LatestId("SELFTEST_LONG") ELSE 0

(* #planResume, and what is written for a SURFACE left RUNNING: FAILED with *)
(* TOO_MANY_RESTARTS, or its row INTERRUPTED and the restart counted.       *)
ResumePlanned ==
  /\ pc = "resolving"
  /\ LET n == ResumeIndex
         running == LatestStatus(Stages[n]) = "RUNNING"
         stale == Stages[n] = "SURFACE" /\ running
     IN  /\ i' = n
         /\ state' = ResumedState(n)
         /\ stageId' = PolledRow(n)
         /\ \/ /\ stale /\ TooManyRestarts
               /\ runStatus' = "FAILED"
               /\ pc' = "end"
               /\ UNCHANGED rows
            \/ /\ stale /\ ~TooManyRestarts
               /\ rows' = [rows EXCEPT ![LatestId("SURFACE")].status = "INTERRUPTED"]
               /\ pc' = "count"
               /\ UNCHANGED runStatus
            \/ /\ ~stale
               /\ pc' = "begin"
               /\ UNCHANGED <<runStatus, rows>>
  /\ Keep /\ UNCHANGED <<restartCount, snapshots, audited, verdict, skipStages, aborted>>

CountRestart ==
  /\ pc = "count"
  /\ restartCount' = restartCount + 1
  /\ pc' = "begin"
  /\ Keep /\ UNCHANGED <<runStatus, rows, snapshots, audited, verdict, memory>>
-----------------------------------------------------------------------------
(* What the process does by itself. *)
Engine ==
  \/ Begin \/ SkipStage \/ AbortAtHead \/ StartStage
  \/ SmartRead \/ Gate \/ StartAnswered \/ PollEnds \/ PollAborted \/ StopAnswered
  \/ RecheckAllows \/ VerdictRow \/ VerdictRun
  \/ StageReturns \/ FailRow \/ EndRun
  \/ Reconcile \/ ResumeBegins \/ ResumePlanned \/ CountRestart

Next == Engine \/ TestStarts \/ TestEnds \/ SurfaceEnds \/ StageThrows
          \/ ResumeRefused \/ AbortRun \/ Crash

Spec == Init /\ [][Next]_vars

(***************************************************************************)
(* Fairness.  Commands answer by their deadline, and an aborted badblocks  *)
(* is abandoned by one; a permit comes (TestEngine, EveryDispatchSettles). *)
(* A self-test and a badblocks nobody aborts owe nothing.                  *)
(***************************************************************************)
FairSpec ==
  /\ Spec
  /\ WF_vars(Engine)
  /\ WF_vars(TestStarts)
  /\ WF_vars(aborted /\ SurfaceEnds)

(* The drive answers: a self-test and a badblocks end by themselves. *)
DriveAnswers == WF_vars(TestEnds) /\ WF_vars(SurfaceEnds)
-----------------------------------------------------------------------------
RowStatuses == {"RUNNING", "DONE", "FAILED", "ABORTED", "SKIPPED", "INTERRUPTED"}
TestResults == {None, "UNSUPPORTED", "SKIPPED", "UNKNOWN", "old", "own"}
SurfaceResults == {None, "complete", "partial"}

TypeOK ==
  /\ runStatus \in Active \cup Terminal
  /\ restartCount \in Nat
  /\ rows \in Seq([stage : {Stages[n] : n \in DOMAIN Stages}, status : RowStatuses,
                    metrics : TestResults \cup SurfaceResults])
  /\ snapshots \subseteq {"before", "after"}
  /\ audited \in BOOLEAN
  /\ verdict \in [selfTest : TestResults, surface : SurfaceResults]
  /\ pc \in Awaits \cup {"begin", "head", "gate", "verdict", "verdictRun", "return",
                         "abortRun", "failRow", "failRun", "count", "end", "down"}
  /\ i \in DOMAIN Stages
  /\ stageId \in {0} \cup RowsOf(Stage)
  /\ state \in [before : BOOLEAN, supported : BOOLEAN, selfTest : TestResults,
                surface : SurfaceResults, after : BOOLEAN]
  /\ skipStages \in BOOLEAN
  /\ aborted \in BOOLEAN
  /\ capable \in {"yes", "declared", "silent"}
  /\ condemned \in BOOLEAN
  /\ testing \in BOOLEAN
  /\ log \in {None, "old", "own"}
  /\ crashes \in 0..MaxCrashes
  /\ uncounted \in 0..crashes

(***************************************************************************)
(* The verdict has its evidence, also for a run whose RunState was rebuilt *)
(* from its rows, however often, whatever the gate skipped: the throw of   *)
(* #runVerdictStage is "unreachable given the fixed regime stage order"    *)
(* (engine.ts:1287-1290), and a verdict that grades no surface scan comes  *)
(* only from a baseline that condemned the drive (engine.ts:605-607,       *)
(* 1212-1235).                                                             *)
(***************************************************************************)
VerdictHasEvidence ==
  /\ pc = "verdict" => Evidence
  /\ verdict # Ungraded /\ verdict.surface = None => audited /\ condemned

(***************************************************************************)
(* A DONE run has run, or skipped, every stage: a restart never passes     *)
(* over one that was cut short (engine.ts:49-51, 554-568).  Nor does it    *)
(* ever spend the hours of a settled one again: only VERDICT, which reads, *)
(* may have two settled rows.                                              *)
(***************************************************************************)
SettledRows(s) == {m \in RowsOf(s) : rows[m].status \in {"DONE", "SKIPPED"}}

EachStageSettledOnce ==
  /\ runStatus = "DONE" => \A n \in DOMAIN Stages : LatestStatus(Stages[n]) \in {"DONE", "SKIPPED"}
  /\ \A n \in 1..(Len(Stages) - 1) : Cardinality(SettledRows(Stages[n])) <= 1

(***************************************************************************)
(* An accepted abort wins in the process that accepted it: the run does    *)
(* not end DONE, and no stage is recorded DONE any more, but for a scan    *)
(* that had really finished (engine.ts:810-830).                           *)
(***************************************************************************)
AbortWins ==
  [][aborted =>
       /\ runStatus' = "DONE" => runStatus = "DONE"
       /\ \A n \in DOMAIN rows :
            rows'[n].status = "DONE" => rows[n].status = "DONE" \/ rows'[n].metrics = "complete"]_vars

(***************************************************************************)
(* The cap on restarts bounds the scans the drive is put through           *)
(* (engine.ts:472-485, 626-631): the first, one for each counted restart,  *)
(* and one for each death that falls between closing the row of a scan and *)
(* counting its restart, or ending the run for it.  No other sequence of   *)
(* deaths, failures and aborts buys a scan.                                *)
(***************************************************************************)
ScanCount == Cardinality(RowsOf("SURFACE"))

RestartsCapped == ScanCount <= 1 + MaxRestarts + uncounted

(***************************************************************************)
(* A self-test the drive still runs for a RUNNING row is polled, never     *)
(* started over, by the process that resumes (engine.ts:622-624).          *)
(***************************************************************************)
TestNotRestarted ==
  [][pc = "head" /\ pc' = "starting" /\ testing =>
       LatestStatus("SELFTEST_LONG") \in {"ABORTED", "FAILED"}]_vars

(***************************************************************************)
(* If the drive answers and crashes stop, the run gets a terminal status,  *)
(* wherever it was interrupted.                                            *)
(***************************************************************************)
EventuallyTerminal == DriveAnswers => <>(runStatus \in Terminal)

(***************************************************************************)
(* An abort takes effect though the self-test or badblocks never ends, if  *)
(* only the process survives (engine.ts:1136-1158, realDeviceApi.ts:426).  *)
(***************************************************************************)
AbortTakesEffect == aborted ~> (runStatus \in Terminal \/ ~aborted)

(***************************************************************************)
(* What is written about this code, and does not hold.                     *)
(***************************************************************************)

(* "Long self-test skipped -- baseline SMART already condemned the drive"  *)
(* is the reason a verdict gives only when it did (evaluate.ts:27-36).     *)
SkippedMeansCondemned ==
  verdict.selfTest = "SKIPPED" => condemned

(* "Only a scan that actually finished is 100%" (engine.ts:1224): a SURFACE *)
(* row that is DONE is one whose scan completed.                            *)
DoneSurfaceFinished ==
  \A n \in RowsOf("SURFACE") : rows[n].status = "DONE" => rows[n].metrics = "complete"

(* "the firmware self-test itself kept running across the process restart"   *)
(* (engine.ts:1047-1050): what a resumed poll reports is this run's own test.*)
VerdictOnOwnTest == verdict.selfTest # "old"

(* "Cap on SURFACE-stage restarts via reconcile() before giving up on a run"  *)
(* (engine.ts:216): MaxRestarts of them, however often the process dies.      *)
ScansCapped == ScanCount <= 1 + MaxRestarts
=============================================================================
