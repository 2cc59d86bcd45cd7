---------------------------- MODULE RegimeProofs ----------------------------
(***************************************************************************)
(* The regime of one run, for any cap on restarts and any number of deaths *)
(* of the process: scans beyond the cap are owed to deaths that kept one   *)
(* from being counted, an accepted abort wins, a verdict has its evidence, *)
(* each stage is settled once, and a self-test that may still run is       *)
(* polled.                                                                 *)
(***************************************************************************)
EXTENDS RegimeRun, FiniteSetTheorems, WellFoundedInduction, TLAPS

Metrics == TestResults \cup SurfaceResults

AnyRow == [stage : {Stages[n] : n \in Nat}, status : RowStatuses, metrics : Metrics]

(* As much of the types as the theorems need: which stage a row is of, and   *)
(* which result it may hold, is left open.                                   *)
Typed ==
  /\ rows \in Seq(AnyRow)
  /\ state \in [before : BOOLEAN, supported : BOOLEAN, selfTest : Metrics,
                surface : Metrics, after : BOOLEAN]
  /\ i \in Nat
  /\ stageId \in Nat
  /\ restartCount \in Nat
  /\ log \in {None, "old", "own"}

Interrupted == {n \in DOMAIN rows : rows[n].status = "INTERRUPTED"}

(* The row of the stage at hand is not one a restart has closed. *)
RowOpen == stageId \in DOMAIN rows => stageId \notin Interrupted

(* A restart that is about to be counted has room below the cap. *)
CountedRestart == pc = "count" => restartCount < MaxRestarts

CounterCapped == restartCount <= MaxRestarts

(* An abort is accepted at an await, and VERDICT has none. *)
AbortSeen == aborted => pc \notin {"verdict", "verdictRun"}

RegInv == Typed /\ RowOpen /\ CountedRestart /\ CounterCapped /\ AbortSeen

LEMMA InitRegInv == Init => RegInv
<1> SUFFICES ASSUME Init PROVE RegInv
  OBVIOUS
<1>1. Typed
  BY DEF Init, Typed, BlankState, Metrics, TestResults, SurfaceResults
<1>2. Interrupted = {} /\ rows = <<>> /\ restartCount = 0
  BY DEF Init, Interrupted
<1>3. QED
  BY <1>1, <1>2, ConstantsAssumption
  DEF Init, RegInv, RowOpen, CountedRestart, CounterCapped, AbortSeen, Interrupted

(* The rows of a stage have a newest one. *)
LEMMA LatestExists ==
  ASSUME Typed, NEW stage, RowsOf(stage) # {}
  PROVE  LatestId(stage) \in RowsOf(stage)
<1> DEFINE R == OpToRel(<, Nat)
           T == {Len(rows) - n : n \in RowsOf(stage)}
<1>1. RowsOf(stage) \subseteq 1..Len(rows) /\ Len(rows) \in Nat
  BY DEF Typed, RowsOf
<1>2. T \subseteq Nat /\ T # {}
  BY <1>1
<1>3. PICK x \in T : \A y \in T : ~ (<<y, x>> \in R)
  <2>1. IsWellFoundedOn(R, Nat)
    BY NatLessThanWellFounded
  <2> HIDE DEF R, T
  <2>2. QED
    BY <1>2, <2>1, WFMin
<1>4. PICK n \in RowsOf(stage) : x = Len(rows) - n
  BY <1>3
<1>5. ASSUME NEW m \in RowsOf(stage)
      PROVE  m <= n
  <2>1. Len(rows) - m \in T
    OBVIOUS
  <2>2. ~ (<<Len(rows) - m, x>> \in R)
    BY <1>3, <2>1
  <2>3. ~ (Len(rows) - m < x)
    BY <1>2, <2>1, <2>2 DEF OpToRel
  <2>4. QED
    BY <1>1, <1>4, <2>3
<1>6. \E k \in RowsOf(stage) : \A m \in RowsOf(stage) : m <= k
  BY <1>5
<1>7. QED
  BY <1>6 DEF LatestId

(* A resume has a stage to go on with. *)
LEMMA ResumeIndexTyped == ResumeIndex \in DOMAIN Stages
<1> DEFINE unsettled == {n \in DOMAIN Stages : ~Settled(Stages[n])}
<1>1. DOMAIN Stages = 1..5 /\ Len(Stages) = 5
  BY DEF Stages
<1>2. unsettled \subseteq 1..5
  BY <1>1
<1>3. ASSUME unsettled # {}
      PROVE  \E n \in unsettled : \A m \in unsettled : n <= m
  <2> HIDE DEF unsettled
  <2>1. \A m \in unsettled : m = 1 \/ m = 2 \/ m = 3 \/ m = 4 \/ m = 5
    BY <1>2
  <2>2. \/ 1 \in unsettled
        \/ 1 \notin unsettled /\ 2 \in unsettled
        \/ 1 \notin unsettled /\ 2 \notin unsettled /\ 3 \in unsettled
        \/ 1 \notin unsettled /\ 2 \notin unsettled /\ 3 \notin unsettled /\ 4 \in unsettled
        \/ 5 \in unsettled /\ \A m \in unsettled : m = 5
    BY <1>3, <2>1
  <2>3. QED
    BY <2>1, <2>2
<1>4. QED
  BY <1>1, <1>2, <1>3 DEF ResumeIndex

(* What the rows give back is a RunState. *)
LEMMA ResumedStateTyped ==
  ASSUME Typed, NEW n
  PROVE  ResumedState(n) \in [before : BOOLEAN, supported : BOOLEAN, selfTest : Metrics,
                              surface : Metrics, after : BOOLEAN]
<1>1. \A stage : Earlier(n, stage) => rows[LatestId(stage)].metrics \in Metrics
  <2> SUFFICES ASSUME NEW stage, Earlier(n, stage)
               PROVE  rows[LatestId(stage)].metrics \in Metrics
    OBVIOUS
  <2>1. LatestId(stage) \in DOMAIN rows
    BY LatestExists DEF Earlier, RowsOf
  <2>2. rows[LatestId(stage)] \in AnyRow
    BY <2>1 DEF Typed
  <2>3. QED
    BY <2>2 DEF AnyRow
<1>2. {None, "SKIPPED", "UNSUPPORTED"} \subseteq Metrics
  BY DEF Metrics, TestResults
<1>3. ResumedState(n).selfTest \in Metrics
  BY <1>1, <1>2 DEF ResumedState
<1>4. ResumedState(n).surface \in Metrics
  BY <1>1, <1>2 DEF ResumedState
<1>5. /\ ResumedState(n).before \in BOOLEAN
      /\ ResumedState(n).supported \in BOOLEAN
      /\ ResumedState(n).after \in BOOLEAN
  BY DEF ResumedState, Earlier
<1>6. QED
  BY <1>3, <1>4, <1>5 DEF ResumedState

(* What a step does to the rows. *)
Appends == \E st \in {"SKIPPED", "RUNNING"} : rows' = Append(rows, Row(st))

Writes ==
  \E st \in RowStatuses \ {"INTERRUPTED"} : SetRow(st) /\ (st = "DONE" => ~aborted)

Reports == \E m \in Metrics : rows' = [rows EXCEPT ![stageId].metrics = m]

Scans == \E surface \in {"complete", "partial"} : SurfaceRow(surface)

Interrupts ==
  /\ LatestId("SURFACE") \in DOMAIN rows
  /\ rows[LatestId("SURFACE")].status = "RUNNING"
  /\ rows' = [rows EXCEPT ![LatestId("SURFACE")].status = "INTERRUPTED"]

RowsStep == rows' = rows \/ Appends \/ Writes \/ Reports \/ Scans \/ Interrupts

(* A stale scan has a row to close. *)
LEMMA InterruptsWhenStale ==
  ASSUME Typed, LatestStatus("SURFACE") = "RUNNING"
  PROVE  LatestId("SURFACE") \in DOMAIN rows /\ rows[LatestId("SURFACE")].status = "RUNNING"
<1>1. RowsOf("SURFACE") # {}
  BY DEF LatestStatus, None
<1>2. QED
  BY <1>1, LatestExists DEF LatestStatus, RowsOf

(* Only the plan of a resume closes a row. *)
LEMMA StepOnRows ==
  ASSUME Typed, AbortSeen, [Next]_vars
  PROVE  /\ RowsStep
         /\ ResumePlanned \/ rows' = rows \/ Appends \/ Writes \/ Reports \/ Scans
<1> USE DEF RowsStep
<1>1. CASE SkipStage \/ StartStage
  BY <1>1 DEF SkipStage, StartStage, Appends
<1>2. CASE StageReturns \/ FailRow \/ VerdictRow
  BY <1>2 DEF StageReturns, FailRow, VerdictRow, Writes, AbortSeen, RowStatuses
<1>3. CASE StartAnswered
  <2>1. "UNSUPPORTED" \in Metrics
    BY DEF Metrics, TestResults
  <2>2. QED
    BY <1>3, <2>1 DEF StartAnswered, TestStageReturns, Reports, database
<1>4. CASE PollEnds
  <2>1. (IF log = None THEN "UNKNOWN" ELSE log) \in Metrics
    BY DEF Typed, Metrics, TestResults
  <2>2. QED
    BY <1>4, <2>1 DEF PollEnds, TestStageReturns, Reports
<1>5. CASE StopAnswered
  BY <1>5 DEF StopAnswered, TestStageReturns, Reports, Typed
<1>6. CASE RecheckAllows \/ SurfaceEnds
  BY <1>6 DEF RecheckAllows, SurfaceEnds, Scans
<1>7. CASE ResumePlanned
  BY <1>7, InterruptsWhenStale DEF ResumePlanned, Interrupts
<1>8. CASE UNCHANGED rows
  BY <1>8
<1>9. QED
  BY <1>1, <1>2, <1>3, <1>4, <1>5, <1>6, <1>7, <1>8
  DEF Next, Engine, Begin, AbortAtHead, SmartRead, Gate, PollAborted, VerdictRun, EndRun,
      Reconcile, ResumeBegins, CountRestart, TestStarts, TestEnds, StageThrows, ResumeRefused,
      AbortRun, Crash, vars, database

(* A sequence with one more element. *)
LEMMA AppendedRow ==
  ASSUME NEW S, NEW s \in Seq(S), NEW e \in S
  PROVE  /\ DOMAIN Append(s, e) = 1..(Len(s) + 1)
         /\ Append(s, e)[Len(s) + 1] = e
         /\ \A n \in DOMAIN s : Append(s, e)[n] = s[n]
  OBVIOUS

(* The row a stage starts with. *)
LEMMA NewRowTyped ==
  ASSUME Typed, NEW st \in {"SKIPPED", "RUNNING"}
  PROVE  Row(st) \in AnyRow /\ Row(st).status = st
  BY DEF Row, AnyRow, Stage, Typed, RowStatuses, Metrics, TestResults

(* A step adds rows at the end and keeps an interrupted one that is not the  *)
(* row of the stage at hand.                                                 *)
LEMMA RowsStepEffect ==
  ASSUME Typed, RowsStep
  PROVE  /\ rows' \in Seq(AnyRow)
         /\ DOMAIN rows \subseteq DOMAIN rows'
         /\ \A n \in DOMAIN rows :
              rows[n].status = "INTERRUPTED" /\ n # stageId => rows'[n].status = "INTERRUPTED"
<1>1. rows \in Seq(AnyRow) /\ DOMAIN rows = 1..Len(rows) /\ Len(rows) \in Nat
  BY DEF Typed
<1>2. CASE rows' = rows
  BY <1>1, <1>2
<1>3. CASE Appends
  <2>1. PICK st \in {"SKIPPED", "RUNNING"} : rows' = Append(rows, Row(st))
    BY <1>3 DEF Appends
  <2>2. Row(st) \in AnyRow
    BY <2>1, NewRowTyped
  <2> HIDE DEF AnyRow
  <2>3. QED
    BY <1>1, <2>1, <2>2
<1>4. ASSUME NEW k \in DOMAIN rows, NEW row \in AnyRow, rows' = [rows EXCEPT ![k] = row],
             k = stageId \/ rows[k].status # "INTERRUPTED"
      PROVE  /\ rows' \in Seq(AnyRow)
             /\ DOMAIN rows \subseteq DOMAIN rows'
             /\ \A n \in DOMAIN rows :
                  rows[n].status = "INTERRUPTED" /\ n # stageId => rows'[n].status = "INTERRUPTED"
  BY <1>1, <1>4
<1>5. \A k \in DOMAIN rows : rows[k] \in AnyRow
  BY <1>1
<1>6. \A k \in DOMAIN rows : \A st \in RowStatuses : [rows[k] EXCEPT !.status = st] \in AnyRow
  BY <1>5 DEF AnyRow
<1>7. \A k \in DOMAIN rows : \A m \in Metrics : [rows[k] EXCEPT !.metrics = m] \in AnyRow
  BY <1>5 DEF AnyRow
<1>8. CASE Writes
  <2>1. PICK st \in RowStatuses : rows' = [rows EXCEPT ![stageId].status = st]
    BY <1>8 DEF Writes, SetRow
  <2>2. stageId \notin DOMAIN rows => rows' = rows
    BY <1>1, <2>1
  <2>3. QED
    BY <1>2, <1>4, <1>6, <2>1, <2>2
<1>9. CASE Reports
  <2>1. PICK m \in Metrics : rows' = [rows EXCEPT ![stageId].metrics = m]
    BY <1>9 DEF Reports
  <2>2. stageId \notin DOMAIN rows => rows' = rows
    BY <1>1, <2>1
  <2>3. QED
    BY <1>2, <1>4, <1>7, <2>1, <2>2
<1>10. CASE Scans
  <2>1. PICK surface \in {"complete", "partial"} : SurfaceRow(surface)
    BY <1>10 DEF Scans
  <2> DEFINE st == IF surface = "complete" THEN "DONE" ELSE "ABORTED"
             row == [[rows[stageId] EXCEPT !.status = st] EXCEPT !.metrics = surface]
  <2>2. rows' = [rows EXCEPT ![stageId].status = st, ![stageId].metrics = surface]
    BY <2>1 DEF SurfaceRow
  <2>3. stageId \notin DOMAIN rows => rows' = rows
    BY <1>1, <2>2
  <2>4. stageId \in DOMAIN rows => rows' = [rows EXCEPT ![stageId] = row]
    BY <1>1, <2>2
  <2>5. stageId \in DOMAIN rows => row \in AnyRow
    BY <1>5, <2>1 DEF AnyRow, RowStatuses, Metrics, SurfaceResults
  <2>6. QED
    BY <1>2, <1>4, <2>3, <2>4, <2>5
<1>11. CASE Interrupts
  <2> DEFINE k == LatestId("SURFACE")
  <2>1. /\ k \in DOMAIN rows
        /\ rows[k].status = "RUNNING"
        /\ rows' = [rows EXCEPT ![k].status = "INTERRUPTED"]
    BY <1>11 DEF Interrupts
  <2>2. [rows[k] EXCEPT !.status = "INTERRUPTED"] \in AnyRow
    BY <1>6, <2>1 DEF RowStatuses
  <2>3. QED
    BY <1>4, <2>1, <2>2
<1>12. QED
  BY <1>2, <1>3, <1>8, <1>9, <1>10, <1>11 DEF RowsStep

LEMMA StateStep ==
  ASSUME Typed, Next
  PROVE  state' \in [before : BOOLEAN, supported : BOOLEAN, selfTest : Metrics,
                     surface : Metrics, after : BOOLEAN]
<1>1. {None, "SKIPPED", "UNSUPPORTED", "UNKNOWN", "old", "own", "complete", "partial"}
        \subseteq Metrics
  BY DEF Metrics, TestResults, SurfaceResults
<1>2. CASE SkipStage
  BY <1>1, <1>2 DEF SkipStage, Typed
<1>3. CASE SmartRead
  BY <1>3 DEF SmartRead, Typed
<1>4. CASE StartAnswered \/ PollEnds \/ StopAnswered
  BY <1>1, <1>4 DEF StartAnswered, PollEnds, StopAnswered, TestStageReturns, Typed, memory
<1>5. CASE PollAborted
  BY <1>1, <1>5 DEF PollAborted, Typed
<1>6. CASE RecheckAllows \/ SurfaceEnds
  BY <1>1, <1>6 DEF RecheckAllows, SurfaceEnds, Typed
<1>7. CASE ResumePlanned
  BY <1>7, ResumedStateTyped DEF ResumePlanned
<1>8. CASE Crash
  BY <1>1, <1>8 DEF Crash, BlankState
<1>9. CASE UNCHANGED state
  BY <1>9 DEF Typed
<1>10. QED
  BY <1>2, <1>3, <1>4, <1>5, <1>6, <1>7, <1>8, <1>9
  DEF Next, Engine, Begin, AbortAtHead, StartStage, Gate, VerdictRow, VerdictRun, StageReturns,
      FailRow, EndRun, Reconcile, ResumeBegins, CountRestart, TestStarts, TestEnds, StageThrows,
      ResumeRefused, AbortRun, memory

LEMMA TypedStep ==
  ASSUME Typed, AbortSeen, [Next]_vars
  PROVE  Typed'
<1>1. rows' \in Seq(AnyRow)
  BY StepOnRows, RowsStepEffect
<1>2. CASE UNCHANGED vars
  BY <1>2 DEF vars, database, memory, firmware, Typed
<1>3. CASE Next
  <2>1. i' \in Nat /\ stageId' \in Nat
    <3>1. CASE ResumePlanned
      <4>1. i' \in Nat
        BY <3>1, ResumeIndexTyped DEF ResumePlanned, Stages
      <4>2. \A n : PolledRow(n) \in Nat
        BY LatestExists DEF PolledRow, LatestStatus, RowsOf, Typed, None
      <4>3. QED
        BY <3>1, <4>1, <4>2 DEF ResumePlanned
    <3>2. CASE SkipStage \/ StageReturns \/ Crash
      BY <3>2 DEF SkipStage, StageReturns, NextStage, Crash, Typed
    <3>3. CASE StartStage
      BY <3>3 DEF StartStage, Typed
    <3>4. CASE UNCHANGED <<i, stageId>>
      BY <3>4 DEF Typed
    <3>5. QED
      BY <1>3, <3>1, <3>2, <3>3, <3>4
      DEF Next, Engine, Begin, AbortAtHead, SmartRead, Gate, StartAnswered, PollEnds, PollAborted,
          StopAnswered, TestStageReturns, RecheckAllows, SurfaceEnds, VerdictRow, VerdictRun,
          FailRow, EndRun, Reconcile, ResumeBegins, CountRestart, TestStarts, TestEnds,
          StageThrows, ResumeRefused, AbortRun, memory
  <2>2. restartCount' \in Nat
    <3>1. CASE CountRestart
      BY <3>1 DEF CountRestart, Typed
    <3>2. CASE UNCHANGED restartCount
      BY <3>2 DEF Typed
    <3>3. QED
      BY <1>3, <3>1, <3>2
      DEF Next, Engine, Begin, SkipStage, AbortAtHead, StartStage, SmartRead, Gate, StartAnswered,
          PollEnds, PollAborted, StopAnswered, TestStageReturns, RecheckAllows, SurfaceEnds,
          VerdictRow, VerdictRun, StageReturns, FailRow, EndRun, Reconcile, ResumeBegins,
          ResumePlanned, TestStarts, TestEnds, StageThrows, ResumeRefused, AbortRun, Crash,
          database
  <2>3. log' \in {None, "old", "own"}
    <3>1. log' \in {log, "own"}
      BY <1>3
      DEF Next, Engine, Begin, SkipStage, AbortAtHead, StartStage, SmartRead, Gate, StartAnswered,
          PollEnds, PollAborted, StopAnswered, RecheckAllows, SurfaceEnds, VerdictRow, VerdictRun,
          StageReturns, FailRow, EndRun, Reconcile, ResumeBegins, ResumePlanned, CountRestart,
          TestStarts, TestEnds, StageThrows, ResumeRefused, AbortRun, Crash, Keep, firmware
    <3>2. QED
      BY <3>1 DEF Typed
  <2>4. QED
    BY <1>1, <1>3, <2>1, <2>2, <2>3, StateStep DEF Typed
<1>4. QED
  BY <1>2, <1>3

(* Nothing but a restart closes a row: a step that keeps the stage at hand   *)
(* keeps its row open.                                                       *)
LEMMA SameRowOpen ==
  ASSUME Typed, RowOpen, UNCHANGED stageId,
         rows' = rows \/ Appends \/ Writes \/ Reports \/ Scans
  PROVE  RowOpen'
<1>1. DOMAIN rows = 1..Len(rows) /\ Len(rows) \in Nat /\ stageId \in Nat /\ rows \in Seq(AnyRow)
  BY DEF Typed
<1>2. CASE rows' = rows
  BY <1>2 DEF RowOpen, Interrupted
<1>3. CASE Appends
  <2>1. PICK st \in {"SKIPPED", "RUNNING"} : rows' = Append(rows, Row(st))
    BY <1>3 DEF Appends
  <2>2. Row(st) \in AnyRow
    BY <2>1, NewRowTyped
  <2>3. /\ DOMAIN rows' = 1..(Len(rows) + 1)
        /\ rows'[Len(rows) + 1] = Row(st)
        /\ \A n \in DOMAIN rows : rows'[n] = rows[n]
    <3>1. /\ DOMAIN Append(rows, Row(st)) = 1..(Len(rows) + 1)
          /\ Append(rows, Row(st))[Len(rows) + 1] = Row(st)
          /\ \A n \in DOMAIN rows : Append(rows, Row(st))[n] = rows[n]
      <4>1. rows \in Seq(AnyRow)
        BY <1>1
      <4>2. QED
        BY <2>2, <4>1, AppendedRow
    <3>2. QED
      BY <2>1, <3>1
  <2>4. CASE stageId = Len(rows) + 1
    BY <2>1, <2>3, <2>4, NewRowTyped DEF RowOpen, Interrupted
  <2>5. CASE stageId # Len(rows) + 1
    <3>1. stageId \in DOMAIN rows' => stageId \in DOMAIN rows
      BY <1>1, <2>3, <2>5
    <3>2. QED
      BY <2>3, <3>1 DEF RowOpen, Interrupted
  <2>6. QED
    BY <2>4, <2>5
<1>4. \A k \in DOMAIN rows : rows[k] \in AnyRow
  BY <1>1
<1>5. CASE Writes
  <2>1. PICK st \in RowStatuses \ {"INTERRUPTED"} : rows' = [rows EXCEPT ![stageId].status = st]
    BY <1>5 DEF Writes, SetRow
  <2>2. stageId \in DOMAIN rows' => rows'[stageId].status = st
    BY <1>1, <1>4, <2>1 DEF AnyRow
  <2>3. QED
    BY <2>1, <2>2 DEF RowOpen, Interrupted
<1>6. CASE Reports
  <2>1. PICK m \in Metrics : rows' = [rows EXCEPT ![stageId].metrics = m]
    BY <1>6 DEF Reports
  <2>2. stageId \in DOMAIN rows' => stageId \in DOMAIN rows /\ rows'[stageId].status = rows[stageId].status
    BY <1>1, <1>4, <2>1 DEF AnyRow
  <2>3. QED
    BY <2>2 DEF RowOpen, Interrupted
<1>7. CASE Scans
  <2>1. PICK surface \in {"complete", "partial"} : SurfaceRow(surface)
    BY <1>7 DEF Scans
  <2> DEFINE st == IF surface = "complete" THEN "DONE" ELSE "ABORTED"
  <2>2. rows' = [rows EXCEPT ![stageId].status = st, ![stageId].metrics = surface]
    BY <2>1 DEF SurfaceRow
  <2>3. stageId \in DOMAIN rows' => rows'[stageId].status = st
    BY <1>1, <1>4, <2>2 DEF AnyRow
  <2>4. QED
    BY <2>3 DEF RowOpen, Interrupted
<1>8. QED
  BY <1>2, <1>3, <1>5, <1>6, <1>7

LEMMA RowOpenStep ==
  ASSUME Typed, AbortSeen, RowOpen, Next
  PROVE  RowOpen'
<1>1. rows' \in Seq(AnyRow)
  BY StepOnRows, RowsStepEffect
<1>2. 0 \notin DOMAIN rows'
  BY <1>1
<1>3. CASE stageId' = 0
  BY <1>2, <1>3 DEF RowOpen
<1>4. CASE StartStage
  <2>1. CASE stageId # 0
    BY <1>4, <2>1, SameRowOpen DEF StartStage
  <2>2. CASE stageId = 0
    <3>1. rows' = Append(rows, Row("RUNNING")) /\ stageId' = Len(rows) + 1
      BY <1>4, <2>2 DEF StartStage
    <3>2. rows'[stageId'].status = "RUNNING"
      BY <3>1 DEF Typed, Row
    <3>3. QED
      BY <3>2 DEF RowOpen, Interrupted
  <2>3. QED
    BY <2>1, <2>2
<1>5. CASE ResumePlanned
  <2> DEFINE n == ResumeIndex
  <2>1. stageId' = PolledRow(n)
    BY <1>5 DEF ResumePlanned
  <2>2. CASE Stages[n] = "SELFTEST_LONG" /\ LatestStatus("SELFTEST_LONG") = "RUNNING"
    <3>1. rows' = rows /\ stageId' = LatestId("SELFTEST_LONG")
      BY <1>5, <2>1, <2>2 DEF ResumePlanned, PolledRow
    <3>2. rows[LatestId("SELFTEST_LONG")].status = "RUNNING"
      BY <2>2 DEF LatestStatus, None
    <3>3. QED
      BY <3>1, <3>2 DEF RowOpen, Interrupted
  <2>3. QED
    BY <1>3, <2>1, <2>2 DEF PolledRow
<1>6. CASE StageReturns
  BY <1>3, <1>6, SameRowOpen, StepOnRows
  DEF StageReturns, NextStage, Writes, RowStatuses
<1>7. CASE Crash
  BY <1>3, <1>7 DEF Crash
<1>8. CASE ~StartStage /\ ~ResumePlanned /\ ~StageReturns /\ ~Crash
  <2>1. UNCHANGED stageId
    BY <1>8
    DEF Next, Engine, Begin, SkipStage, AbortAtHead, SmartRead, Gate, StartAnswered, PollEnds,
        PollAborted, StopAnswered, TestStageReturns, RecheckAllows, SurfaceEnds, VerdictRow,
        VerdictRun, FailRow, EndRun, Reconcile, ResumeBegins, CountRestart, TestStarts, TestEnds,
        StageThrows, ResumeRefused, AbortRun, memory
  <2>2. QED
    BY <1>8, <2>1, SameRowOpen, StepOnRows
<1>9. QED
  BY <1>4, <1>5, <1>6, <1>7, <1>8

LEMMA AbortSeenStep == AbortSeen /\ Next => AbortSeen'
  BY DEF AbortSeen, Next, Engine, Begin, SkipStage, AbortAtHead, StartStage, SmartRead, Gate,
         StartAnswered, PollEnds, PollAborted, StopAnswered, TestStageReturns, RecheckAllows,
         SurfaceEnds, VerdictRow, VerdictRun, StageReturns, NextStage, FailRow, EndRun, Reconcile,
         ResumeBegins, ResumePlanned, CountRestart, TestStarts, TestEnds, StageThrows,
         ResumeRefused, AbortRun, Crash, memory, Awaits

(* A restart is counted below the cap, behind the plan that looked at it. *)
LEMMA CounterStep ==
  ASSUME RegInv, Next
  PROVE  CountedRestart' /\ CounterCapped'
<1>1. restartCount \in Nat /\ MaxRestarts \in Nat
  BY ConstantsAssumption DEF RegInv, Typed
<1>2. CASE CountRestart
  BY <1>1, <1>2 DEF CountRestart, RegInv, CountedRestart, CounterCapped
<1>3. CASE ResumePlanned
  BY <1>1, <1>3 DEF ResumePlanned, TooManyRestarts, RegInv, CountedRestart, CounterCapped
<1>4. CASE ~CountRestart /\ ~ResumePlanned
  <2>1. restartCount' = restartCount /\ (pc' = "count" => pc = "count")
    BY <1>4
    DEF Next, Engine, Begin, SkipStage, AbortAtHead, StartStage, SmartRead, Gate, StartAnswered,
        PollEnds, PollAborted, StopAnswered, TestStageReturns, RecheckAllows, SurfaceEnds,
        VerdictRow, VerdictRun, StageReturns, NextStage, FailRow, EndRun, Reconcile, ResumeBegins,
        TestStarts, TestEnds, StageThrows, ResumeRefused, AbortRun, Crash, database
  <2>2. QED
    BY <2>1 DEF RegInv, CountedRestart, CounterCapped
<1>5. QED
  BY <1>2, <1>3, <1>4

LEMMA RegInvStep ==
  ASSUME RegInv, [Next]_vars
  PROVE  RegInv'
<1>1. CASE Next
  BY <1>1, TypedStep, RowOpenStep, AbortSeenStep, CounterStep DEF RegInv
<1>2. CASE UNCHANGED vars
  BY <1>2 DEF vars, database, memory, firmware, RegInv, Typed, RowOpen, Interrupted,
              CountedRestart, CounterCapped, AbortSeen
<1>3. QED
  BY <1>1, <1>2

(* What an aborted run may still write. *)
LEMMA AbortedWrites ==
  ASSUME Typed, AbortSeen, Next, aborted
  PROVE  /\ runStatus' = "DONE" => runStatus = "DONE"
         /\ \A n \in DOMAIN rows :
              rows'[n].status = "DONE" => rows[n].status = "DONE" \/ rows'[n].metrics = "complete"
<1>1. rows \in Seq(AnyRow) /\ DOMAIN rows = 1..Len(rows) /\ Len(rows) \in Nat
  BY DEF Typed
<1>2. \A k \in DOMAIN rows : rows[k] \in AnyRow
  BY <1>1
<1>3. runStatus' = "DONE" => runStatus = "DONE"
  BY DEF AbortSeen, Next, Engine, Begin, SkipStage, AbortAtHead, StartStage, SmartRead, Gate,
         StartAnswered, PollEnds, PollAborted, StopAnswered, TestStageReturns, RecheckAllows,
         SurfaceEnds, VerdictRow, VerdictRun, StageReturns, FailRow, EndRun, Reconcile,
         ResumeBegins, ResumePlanned, CountRestart, TestStarts, TestEnds, StageThrows,
         ResumeRefused, AbortRun, Crash, database
<1> SUFFICES \A n \in DOMAIN rows :
               rows'[n].status = "DONE" => rows[n].status = "DONE" \/ rows'[n].metrics = "complete"
  BY <1>3
<1>4. CASE rows' = rows
  BY <1>4
<1>5. CASE Appends
  <2>1. \A n \in DOMAIN rows : rows'[n] = rows[n]
    BY <1>1, <1>5, NewRowTyped DEF Appends
  <2>2. QED
    BY <2>1
<1>6. CASE Writes
  <2>1. PICK st \in RowStatuses : rows' = [rows EXCEPT ![stageId].status = st] /\ st # "DONE"
    BY <1>6 DEF Writes, SetRow
  <2>2. \A n \in DOMAIN rows : rows'[n].status = IF n = stageId THEN st ELSE rows[n].status
    BY <1>1, <1>2, <2>1 DEF AnyRow
  <2>3. QED
    BY <2>1, <2>2
<1>7. CASE Reports
  <2>1. PICK m \in Metrics : rows' = [rows EXCEPT ![stageId].metrics = m]
    BY <1>7 DEF Reports
  <2>2. \A n \in DOMAIN rows : rows'[n].status = rows[n].status
    BY <1>1, <1>2, <2>1 DEF AnyRow
  <2>3. QED
    BY <2>2
<1>8. CASE Scans
  <2>1. PICK surface \in {"complete", "partial"} : SurfaceRow(surface)
    BY <1>8 DEF Scans
  <2> DEFINE st == IF surface = "complete" THEN "DONE" ELSE "ABORTED"
  <2>2. rows' = [rows EXCEPT ![stageId].status = st, ![stageId].metrics = surface]
    BY <2>1 DEF SurfaceRow
  <2>3. \A n \in DOMAIN rows :
          IF n = stageId THEN rows'[n].status = st /\ rows'[n].metrics = surface
                         ELSE rows'[n] = rows[n]
    BY <1>1, <1>2, <2>2 DEF AnyRow
  <2>4. QED
    BY <2>1, <2>3
<1>9. CASE Interrupts
  <2>1. \A n \in DOMAIN rows : rows'[n].status \in {rows[n].status, "INTERRUPTED"}
    BY <1>1, <1>2, <1>9 DEF Interrupts, AnyRow
  <2>2. QED
    BY <2>1
<1>10. QED
  BY <1>4, <1>5, <1>6, <1>7, <1>8, <1>9, StepOnRows DEF RowsStep

(* An accepted abort wins in the process that accepted it: the run does not  *)
(* end DONE, and no stage is recorded DONE any more, but for a scan that had *)
(* really finished (engine.ts:810-830).                                      *)
THEOREM AbortPrevails == Spec => AbortWins
<1>1. RegInv /\ [Next]_vars =>
        [aborted =>
           /\ runStatus' = "DONE" => runStatus = "DONE"
           /\ \A n \in DOMAIN rows :
                rows'[n].status = "DONE" => rows[n].status = "DONE" \/ rows'[n].metrics = "complete"]_vars
  BY AbortedWrites DEF RegInv
<1>2. QED
  BY InitRegInv, RegInvStep, <1>1, PTL DEF Spec, AbortWins
-----------------------------------------------------------------------------
(***************************************************************************)
(* The rows as the history of the run.  Rows are only ever added behind    *)
(* the last one, for the first stage that is not settled, and only the     *)
(* last one is written to: so the plan of a resume, made from the rows     *)
(* alone, finds the stage the run was at and what the stages before it     *)
(* found.                                                                  *)
(***************************************************************************)
StageNames == {"SMART_BEFORE", "SELFTEST_LONG", "SURFACE", "SMART_AFTER", "VERDICT"}

Rank(stage) == CASE stage = "SMART_BEFORE" -> 1
                 [] stage = "SELFTEST_LONG" -> 2
                 [] stage = "SURFACE" -> 3
                 [] stage = "SMART_AFTER" -> 4
                 [] OTHER -> 5

Last == rows[Len(rows)]

IsSettled(row) == row.status \in {"DONE", "SKIPPED"}

(* Rows come in the order of their stages, and a settled stage gets no other *)
(* row; VERDICT may.                                                         *)
Ordered ==
  \A n, m \in DOMAIN rows :
    n < m => /\ Rank(rows[n].stage) <= Rank(rows[m].stage)
             /\ rows[n].stage = rows[m].stage /\ rows[n].stage # "VERDICT" => ~IsSettled(rows[n])

(* A stage has a row only when every earlier one is settled. *)
Passed ==
  \A n \in DOMAIN rows : \A k \in 1..4 :
    k < Rank(rows[n].stage) =>
      \E m \in DOMAIN rows : m < n /\ Rank(rows[m].stage) = k /\ IsSettled(rows[m])

(* What the status of a row vouches for. *)
Meaning(row) ==
  /\ row.stage \in StageNames
  /\ row.status = "INTERRUPTED" => row.stage = "SURFACE"
  /\ row.status = "SKIPPED" => /\ row.stage \in GateSkips
                               /\ row.stage # "SELFTEST_LONG" => condemned /\ audited
  /\ row.status = "DONE" =>
       /\ row.stage = "SMART_BEFORE" => "before" \in snapshots
       /\ row.stage \in {"SELFTEST_LONG", "SURFACE"} => row.metrics # None
       /\ row.stage = "SMART_AFTER" => "after" \in snapshots
  /\ row.stage = "SELFTEST_LONG" /\ row.status = "RUNNING" => capable # "declared"

Meant == \A n \in DOMAIN rows : Meaning(rows[n])

(* The first stage that is not settled, VERDICT if all are. *)
Frontier ==
  IF rows = <<>> THEN 1
  ELSE IF IsSettled(Last) /\ Last.stage # "VERDICT" THEN Rank(Last.stage) + 1
  ELSE Rank(Last.stage)

(* The last row is that of a self-test to be polled. *)
Polls == rows # <<>> /\ Last.stage = "SELFTEST_LONG" /\ Last.status = "RUNNING"

AtHead ==
  pc \in {"queued", "begin", "count", "head"} =>
    /\ i = Frontier
    /\ stageId = IF Polls THEN Len(rows) ELSE 0
    /\ Polls => ~skipStages

InStage == {"smart", "gate", "starting", "polling", "stopping", "recheck", "badblocks",
            "verdict", "verdictRun", "return", "failRow"}
Opened == InStage \ {"verdictRun", "return", "failRow"}

(* The stage at hand owns the last row. *)
AtHand ==
  /\ pc \in InStage => /\ rows # <<>> /\ stageId = Len(rows) /\ Last.stage = Stage
  /\ pc \in Opened => Last.status = "RUNNING"
  /\ pc = "smart" => i \in {1, 4}
  /\ pc = "gate" => i = 1
  /\ pc \in {"starting", "polling", "stopping"} => i = 2
  /\ pc \in {"recheck", "badblocks"} => i = 3
  /\ pc \in {"verdict", "verdictRun"} => i = 5
  /\ pc = "return" => i # 5
  /\ pc = "verdictRun" => Last.status = "DONE"

HasBefore == state.before /\ (state.supported <=> capable # "declared")
Graded == state.surface # None \/ (condemned /\ audited)

(* The RunState knows what the stages behind it found, *)
Known ==
  /\ pc \in InStage \cup {"queued", "begin", "count", "head"} =>
       /\ i > 1 => HasBefore
       /\ i > 2 => state.selfTest # None
       /\ i > 3 => Graded
       /\ i > 4 => state.after
  /\ pc \in {"gate", "return"} /\ i = 1 => HasBefore /\ "before" \in snapshots
  /\ pc = "stopping" => state.selfTest # None
  /\ pc = "return" /\ i = 2 => state.selfTest # None /\ Last.metrics # None
  /\ pc = "return" /\ i = 3 => state.surface # None /\ Last.metrics # None
  /\ pc = "return" /\ i = 4 => state.after /\ "after" \in snapshots

(* and what the gate decided, which a new process forgets. *)
Gated ==
  /\ skipStages => condemned /\ audited
  /\ pc \in {"down", "resumeQueued", "resolving"} => ~skipStages

Finished ==
  runStatus = "DONE" => /\ pc = "end"
                        /\ rows # <<>> /\ Last.stage = "VERDICT" /\ Last.status = "DONE"

Tested == testing => \E n \in DOMAIN rows : rows[n].stage = "SELFTEST_LONG"

VerdictGrounded == verdict # Ungraded /\ verdict.surface = None => audited /\ condemned

RowsInv == Ordered /\ Passed /\ Meant

Rest == AtHead /\ AtHand /\ Known /\ Gated /\ Finished /\ Tested /\ VerdictGrounded

HistInv == i \in 1..5 /\ Ordered /\ Passed /\ Meant /\ Rest

LEMMA StageFacts ==
  /\ DOMAIN Stages = 1..5 /\ Len(Stages) = 5
  /\ Stages[1] = "SMART_BEFORE" /\ Stages[2] = "SELFTEST_LONG" /\ Stages[3] = "SURFACE"
  /\ Stages[4] = "SMART_AFTER" /\ Stages[5] = "VERDICT"
  BY DEF Stages

LEMMA RankOfStage ==
  /\ \A k \in 1..5 : Stages[k] \in StageNames /\ Rank(Stages[k]) = k
  /\ \A stage \in StageNames : Rank(stage) \in 1..5 /\ Stages[Rank(stage)] = stage
<1>1. \A stage \in StageNames : Rank(stage) \in 1..5 /\ Stages[Rank(stage)] = stage
  BY StageFacts DEF Rank, StageNames
<1>2. ASSUME NEW k \in 1..5
      PROVE  Stages[k] \in StageNames /\ Rank(Stages[k]) = k
  <2>1. k = 1 \/ k = 2 \/ k = 3 \/ k = 4 \/ k = 5
    BY <1>2
  <2>2. QED
    BY <2>1, StageFacts DEF Rank, StageNames
<1>3. QED
  BY <1>1, <1>2

(* The rows are a sequence with a last one. *)
LEMMA RowsFacts ==
  ASSUME Typed
  PROVE  /\ Len(rows) \in Nat /\ DOMAIN rows = 1..Len(rows)
         /\ rows # <<>> <=> Len(rows) # 0
         /\ rows # <<>> => Len(rows) \in DOMAIN rows
         /\ \A n \in DOMAIN rows : rows[n] \in AnyRow
<1>1. rows \in Seq(AnyRow)
  BY DEF Typed
<1> HIDE DEF AnyRow
<1>2. QED
  BY <1>1

(* The newest row of a stage is the one no other comes after. *)
LEMMA LatestIs ==
  ASSUME Typed, NEW stage, NEW n \in RowsOf(stage), \A m \in RowsOf(stage) : m <= n
  PROVE  LatestId(stage) = n /\ LatestStatus(stage) = rows[n].status
<1>1. RowsOf(stage) \subseteq Nat
  BY RowsFacts DEF RowsOf
<1>2. \A k \in RowsOf(stage) : (\A m \in RowsOf(stage) : m <= k) => k = n
  BY <1>1
<1>3. LatestId(stage) = n
  BY <1>2 DEF LatestId
<1>4. QED
  BY <1>3 DEF LatestStatus

(* A stage behind the last row has one settled row, its newest. *)
LEMMA PassedStage ==
  ASSUME Typed, RowsInv, rows # <<>>, NEW k \in 1..4, k < Rank(Last.stage)
  PROVE  /\ RowsOf(Stages[k]) # {}
         /\ LatestId(Stages[k]) \in DOMAIN rows
         /\ rows[LatestId(Stages[k])].stage = Stages[k]
         /\ IsSettled(rows[LatestId(Stages[k])])
         /\ LatestStatus(Stages[k]) = rows[LatestId(Stages[k])].status
<1>1. Len(rows) \in DOMAIN rows
  BY RowsFacts
<1>2. PICK n \in DOMAIN rows : Rank(rows[n].stage) = k /\ IsSettled(rows[n])
  BY <1>1 DEF RowsInv, Passed, Last
<1>3. \A m \in DOMAIN rows : rows[m].stage \in StageNames
  BY DEF RowsInv, Meant, Meaning
<1>4. rows[n].stage = Stages[k] /\ Stages[k] # "VERDICT"
  BY <1>2, <1>3, RankOfStage, StageFacts
<1>5. \A m \in RowsOf(Stages[k]) : m <= n
  <2>1. ASSUME NEW m \in RowsOf(Stages[k]), n < m
        PROVE  FALSE
    BY <1>2, <1>4, <2>1 DEF RowsInv, Ordered, RowsOf
  <2>2. QED
    BY <2>1, RowsFacts DEF RowsOf
<1>6. n \in RowsOf(Stages[k])
  BY <1>4 DEF RowsOf
<1>7. LatestId(Stages[k]) = n /\ LatestStatus(Stages[k]) = rows[n].status
  BY <1>5, <1>6, LatestIs
<1>8. QED
  BY <1>2, <1>4, <1>6, <1>7

(* A stage that begins behind the last row has none. *)
LEMMA ComingStage ==
  ASSUME Typed, RowsInv, NEW k \in 1..5, rows = <<>> \/ Rank(Last.stage) < k
  PROVE  RowsOf(Stages[k]) = {}
<1> SUFFICES ASSUME NEW n \in DOMAIN rows, rows[n].stage = Stages[k] PROVE FALSE
  BY DEF RowsOf
<1>1. rows # <<>> /\ Len(rows) \in DOMAIN rows /\ Rank(Last.stage) < k
  BY RowsFacts
<1>2. Rank(rows[n].stage) = k
  BY RankOfStage
<1>3. n <= Len(rows) /\ n \in Nat /\ Len(rows) \in Nat
  BY RowsFacts
<1>4. Rank(Last.stage) \in 1..5
  BY <1>1, RankOfStage DEF RowsInv, Meant, Meaning, Last
<1>5. CASE n < Len(rows)
  BY <1>1, <1>2, <1>4, <1>5 DEF RowsInv, Ordered, Last
<1>6. CASE n = Len(rows)
  BY <1>1, <1>2, <1>4, <1>6 DEF Last
<1>7. QED
  BY <1>3, <1>5, <1>6

(* The stage of the last row has that row as its newest. *)
LEMMA LastStage ==
  ASSUME Typed, rows # <<>>
  PROVE  /\ RowsOf(Last.stage) # {}
         /\ LatestId(Last.stage) = Len(rows)
         /\ LatestStatus(Last.stage) = Last.status
<1>1. Len(rows) \in RowsOf(Last.stage)
  BY RowsFacts DEF RowsOf, Last
<1>2. \A m \in RowsOf(Last.stage) : m <= Len(rows)
  BY RowsFacts DEF RowsOf
<1>3. QED
  BY <1>1, <1>2, LatestIs DEF Last

LEMMA FrontierTyped ==
  ASSUME Typed, RowsInv
  PROVE  /\ Frontier \in 1..5
         /\ rows # <<>> => Last.stage \in StageNames /\ Rank(Last.stage) \in 1..5
<1>1. rows # <<>> => Last.stage \in StageNames
  BY RowsFacts DEF RowsInv, Meant, Meaning, Last
<1>2. rows # <<>> => Rank(Last.stage) \in 1..5 /\ (Rank(Last.stage) = 5 => Last.stage = "VERDICT")
  BY <1>1, RankOfStage, StageFacts
<1>3. QED
  BY <1>1, <1>2 DEF Frontier

(* The stages before the frontier are settled, and it is not, VERDICT apart. *)
LEMMA FrontierSplits ==
  ASSUME Typed, RowsInv
  PROVE  /\ \A k \in 1..5 : k < Frontier => Settled(Stages[k])
         /\ Frontier # 5 => ~Settled(Stages[Frontier])
<1>1. CASE rows = <<>>
  <2>1. Frontier = 1
    BY <1>1 DEF Frontier
  <2>2. RowsOf(Stages[1]) = {}
    BY <1>1, ComingStage
  <2>3. QED
    BY <2>1, <2>2 DEF Settled, LatestStatus, None
<1>2. CASE rows # <<>>
  <2> DEFINE r == Rank(Last.stage)
  <2>1. Last.stage \in StageNames /\ r \in 1..5 /\ Stages[r] = Last.stage
    BY <1>2, FrontierTyped, RankOfStage
  <2>2. \A k \in 1..4 : k < r => Settled(Stages[k])
    BY <1>2, PassedStage DEF Settled, IsSettled
  <2>3. Settled(Stages[r]) <=> IsSettled(Last)
    BY <1>2, <2>1, LastStage DEF Settled, IsSettled
  <2>4. CASE IsSettled(Last) /\ Last.stage # "VERDICT"
    <3>1. Frontier = r + 1 /\ r \in 1..4
      BY <1>2, <2>1, <2>4, StageFacts DEF Frontier
    <3>2. RowsOf(Stages[r + 1]) = {}
      BY <2>1, <3>1, ComingStage
    <3>3. ~Settled(Stages[r + 1])
      BY <3>2 DEF Settled, LatestStatus, None
    <3>4. \A k \in 1..5 : k < r + 1 => k = r \/ (k \in 1..4 /\ k < r)
      BY <3>1
    <3>5. Settled(Stages[r])
      BY <2>3, <2>4
    <3> HIDE DEF r
    <3>6. QED
      BY <2>2, <3>1, <3>3, <3>4, <3>5
  <2>5. CASE ~(IsSettled(Last) /\ Last.stage # "VERDICT")
    <3>1. Frontier = r
      BY <1>2, <2>5 DEF Frontier
    <3>2. r # 5 => Last.stage # "VERDICT"
      BY <2>1 DEF Rank
    <3>3. \A k \in 1..5 : k < r => k \in 1..4
      BY <2>1
    <3> HIDE DEF r
    <3>4. QED
      BY <2>2, <2>3, <2>5, <3>1, <3>2, <3>3
  <2>6. QED
    BY <2>4, <2>5
<1>3. QED
  BY <1>1, <1>2

(* A resume goes on at the frontier. *)
LEMMA ResumesAtFrontier ==
  ASSUME Typed, RowsInv
  PROVE  ResumeIndex = Frontier
<1> DEFINE unsettled == {n \in DOMAIN Stages : ~Settled(Stages[n])}
           f == Frontier
<1>1. f \in 1..5 /\ \A k \in 1..5 : k < f => Settled(Stages[k])
  BY FrontierTyped, FrontierSplits
<1>2. \A m \in unsettled : m \in 1..5 /\ f <= m
  BY <1>1, StageFacts
<1>3. f # 5 => f \in unsettled
  BY <1>1, FrontierSplits, StageFacts
<1>4. ResumeIndex = IF unsettled = {} THEN 5
                    ELSE CHOOSE n \in unsettled : \A m \in unsettled : n <= m
  BY StageFacts DEF ResumeIndex
<1> HIDE DEF unsettled, f
<1>5. CASE unsettled = {}
  BY <1>3, <1>4, <1>5 DEF f
<1>6. CASE unsettled # {}
  <2>1. f \in unsettled
    <3>1. PICK m \in unsettled : TRUE
      BY <1>6
    <3>2. f = 5 => m = 5
      BY <1>2, <3>1
    <3>3. QED
      BY <1>3, <3>2
  <2>2. \A n \in unsettled : (\A m \in unsettled : n <= m) => n = f
    BY <1>1, <1>2, <2>1
  <2>3. QED
    BY <1>2, <1>4, <1>6, <2>1, <2>2 DEF f
<1>7. QED
  BY <1>5, <1>6

Grew(st) == rows' = Append(rows, Row(st))

Changed(row) == rows # <<>> /\ rows' = [rows EXCEPT ![Len(rows)] = row]

LEMMA GrewEffect ==
  ASSUME Typed, NEW st \in {"SKIPPED", "RUNNING"}, Grew(st)
  PROVE  /\ rows' # <<>> /\ Len(rows') = Len(rows) + 1
         /\ DOMAIN rows' = 1..(Len(rows) + 1)
         /\ Last' = Row(st)
         /\ \A n \in DOMAIN rows : rows'[n] = rows[n]
<1>1. Row(st) \in AnyRow
  BY NewRowTyped
<1>2. rows \in Seq(AnyRow) /\ Len(rows) \in Nat
  BY DEF Typed
<1> HIDE DEF AnyRow
<1>3. /\ DOMAIN Append(rows, Row(st)) = 1..(Len(rows) + 1)
      /\ Append(rows, Row(st))[Len(rows) + 1] = Row(st)
      /\ \A n \in DOMAIN rows : Append(rows, Row(st))[n] = rows[n]
  BY <1>1, <1>2, AppendedRow
<1>4. Len(Append(rows, Row(st))) = Len(rows) + 1 /\ Append(rows, Row(st)) # <<>>
  BY <1>1, <1>2
<1>5. QED
  BY <1>3, <1>4 DEF Grew, Last

LEMMA ChangedEffect ==
  ASSUME Typed, NEW row \in AnyRow, Changed(row)
  PROVE  /\ rows' # <<>> /\ Len(rows') = Len(rows)
         /\ DOMAIN rows' = DOMAIN rows
         /\ Last' = row
         /\ \A n \in DOMAIN rows : n # Len(rows) => rows'[n] = rows[n]
<1>1. rows \in Seq(AnyRow) /\ Len(rows) \in DOMAIN rows /\ DOMAIN rows = 1..Len(rows) /\ Len(rows) \in Nat
  BY RowsFacts DEF Typed, Changed
<1> HIDE DEF AnyRow
<1>2. rows' \in Seq(AnyRow) /\ Len(rows') = Len(rows) /\ DOMAIN rows' = DOMAIN rows
  BY <1>1 DEF Changed
<1>3. rows'[Len(rows)] = row /\ \A n \in DOMAIN rows : n # Len(rows) => rows'[n] = rows[n]
  BY <1>1 DEF Changed
<1>4. QED
  BY <1>1, <1>2, <1>3 DEF Last

(* A row added for the stage at the frontier keeps the order, *)
LEMMA OrderGrows ==
  ASSUME Typed, RowsInv, NEW st \in {"SKIPPED", "RUNNING"}, Grew(st), i = Frontier
  PROVE  Ordered' /\ Passed'
<1> DEFINE L == Len(rows)
<1>1. /\ L \in Nat /\ DOMAIN rows = 1..L /\ DOMAIN rows' = 1..(L + 1)
      /\ \A n \in DOMAIN rows : rows'[n] = rows[n]
  BY GrewEffect, RowsFacts
<1>2. Frontier \in 1..5 /\ rows'[L + 1].stage = Stages[Frontier] /\ Rank(Stages[Frontier]) = Frontier
  BY GrewEffect, FrontierTyped, RankOfStage DEF Last, Row, Stage
<1>3. \A n \in DOMAIN rows : /\ rows[n].stage \in StageNames
                             /\ Rank(rows[n].stage) \in 1..5
                             /\ Stages[Rank(rows[n].stage)] = rows[n].stage
  BY RankOfStage DEF RowsInv, Meant, Meaning
<1>4. ASSUME NEW n \in DOMAIN rows
      PROVE  /\ Rank(rows[n].stage) <= Frontier
             /\ rows[n].stage = Stages[Frontier] /\ rows[n].stage # "VERDICT" => ~IsSettled(rows[n])
  <2>1. rows # <<>> /\ L \in DOMAIN rows /\ n <= L
    BY <1>1, <1>4, RowsFacts
  <2>2. Rank(Last.stage) <= Frontier /\ Rank(Last.stage) \in 1..5
    BY <1>3, <2>1 DEF Frontier, Last
  <2>3. CASE n = L
    <3>1. rows[n] = Last
      BY <2>3 DEF Last
    <3>2. IsSettled(Last) /\ Last.stage # "VERDICT" => Frontier = Rank(Last.stage) + 1
      BY <2>1 DEF Frontier
    <3>3. Last.stage = Stages[Frontier] => Rank(Last.stage) = Frontier
      BY <1>2
    <3>4. QED
      BY <2>2, <3>1, <3>2, <3>3
  <2>4. CASE n < L
    <3>1. /\ Rank(rows[n].stage) <= Rank(Last.stage)
          /\ rows[n].stage = Last.stage /\ rows[n].stage # "VERDICT" => ~IsSettled(rows[n])
      BY <2>1, <2>4 DEF RowsInv, Ordered, Last
    <3>2. rows[n].stage = Stages[Frontier] => rows[n].stage = Last.stage
      <4>1. SUFFICES ASSUME rows[n].stage = Stages[Frontier] PROVE rows[n].stage = Last.stage
        OBVIOUS
      <4>2. Rank(rows[n].stage) = Frontier
        BY <1>2, <4>1
      <4>3. Rank(Last.stage) = Frontier
        BY <1>2, <2>2, <3>1, <4>2
      <4>4. Last.stage = Stages[Frontier]
        BY <1>3, <2>1, <4>3 DEF Last
      <4>5. QED
        BY <4>1, <4>4
    <3>3. Rank(rows[n].stage) <= Frontier
      BY <1>2, <1>3, <2>2, <3>1
    <3>4. QED
      BY <3>1, <3>2, <3>3
  <2>5. QED
    BY <1>1, <2>1, <2>3, <2>4
<1>5. Ordered'
  <2> SUFFICES ASSUME NEW n \in 1..(L + 1), NEW m \in 1..(L + 1), n < m
               PROVE  /\ Rank(rows'[n].stage) <= Rank(rows'[m].stage)
                      /\ rows'[n].stage = rows'[m].stage /\ rows'[n].stage # "VERDICT"
                           => ~IsSettled(rows'[n])
    BY <1>1 DEF Ordered, Rank, IsSettled
  <2>1. n \in DOMAIN rows /\ rows'[n] = rows[n]
    BY <1>1
  <2>2. CASE m = L + 1
    BY <1>2, <1>4, <2>1, <2>2
  <2>3. CASE m \in DOMAIN rows
    BY <1>1, <2>1, <2>3 DEF RowsInv, Ordered
  <2>4. QED
    BY <1>1, <2>2, <2>3
<1>6. Passed'
  <2> SUFFICES ASSUME NEW n \in 1..(L + 1), NEW k \in 1..4, k < Rank(rows'[n].stage)
               PROVE  \E m \in 1..(L + 1) : m < n /\ Rank(rows'[m].stage) = k /\ IsSettled(rows'[m])
    BY <1>1 DEF Passed, Rank, IsSettled
  <2>1. CASE n \in DOMAIN rows
    <3>1. PICK m \in DOMAIN rows : m < n /\ Rank(rows[m].stage) = k /\ IsSettled(rows[m])
      BY <1>1, <2>1 DEF RowsInv, Passed
    <3>2. QED
      BY <1>1, <3>1
  <2>2. CASE n = L + 1
    <3>1. k < Frontier
      BY <1>2, <2>2
    <3>2. Settled(Stages[k])
      BY <3>1, FrontierSplits
    <3>3. RowsOf(Stages[k]) # {}
      BY <3>2 DEF Settled, LatestStatus, None
    <3>4. LatestId(Stages[k]) \in RowsOf(Stages[k])
      BY <3>3, LatestExists
    <3> DEFINE m == LatestId(Stages[k])
    <3>5. m \in DOMAIN rows /\ rows[m].stage = Stages[k] /\ IsSettled(rows[m])
      BY <3>2, <3>3, <3>4 DEF RowsOf, Settled, LatestStatus, IsSettled
    <3> HIDE DEF m
    <3>6. Rank(rows[m].stage) = k /\ m \in 1..(L + 1) /\ m < n /\ rows'[m] = rows[m]
      BY <1>1, <2>2, <3>5, RankOfStage
    <3>7. QED
      BY <3>5, <3>6
  <2>3. QED
    BY <1>1, <2>1, <2>2
<1>7. QED
  BY <1>5, <1>6

(* and so does anything that is written to the last row. *)
LEMMA OrderKept ==
  ASSUME Typed, RowsInv, NEW row \in AnyRow, Changed(row), row.stage = Last.stage
  PROVE  Ordered' /\ Passed'
<1>1. /\ DOMAIN rows' = DOMAIN rows /\ Len(rows) \in Nat /\ DOMAIN rows = 1..Len(rows)
      /\ \A n \in DOMAIN rows : n # Len(rows) => rows'[n] = rows[n]
      /\ \A n \in DOMAIN rows : rows'[n].stage = rows[n].stage
  BY ChangedEffect, RowsFacts DEF Last
<1>2. Ordered'
  <2> SUFFICES ASSUME NEW n \in DOMAIN rows, NEW m \in DOMAIN rows, n < m
               PROVE  /\ Rank(rows'[n].stage) <= Rank(rows'[m].stage)
                      /\ rows'[n].stage = rows'[m].stage /\ rows'[n].stage # "VERDICT"
                           => ~IsSettled(rows'[n])
    BY <1>1 DEF Ordered, Rank, IsSettled
  <2>1. rows'[n] = rows[n]
    BY <1>1
  <2>2. QED
    BY <1>1, <2>1 DEF RowsInv, Ordered
<1>3. Passed'
  <2> SUFFICES ASSUME NEW n \in DOMAIN rows, NEW k \in 1..4, k < Rank(rows'[n].stage)
               PROVE  \E m \in DOMAIN rows : m < n /\ Rank(rows'[m].stage) = k /\ IsSettled(rows'[m])
    BY <1>1 DEF Passed, Rank, IsSettled
  <2>1. PICK m \in DOMAIN rows : m < n /\ Rank(rows[m].stage) = k /\ IsSettled(rows[m])
    BY <1>1 DEF RowsInv, Passed
  <2>2. rows'[m] = rows[m]
    BY <1>1, <2>1
  <2>3. QED
    BY <2>1, <2>2
<1>4. QED
  BY <1>2, <1>3

(* What a step may not take back. *)
EvidenceKept ==
  UNCHANGED nature /\ snapshots \subseteq snapshots' /\ (audited => audited')

LEMMA EvidenceGrows ==
  ASSUME [Next]_vars
  PROVE  EvidenceKept
<1>1. CASE SmartRead
  BY <1>1 DEF SmartRead, Keep, EvidenceKept
<1>2. CASE Gate
  BY <1>2 DEF Gate, Keep, EvidenceKept
<1>3. CASE ~SmartRead /\ ~Gate
  <2>1. UNCHANGED <<nature, snapshots, audited>>
    BY <1>3
    DEF Next, Engine, Begin, SkipStage, AbortAtHead, StartStage, StartAnswered, PollEnds,
        PollAborted, StopAnswered, TestStageReturns, RecheckAllows, SurfaceEnds, VerdictRow,
        VerdictRun, StageReturns, FailRow, EndRun, Reconcile, ResumeBegins, ResumePlanned,
        CountRestart, TestStarts, TestEnds, StageThrows, ResumeRefused, AbortRun, Crash, Keep,
        database, vars
  <2>2. QED
    BY <2>1 DEF EvidenceKept
<1>4. QED
  BY <1>1, <1>2, <1>3

LEMMA MeantStep ==
  ASSUME Meant, EvidenceKept, Meaning(Last)' \/ rows' = rows,
         \A n \in DOMAIN rows' : rows'[n] = Last' \/ (n \in DOMAIN rows /\ rows'[n] = rows[n])
  PROVE  Meant'
<1> SUFFICES ASSUME NEW n \in DOMAIN rows'
             PROVE  Meaning(rows[n])'
  BY DEF Meant
<1>1. CASE n \in DOMAIN rows /\ rows'[n] = rows[n]
  <2>1. Meaning(rows[n])
    BY <1>1 DEF Meant
  <2>2. QED
    BY <1>1, <2>1 DEF Meaning, EvidenceKept, nature
<1>2. CASE Meaning(Last)' /\ rows'[n] = Last'
  BY <1>2 DEF Meaning
<1>3. QED
  BY <1>1, <1>2

LEMMA SameRows ==
  ASSUME Typed, RowsInv, EvidenceKept, rows' = rows
  PROVE  RowsInv' /\ Frontier' = Frontier /\ Last' = Last /\ Polls' = Polls
<1>1. Meant'
  BY MeantStep DEF RowsInv
<1>2. QED
  BY <1>1 DEF RowsInv, Ordered, Passed, Frontier, Last, Polls, Rank, IsSettled

LEMMA NewRow ==
  ASSUME Typed, RowsInv, EvidenceKept, NEW st \in {"SKIPPED", "RUNNING"}, Grew(st),
         i = Frontier, Meaning(Last)'
  PROVE  /\ RowsInv' /\ Last' = Row(st) /\ rows' # <<>> /\ Len(rows') = Len(rows) + 1
         /\ Frontier' = IF st = "SKIPPED" /\ Frontier # 5 THEN Frontier + 1 ELSE Frontier
         /\ Polls' <=> Stage = "SELFTEST_LONG" /\ st = "RUNNING"
<1>1. /\ rows' # <<>> /\ DOMAIN rows' = 1..(Len(rows) + 1) /\ Len(rows') = Len(rows) + 1
      /\ Last' = Row(st) /\ \A n \in DOMAIN rows : rows'[n] = rows[n]
  BY GrewEffect
<1>2. DOMAIN rows = 1..Len(rows) /\ Len(rows) \in Nat /\ rows'[Len(rows) + 1] = Last'
  BY <1>1, RowsFacts DEF Last
<1>3. Meant'
  BY <1>1, <1>2, MeantStep DEF RowsInv
<1>4. RowsInv'
  BY <1>3, OrderGrows DEF RowsInv
<1>5. Frontier \in 1..5 /\ Rank(Stages[Frontier]) = Frontier /\ (Stages[Frontier] = "VERDICT" <=> Frontier = 5)
  BY FrontierTyped, RankOfStage, StageFacts
<1>6. Last'.stage = Stages[Frontier] /\ Last'.status = st
  BY <1>1 DEF Row, Stage
<1>7. Frontier' = IF st = "SKIPPED" /\ Frontier # 5 THEN Frontier + 1 ELSE Frontier
  <2>1. Frontier' = IF IsSettled(Last)' /\ Last'.stage # "VERDICT" THEN Rank(Last'.stage) + 1
                    ELSE Rank(Last'.stage)
    BY <1>1 DEF Frontier, Rank
  <2>2. IsSettled(Last)' <=> st = "SKIPPED"
    BY <1>6 DEF IsSettled
  <2>3. QED
    BY <1>5, <1>6, <2>1, <2>2
<1>8. QED
  BY <1>1, <1>4, <1>6, <1>7 DEF Polls, Stage

LEMMA ChangedRow ==
  ASSUME Typed, RowsInv, EvidenceKept, NEW row \in AnyRow, Changed(row),
         row.stage = Last.stage, Meaning(Last)'
  PROVE  /\ RowsInv' /\ Last' = row /\ rows' # <<>> /\ Len(rows') = Len(rows)
         /\ Frontier' = IF IsSettled(row) /\ row.stage # "VERDICT" THEN Rank(row.stage) + 1
                        ELSE Rank(row.stage)
         /\ Polls' <=> row.stage = "SELFTEST_LONG" /\ row.status = "RUNNING"
         /\ DOMAIN rows' = DOMAIN rows /\ \A n \in DOMAIN rows : rows'[n].stage = rows[n].stage
<1>1. /\ rows' # <<>> /\ DOMAIN rows' = DOMAIN rows /\ Len(rows') = Len(rows)
      /\ Last' = row /\ \A n \in DOMAIN rows : n # Len(rows) => rows'[n] = rows[n]
  BY ChangedEffect
<1>2. \A n \in DOMAIN rows : rows'[n] = Last' \/ rows'[n] = rows[n]
  BY <1>1 DEF Last
<1>3. Meant'
  BY <1>1, <1>2, MeantStep DEF RowsInv
<1>4. RowsInv'
  BY <1>3, OrderKept DEF RowsInv
<1>5. \A n \in DOMAIN rows : rows'[n].stage = rows[n].stage
  BY <1>1 DEF Last
<1>6. QED
  BY <1>1, <1>4, <1>5 DEF Frontier, Polls, Rank, IsSettled

LEMMA InitHistInv == Init => HistInv
<1> SUFFICES ASSUME Init PROVE HistInv
  OBVIOUS
<1>1. rows = <<>> /\ DOMAIN rows = {}
  BY DEF Init
<1>2. Frontier = 1 /\ ~Polls
  BY <1>1 DEF Frontier, Polls
<1>3. QED
  BY <1>1, <1>2 DEF Init, HistInv, Ordered, Passed, Meant, Rest, AtHead, AtHand, InStage, Opened,
                    Known, Gated, Finished, Tested, VerdictGrounded

(* The steps that write no row. *)
Rowless ==
  \/ Begin \/ AbortAtHead \/ (StartStage /\ stageId # 0)
  \/ SmartRead \/ Gate \/ TestStarts \/ TestEnds
  \/ (StartAnswered /\ pc' = "polling") \/ PollAborted
  \/ (RecheckAllows /\ pc' = "badblocks")
  \/ (VerdictRow /\ ~Evidence) \/ VerdictRun \/ StageThrows \/ EndRun
  \/ AbortRun \/ Crash
  \/ Reconcile \/ ResumeBegins \/ ResumeRefused \/ CountRestart

LEMMA RowlessStep ==
  ASSUME RegInv, HistInv, Next, Rowless
  PROVE  HistInv'
<1>0. rows' = rows
  BY DEF Rowless, Begin, AbortAtHead, StartStage, SmartRead, Gate, TestStarts, TestEnds,
         StartAnswered, TestStageReturns, PollAborted, RecheckAllows, VerdictRow, VerdictRun,
         StageThrows, EndRun, AbortRun, Crash, Reconcile, ResumeBegins, ResumeRefused,
         CountRestart, database
<1>1. Typed /\ RowsInv /\ EvidenceKept /\ i \in 1..5
  BY EvidenceGrows DEF RegInv, HistInv, RowsInv
<1>2. RowsInv' /\ Frontier' = Frontier /\ Last' = Last /\ Polls' = Polls
  BY <1>0, <1>1, SameRows
<1> SUFFICES i' \in 1..5 /\ Rest'
  BY <1>2 DEF RowsInv, HistInv
<1> USE <1>0, <1>1, <1>2, StageFacts
    DEF HistInv, Rest, AtHead, AtHand, InStage, Opened, Stage, Known, HasBefore, Graded,
        Gated, Finished, Tested, VerdictGrounded, Keep, database, memory, firmware, nature,
        EvidenceKept, Typed, Awaits
<1>3. CASE Begin \/ AbortAtHead
  BY <1>3 DEF Begin, AbortAtHead
<1>4. CASE StartStage /\ stageId # 0
  <2>1. Polls /\ i = 2 /\ Last.stage = "SELFTEST_LONG" /\ stageId = Len(rows)
        /\ Last.status = "RUNNING" /\ rows # <<>>
    BY <1>4 DEF StartStage, Polls, Frontier, IsSettled, Rank
  <2>2. pc' = "polling" /\ UNCHANGED <<runStatus, restartCount, snapshots, audited, verdict,
                         i, state, skipStages, aborted, nature, firmware, stageId>>
    BY <1>4 DEF StartStage
  <2>3. pc' \notin {"queued", "begin", "count", "head", "smart", "gate", "starting", "stopping",
                    "recheck", "badblocks", "verdict", "verdictRun", "return"}
        /\ rows' # <<>> /\ stageId' = Len(rows') /\ Last'.stage = Stages[i'] /\ i' = 2
        /\ Last'.status = "RUNNING"
    BY <2>1, <2>2
  <2>4. AtHead' /\ AtHand'
    BY <2>3
  <2>5. pc = "head" /\ pc' = "polling" /\ UNCHANGED <<snapshots, audited, i, state, nature>>
    BY <2>2, <1>4 DEF StartStage
  <2>6. Known'
    BY <2>1, <2>5
  <2>7. QED
    BY <2>2, <2>4, <2>6
<1>5. CASE SmartRead
  <2>1. i \in {1, 4} /\ rows # <<>> /\ stageId = Len(rows) /\ Last.stage = Stage
    BY <1>5 DEF SmartRead
  <2>2. CASE i = 1
    <3>1. /\ pc = "smart" /\ pc' = "gate" /\ snapshots' = snapshots \cup {"before"}
          /\ UNCHANGED <<runStatus, audited, verdict, i, stageId, skipStages, testing>>
      BY <1>5, <2>1, <2>2 DEF SmartRead
    <3>2. state' = [state EXCEPT !.before = TRUE, !.supported = capable # "declared"]
      BY <1>5, <2>1, <2>2 DEF SmartRead
    <3>3. state'.before /\ (state'.supported <=> capable # "declared")
      BY <3>2
    <3>4. AtHead' /\ AtHand'
      BY <2>1, <2>2, <3>1
    <3>5. Known'
      BY <2>2, <3>1, <3>3
    <3>6. QED
      BY <2>2, <3>1, <3>4, <3>5
  <2>3. CASE i = 4
    BY <1>5, <2>1, <2>3 DEF SmartRead
  <2>4. QED
    BY <2>1, <2>2, <2>3
<1>6. CASE Gate
  BY <1>6 DEF Gate
<1>7. CASE StartAnswered /\ pc' = "polling"
  BY <1>7 DEF StartAnswered, TestStageReturns
<1>8. CASE PollAborted
  <2>1. pc = "polling" /\ pc' = "stopping" /\ (testing' => testing)
        /\ UNCHANGED <<database, i, stageId, skipStages, aborted, nature, deaths>>
    BY <1>8 DEF PollAborted
  <2>2. PICK result \in {"UNKNOWN", IF testing \/ log = None THEN "UNKNOWN" ELSE log} :
          state' = [state EXCEPT !.selfTest = result]
    BY <1>8 DEF PollAborted
  <2>3. result # None
    BY <2>2 DEF None
  <2>4. /\ state'.selfTest # None
        /\ state'.before = state.before /\ state'.supported = state.supported
        /\ state'.surface = state.surface /\ state'.after = state.after
    BY <2>2, <2>3
  <2>5. AtHead' /\ AtHand'
    BY <2>1
  <2>6. Known'
    BY <2>1, <2>4
  <2>7. Tested' /\ Gated' /\ Finished' /\ VerdictGrounded'
    BY <2>1
  <2>8. QED
    BY <2>1, <2>5, <2>6, <2>7
<1>9. CASE RecheckAllows /\ pc' = "badblocks"
  BY <1>9 DEF RecheckAllows
<1>10. CASE VerdictRow /\ ~Evidence
  BY <1>10 DEF VerdictRow
<1>11. CASE VerdictRun
  BY <1>11 DEF VerdictRun
<1>12. CASE EndRun \/ StageThrows
  BY <1>12 DEF EndRun, StageThrows
<1>13. CASE Reconcile \/ ResumeBegins \/ ResumeRefused
  BY <1>13 DEF Reconcile, ResumeBegins, ResumeRefused
<1>14. CASE CountRestart
  BY <1>14 DEF CountRestart
<1>15. CASE TestStarts
  <2>1. rows[Len(rows)].stage = "SELFTEST_LONG" /\ Len(rows) \in DOMAIN rows
    BY <1>15, RowsFacts DEF TestStarts, Last
  <2>2. QED
    BY <1>15, <2>1 DEF TestStarts
<1>16. CASE TestEnds
  BY <1>16 DEF TestEnds
<1>17. CASE AbortRun \/ Crash
  BY <1>17 DEF AbortRun, Crash
<1>18. QED
  BY <1>3, <1>4, <1>5, <1>6, <1>7, <1>8, <1>9, <1>10, <1>11, <1>12, <1>13, <1>14, <1>15,
     <1>16, <1>17 DEF Rowless

(* What is written to the row of the stage at hand. *)
LEMMA StatusWritten ==
  ASSUME Typed, rows # <<>>, stageId = Len(rows), NEW st \in RowStatuses, SetRow(st)
  PROVE  \E row \in AnyRow : /\ Changed(row)
                             /\ row.stage = Last.stage /\ row.status = st
                             /\ row.metrics = Last.metrics
<1> DEFINE row == [Last EXCEPT !.status = st]
<1>1. Last \in AnyRow
  BY RowsFacts DEF Last
<1>2. row \in AnyRow /\ row.stage = Last.stage /\ row.status = st /\ row.metrics = Last.metrics
  BY <1>1 DEF AnyRow
<1>3. rows' = [rows EXCEPT ![Len(rows)] = row]
  BY DEF SetRow, Last
<1>4. QED
  BY <1>2, <1>3 DEF Changed

LEMMA MetricsWritten ==
  ASSUME Typed, rows # <<>>, stageId = Len(rows), NEW m \in Metrics,
         rows' = [rows EXCEPT ![stageId].metrics = m]
  PROVE  \E row \in AnyRow : /\ Changed(row)
                             /\ row.stage = Last.stage /\ row.status = Last.status
                             /\ row.metrics = m
<1> DEFINE row == [Last EXCEPT !.metrics = m]
<1>1. Last \in AnyRow
  BY RowsFacts DEF Last
<1>2. row \in AnyRow /\ row.stage = Last.stage /\ row.status = Last.status /\ row.metrics = m
  BY <1>1 DEF AnyRow
<1>3. rows' = [rows EXCEPT ![Len(rows)] = row]
  BY DEF Last
<1>4. QED
  BY <1>2, <1>3 DEF Changed

LEMMA SurfaceWritten ==
  ASSUME Typed, rows # <<>>, stageId = Len(rows), NEW surface \in {"complete", "partial"},
         SurfaceRow(surface)
  PROVE  \E row \in AnyRow : /\ Changed(row)
                             /\ row.stage = Last.stage /\ row.status \in {"DONE", "ABORTED"}
                             /\ row.metrics = surface
<1> DEFINE st == IF surface = "complete" THEN "DONE" ELSE "ABORTED"
           row == [[Last EXCEPT !.status = st] EXCEPT !.metrics = surface]
<1>1. Last \in AnyRow
  BY RowsFacts DEF Last
<1>2. st \in RowStatuses /\ surface \in Metrics
  BY DEF RowStatuses, Metrics, SurfaceResults
<1>3. row \in AnyRow /\ row.stage = Last.stage /\ row.status = st /\ row.metrics = surface
  BY <1>1, <1>2 DEF AnyRow
<1>4. Len(rows) \in DOMAIN rows /\ Last = rows[Len(rows)]
  BY RowsFacts DEF Last
<1>5. rows' = [rows EXCEPT ![Len(rows)].status = st, ![Len(rows)].metrics = surface]
  BY DEF SurfaceRow
<1>6. rows' = [rows EXCEPT ![Len(rows)] = row]
  BY <1>4, <1>5
<1>7. QED
  BY <1>3, <1>6 DEF Changed

(* A stage that is skipped gets one row, and the run goes on behind it. *)
LEMMA SkipStep ==
  ASSUME RegInv, HistInv, SkipStage
  PROVE  HistInv'
<1>1. Typed /\ RowsInv /\ EvidenceKept /\ i \in 1..5
  BY EvidenceGrows DEF RegInv, HistInv, RowsInv, Next, Engine
<1>2. pc = "head" /\ i = Frontier /\ stageId = IF Polls THEN Len(rows) ELSE 0
  BY DEF SkipStage, HistInv, Rest, AtHead
<1>3. i \in {2, 3, 4} /\ Stage \in GateSkips
  BY <1>1, StageFacts DEF SkipStage, Skipped, Preflight, GateSkips, Stage
<1>4. /\ HasBefore
      /\ i > 2 => state.selfTest # None
      /\ i > 3 => Graded
      /\ skipStages => condemned /\ audited
  BY <1>2, <1>3 DEF HistInv, Rest, Known, Gated
<1>5. ~Polls
  <2> SUFFICES ASSUME Polls PROVE FALSE
    OBVIOUS
  <2>1. Len(rows) \in DOMAIN rows /\ Meaning(Last)
    BY <1>1, RowsFacts DEF Polls, RowsInv, Meant, Last
  <2>2. capable # "declared" /\ ~skipStages
    BY <1>2, <2>1 DEF Polls, Meaning, HistInv, Rest, AtHead
  <2>3. QED
    BY <1>4, <2>2 DEF SkipStage, Skipped, Preflight, HasBefore
<1>6. /\ Grew("SKIPPED") /\ i' = i + 1 /\ pc' = "head" /\ stageId' = 0
      /\ UNCHANGED <<runStatus, snapshots, audited, verdict, skipStages, capable, condemned, testing>>
  BY <1>2, <1>5 DEF SkipStage, Grew, Keep, nature, firmware
<1>7. Last' = Row("SKIPPED")
  BY <1>1, <1>6, GrewEffect
<1>8. Stage # "SELFTEST_LONG" => skipStages
  BY DEF SkipStage, Skipped, Preflight
<1>9. Meaning(Last)'
  BY <1>3, <1>4, <1>6, <1>7, <1>8 DEF Meaning, Row, GateSkips, StageNames
<1>10. /\ RowsInv' /\ rows' # <<>> /\ Frontier' = i'
       /\ ~Polls'
  BY <1>1, <1>2, <1>3, <1>6, <1>9, NewRow
<1>11. /\ state'.before = state.before /\ state'.supported = state.supported
       /\ state'.surface = state.surface
       /\ i = 2 => state'.selfTest # None
       /\ i > 2 => state'.selfTest = state.selfTest
       /\ i = 4 => (state'.after <=> state.before)
  BY <1>3, StageFacts DEF SkipStage, Preflight, Stage, Typed, RegInv, None
<1>12. AtHead' /\ AtHand'
  BY <1>6, <1>10 DEF AtHead, AtHand, InStage, Opened
<1>13. Known'
  <2>1. HasBefore'
    BY <1>4, <1>6, <1>11 DEF HasBefore
  <2>2. state'.selfTest # None
    BY <1>3, <1>4, <1>11
  <2>3. i' > 3 => Graded'
    BY <1>3, <1>4, <1>6, <1>8, <1>11, StageFacts DEF Graded, Stage
  <2>4. i' > 4 => state'.after
    BY <1>3, <1>4, <1>6, <1>11 DEF HasBefore
  <2>5. QED
    BY <1>6, <2>1, <2>2, <2>3, <2>4 DEF Known
<1>14. Gated' /\ Finished' /\ VerdictGrounded'
  BY <1>2, <1>6 DEF HistInv, Rest, Gated, Finished, VerdictGrounded
<1>15. Tested'
  BY <1>1, <1>6, GrewEffect, RowsFacts DEF HistInv, Rest, Tested
<1>16. QED
  BY <1>3, <1>6, <1>10, <1>12, <1>13, <1>14, <1>15 DEF HistInv, RowsInv, Rest

(* A stage that starts has a RUNNING row behind all others. *)
LEMMA StartStep ==
  ASSUME RegInv, HistInv, StartStage, stageId = 0
  PROVE  HistInv'
<1>1. Typed /\ RowsInv /\ EvidenceKept /\ i \in 1..5
  BY EvidenceGrows DEF RegInv, HistInv, RowsInv, Next, Engine
<1>2. pc = "head" /\ i = Frontier /\ ~Skipped
  BY DEF StartStage, HistInv, Rest, AtHead
<1>3. /\ Grew("RUNNING") /\ stageId' = Len(rows) + 1
      /\ UNCHANGED <<runStatus, snapshots, audited, verdict, i, state, skipStages, capable,
                     condemned, testing>>
      /\ pc' = CASE Stage \in {"SMART_BEFORE", "SMART_AFTER"} -> "smart"
                 [] Stage = "SELFTEST_LONG" -> "starting"
                 [] Stage = "SURFACE" -> "recheck"
                 [] OTHER -> "verdict"
  BY DEF StartStage, Grew, Keep, nature, firmware
<1>4. Last' = Row("RUNNING")
  BY <1>1, <1>3, GrewEffect
<1>5. Stage \in StageNames /\ (Stage = "SELFTEST_LONG" => capable # "declared")
  <2>1. Stage \in StageNames /\ (Stage = "SELFTEST_LONG" => i = 2)
    BY <1>1, RankOfStage DEF Stage, Rank
  <2>2. i = 2 => HasBefore
    BY <1>2 DEF HistInv, Rest, Known
  <2>3. QED
    BY <1>2, <2>1, <2>2 DEF Skipped, Preflight, HasBefore
<1>6. Meaning(Last)'
  BY <1>3, <1>4, <1>5 DEF Meaning, Row
<1>7. RowsInv' /\ rows' # <<>> /\ Len(rows') = Len(rows) + 1
  BY <1>1, <1>2, <1>3, <1>6, NewRow
<1>8. AtHead' /\ AtHand'
  <2>1. Last'.stage = Stages[i'] /\ Last'.status = "RUNNING" /\ stageId' = Len(rows')
    BY <1>3, <1>4, <1>7 DEF Row, Stage
  <2>2. /\ i = 1 \/ i = 4 <=> pc' = "smart"
        /\ i = 2 <=> pc' = "starting"
        /\ i = 3 <=> pc' = "recheck"
        /\ i = 5 <=> pc' = "verdict"
        /\ pc' \in {"smart", "starting", "recheck", "verdict"}
    BY <1>1, <1>3, StageFacts DEF Stage
  <2>3. QED
    BY <1>3, <1>7, <2>1, <2>2 DEF AtHead, AtHand, InStage, Opened, Stage
<1>9. pc' \in {"smart", "starting", "recheck", "verdict"}
  BY <1>3
<1>10. Known'
  BY <1>2, <1>3, <1>9 DEF HistInv, Rest, Known, HasBefore, Graded
<1>11. Gated' /\ Finished' /\ VerdictGrounded'
  BY <1>2, <1>3, <1>9 DEF HistInv, Rest, Gated, Finished, VerdictGrounded
<1>12. Tested'
  BY <1>1, <1>3, GrewEffect, RowsFacts DEF HistInv, Rest, Tested
<1>13. QED
  BY <1>1, <1>3, <1>7, <1>8, <1>10, <1>11, <1>12 DEF HistInv, RowsInv, Rest

(* #runSelfTestStage returned: its result is in the row and in the memory. *)
LEMMA TestReturnsStep ==
  ASSUME RegInv, HistInv, Next,
         NEW m \in Metrics, m # None, TestStageReturns(m),
         pc \in {"starting", "polling", "stopping"}, UNCHANGED <<nature, testing>>
  PROVE  HistInv'
<1>1. Typed /\ RowsInv /\ EvidenceKept /\ i \in 1..5
  BY EvidenceGrows DEF RegInv, HistInv, RowsInv, Next, Engine
<1>2. rows # <<>> /\ stageId = Len(rows) /\ Last.stage = Stage /\ Last.status = "RUNNING" /\ i = 2
  BY DEF HistInv, Rest, AtHand, InStage, Opened
<1>3. /\ pc' = "return" /\ state' = [state EXCEPT !.selfTest = m]
      /\ UNCHANGED <<runStatus, snapshots, audited, verdict, i, stageId, skipStages, capable,
                     condemned, testing>>
  BY DEF TestStageReturns, nature
<1>4. PICK row \in AnyRow : /\ Changed(row)
                            /\ row.stage = Last.stage /\ row.status = Last.status
                            /\ row.metrics = m
  BY <1>1, <1>2, MetricsWritten DEF TestStageReturns
<1>5. Last' = row
  BY <1>1, <1>4, ChangedEffect
<1>6. Stage = "SELFTEST_LONG" /\ Meaning(Last)
  BY <1>1, <1>2, StageFacts, RowsFacts DEF Stage, RowsInv, Meant, Last
<1>7. Meaning(Last)'
  BY <1>2, <1>3, <1>4, <1>5, <1>6 DEF Meaning
<1>8. /\ RowsInv' /\ rows' # <<>> /\ Len(rows') = Len(rows)
      /\ DOMAIN rows' = DOMAIN rows /\ \A n \in DOMAIN rows : rows'[n].stage = rows[n].stage
  BY <1>1, <1>4, <1>7, ChangedRow
<1>9. AtHead' /\ AtHand'
  BY <1>2, <1>3, <1>4, <1>5, <1>8 DEF AtHead, AtHand, InStage, Opened, Stage
<1>10. /\ state'.selfTest # None
       /\ state'.before = state.before /\ state'.supported = state.supported
  BY <1>3 DEF RegInv, Typed
<1>11. HasBefore
  BY <1>2 DEF HistInv, Rest, Known, InStage
<1>12. Known'
  BY <1>2, <1>3, <1>4, <1>5, <1>10, <1>11 DEF Known, HasBefore
<1>13. Gated' /\ Finished' /\ VerdictGrounded' /\ Tested'
  BY <1>3, <1>8 DEF HistInv, Rest, Gated, Finished, VerdictGrounded, Tested
<1>14. QED
  BY <1>1, <1>3, <1>8, <1>9, <1>12, <1>13 DEF HistInv, RowsInv, Rest

(* The surface row is written: the scan was cut short or completed. *)
LEMMA SurfaceStep ==
  ASSUME RegInv, HistInv, Next,
         NEW surface \in {"complete", "partial"}, SurfaceRow(surface),
         pc \in {"recheck", "badblocks"}, pc' \in {"return", "failRow"},
         pc' = "return" => state' = [state EXCEPT !.surface = surface],
         pc' = "failRow" => state' = state,
         UNCHANGED <<runStatus, snapshots, audited, verdict, i, stageId, skipStages, nature, testing>>
  PROVE  HistInv'
<1>1. Typed /\ RowsInv /\ EvidenceKept /\ i \in 1..5
  BY EvidenceGrows DEF RegInv, HistInv, RowsInv, Next, Engine
<1>2. rows # <<>> /\ stageId = Len(rows) /\ Last.stage = Stage /\ i = 3
  BY DEF HistInv, Rest, AtHand, InStage, Opened
<1>3. PICK row \in AnyRow : /\ Changed(row)
                            /\ row.stage = Last.stage /\ row.status \in {"DONE", "ABORTED"}
                            /\ row.metrics = surface
  BY <1>1, <1>2, SurfaceWritten
<1>4. Last' = row /\ surface # None
  BY <1>1, <1>3, ChangedEffect DEF None
<1>5. Stage = "SURFACE"
  BY <1>2, StageFacts DEF Stage
<1>6. Meaning(Last)'
  BY <1>2, <1>3, <1>4, <1>5 DEF Meaning, StageNames
<1>7. /\ RowsInv' /\ rows' # <<>> /\ Len(rows') = Len(rows)
      /\ DOMAIN rows' = DOMAIN rows /\ \A n \in DOMAIN rows : rows'[n].stage = rows[n].stage
  BY <1>1, <1>3, <1>6, ChangedRow
<1>8. AtHead' /\ AtHand'
  BY <1>2, <1>3, <1>4, <1>7 DEF AtHead, AtHand, InStage, Opened, Stage
<1>9. /\ pc' = "return" => state'.surface # None
      /\ state'.before = state.before /\ state'.supported = state.supported
      /\ state'.selfTest = state.selfTest
  BY <1>4 DEF RegInv, Typed
<1>10. HasBefore /\ state.selfTest # None
  BY <1>2 DEF HistInv, Rest, Known, InStage
<1>11. Known'
  BY <1>2, <1>3, <1>4, <1>9, <1>10 DEF Known, HasBefore, nature
<1>12. Gated' /\ Finished' /\ VerdictGrounded' /\ Tested'
  BY <1>7 DEF HistInv, Rest, Gated, Finished, VerdictGrounded, Tested, nature
<1>13. QED
  BY <1>1, <1>7, <1>8, <1>11, <1>12 DEF HistInv, RowsInv, Rest

(* The verdict's row is DONE a write before the run is. *)
LEMMA VerdictRowStep ==
  ASSUME RegInv, HistInv, VerdictRow, Evidence
  PROVE  HistInv'
<1>1. Typed /\ RowsInv /\ EvidenceKept /\ i \in 1..5
  BY EvidenceGrows DEF RegInv, HistInv, RowsInv, Next, Engine
<1>2. rows # <<>> /\ stageId = Len(rows) /\ Last.stage = Stage /\ i = 5 /\ pc = "verdict"
  BY DEF HistInv, Rest, AtHand, InStage, Opened, VerdictRow
<1>3. /\ pc' = "verdictRun" /\ SetRow("DONE")
      /\ UNCHANGED <<runStatus, snapshots, audited, verdict, i, stageId, state, skipStages, capable,
                     condemned, testing>>
  BY DEF VerdictRow, Keep, memory, nature, firmware
<1>4. PICK row \in AnyRow : /\ Changed(row) /\ row.stage = Last.stage /\ row.status = "DONE"
  BY <1>1, <1>2, <1>3, StatusWritten DEF RowStatuses
<1>5. Last' = row
  BY <1>1, <1>4, ChangedEffect
<1>6. Stage = "VERDICT"
  BY <1>2, StageFacts DEF Stage
<1>7. Meaning(Last)'
  BY <1>2, <1>4, <1>5, <1>6 DEF Meaning, StageNames
<1>8. /\ RowsInv' /\ rows' # <<>> /\ Len(rows') = Len(rows)
      /\ DOMAIN rows' = DOMAIN rows /\ \A n \in DOMAIN rows : rows'[n].stage = rows[n].stage
  BY <1>1, <1>4, <1>7, ChangedRow
<1>9. AtHead' /\ AtHand'
  BY <1>2, <1>3, <1>4, <1>5, <1>8 DEF AtHead, AtHand, InStage, Opened, Stage
<1>10. Known'
  BY <1>2, <1>3 DEF HistInv, Rest, Known, InStage, HasBefore, Graded
<1>11. Gated' /\ Finished' /\ VerdictGrounded' /\ Tested'
  BY <1>2, <1>3, <1>8 DEF HistInv, Rest, Gated, Finished, VerdictGrounded, Tested
<1>12. QED
  BY <1>1, <1>3, <1>8, <1>9, <1>10, <1>11 DEF HistInv, RowsInv, Rest

(* A stage that returned settles its row, and the frontier moves with the    *)
(* loop index; unless the run is aborted.                                    *)
LEMMA ReturnStep ==
  ASSUME RegInv, HistInv, StageReturns
  PROVE  HistInv'
<1>1. Typed /\ RowsInv /\ EvidenceKept /\ i \in 1..5
  BY EvidenceGrows DEF RegInv, HistInv, RowsInv, Next, Engine
<1>2. rows # <<>> /\ stageId = Len(rows) /\ Last.stage = Stage /\ i # 5 /\ pc = "return"
  BY DEF HistInv, Rest, AtHand, InStage, Opened, StageReturns
<1>3. UNCHANGED <<runStatus, snapshots, audited, verdict, state, skipStages, capable, condemned,
                  testing>>
  BY DEF StageReturns, Keep, nature, firmware
<1>4. /\ HasBefore
      /\ i = 1 => "before" \in snapshots
      /\ i > 1 => state.selfTest # None
      /\ i = 2 => Last.metrics # None
      /\ i > 2 => Graded
      /\ i = 3 => Last.metrics # None
      /\ i = 4 => state.after /\ "after" \in snapshots
  <2>1. i = 1 \/ i = 2 \/ i = 3 \/ i = 4
    BY <1>1, <1>2
  <2>2. QED
    BY <1>2, <2>1 DEF HistInv, Rest, Known, InStage, Graded
<1>5. i \in 1..4 /\ Rank(Stage) = i /\ Stage \in StageNames /\ Stage # "VERDICT"
  BY <1>1, <1>2, RankOfStage, StageFacts DEF Stage
<1>6. CASE aborted
  <2>1. SetRow("ABORTED") /\ pc' = "abortRun" /\ UNCHANGED <<i, stageId>>
    BY <1>6 DEF StageReturns
  <2>2. PICK row \in AnyRow : /\ Changed(row) /\ row.stage = Last.stage /\ row.status = "ABORTED"
    BY <1>1, <1>2, <2>1, StatusWritten DEF RowStatuses
  <2>3. Last' = row
    BY <1>1, <2>2, ChangedEffect
  <2>4. Meaning(Last)'
    BY <1>2, <1>5, <2>2, <2>3 DEF Meaning
  <2>5. /\ RowsInv' /\ DOMAIN rows' = DOMAIN rows
        /\ \A n \in DOMAIN rows : rows'[n].stage = rows[n].stage
    BY <1>1, <2>2, <2>4, ChangedRow
  <2>6. Rest'
    BY <1>2, <1>3, <2>1, <2>5
    DEF HistInv, Rest, AtHead, AtHand, InStage, Opened, Known, Gated, Finished, VerdictGrounded,
        Tested
  <2>7. QED
    BY <1>1, <2>1, <2>5, <2>6 DEF HistInv, RowsInv
<1>7. CASE ~aborted
  <2> DEFINE st == IF Stage = "SELFTEST_LONG" /\ state.selfTest = "UNSUPPORTED"
                   THEN "SKIPPED" ELSE "DONE"
  <2>1. SetRow(st) /\ pc' = "head" /\ i' = i + 1 /\ stageId' = 0
    BY <1>7 DEF StageReturns, NextStage
  <2>2. PICK row \in AnyRow : /\ Changed(row) /\ row.stage = Last.stage /\ row.status = st
                              /\ row.metrics = Last.metrics
    BY <1>1, <1>2, <2>1, StatusWritten DEF RowStatuses
  <2>3. Last' = row
    BY <1>1, <2>2, ChangedEffect
  <2>4. /\ Stage = "SMART_BEFORE" => i = 1
        /\ Stage = "SELFTEST_LONG" => i = 2
        /\ Stage = "SURFACE" => i = 3
        /\ Stage = "SMART_AFTER" => i = 4
    BY <1>5 DEF Rank
  <2>5. Meaning(Last)'
    BY <1>2, <1>3, <1>4, <1>5, <2>2, <2>3, <2>4 DEF Meaning, GateSkips
  <2>6. /\ RowsInv' /\ rows' # <<>> /\ Frontier' = Rank(row.stage) + 1 /\ ~Polls'
        /\ DOMAIN rows' = DOMAIN rows /\ \A n \in DOMAIN rows : rows'[n].stage = rows[n].stage
    <3>1. IsSettled(row) /\ row.stage # "VERDICT" /\ row.status # "RUNNING"
      BY <1>2, <1>5, <2>2 DEF IsSettled
    <3>2. QED
      BY <1>1, <2>2, <2>5, <3>1, ChangedRow
  <2>7. i' = Frontier'
    BY <1>2, <1>5, <2>1, <2>2, <2>6
  <2>8. AtHead' /\ AtHand'
    BY <2>1, <2>6, <2>7 DEF AtHead, AtHand, InStage, Opened
  <2>9. HasBefore' /\ (Graded => Graded')
    BY <1>3, <1>4 DEF HasBefore, Graded
  <2>10. Known'
    BY <1>3, <1>4, <1>5, <2>1, <2>9 DEF Known
  <2>11. Gated' /\ Finished' /\ VerdictGrounded' /\ Tested'
    BY <1>2, <1>3, <2>1, <2>6 DEF HistInv, Rest, Gated, Finished, VerdictGrounded, Tested
  <2>12. QED
    BY <1>5, <2>1, <2>6, <2>8, <2>10, <2>11 DEF HistInv, RowsInv, Rest
<1>8. QED
  BY <1>6, <1>7

LEMMA FailRowStep ==
  ASSUME RegInv, HistInv, FailRow
  PROVE  HistInv'
<1>1. Typed /\ RowsInv /\ EvidenceKept /\ i \in 1..5
  BY EvidenceGrows DEF RegInv, HistInv, RowsInv, Next, Engine
<1>2. rows # <<>> /\ stageId = Len(rows) /\ Last.stage = Stage /\ pc = "failRow"
  BY DEF HistInv, Rest, AtHand, InStage, Opened, FailRow
<1>3. /\ SetRow("FAILED") /\ pc' = "failRun"
      /\ UNCHANGED <<runStatus, snapshots, audited, verdict, i, stageId, state, skipStages, capable,
                     condemned, testing>>
  BY DEF FailRow, Keep, memory, nature, firmware
<1>4. PICK row \in AnyRow : /\ Changed(row) /\ row.stage = Last.stage /\ row.status = "FAILED"
  BY <1>1, <1>2, <1>3, StatusWritten DEF RowStatuses
<1>5. Last' = row
  BY <1>1, <1>4, ChangedEffect
<1>6. Stage \in StageNames
  BY <1>1, RankOfStage DEF Stage
<1>7. Meaning(Last)'
  BY <1>2, <1>4, <1>5, <1>6 DEF Meaning
<1>8. /\ RowsInv' /\ DOMAIN rows' = DOMAIN rows
      /\ \A n \in DOMAIN rows : rows'[n].stage = rows[n].stage
  BY <1>1, <1>4, <1>7, ChangedRow
<1>9. Rest'
  BY <1>2, <1>3, <1>8
  DEF HistInv, Rest, AtHead, AtHand, InStage, Opened, Known, Gated, Finished, VerdictGrounded,
      Tested
<1>10. QED
  BY <1>1, <1>3, <1>8, <1>9 DEF HistInv, RowsInv

(* What a settled stage left behind. *)
LEMMA SettledStage ==
  ASSUME Typed, RowsInv, NEW stage, Settled(stage)
  PROVE  /\ RowsOf(stage) # {}
         /\ rows[LatestId(stage)].stage = stage
         /\ rows[LatestId(stage)].status = LatestStatus(stage)
         /\ IsSettled(rows[LatestId(stage)])
         /\ Meaning(rows[LatestId(stage)])
<1>1. RowsOf(stage) # {}
  BY DEF Settled, LatestStatus, None
<1>2. LatestId(stage) \in RowsOf(stage)
  BY <1>1, LatestExists
<1>3. LatestStatus(stage) = rows[LatestId(stage)].status
  BY <1>1 DEF LatestStatus
<1>4. QED
  BY <1>1, <1>2, <1>3 DEF RowsOf, Settled, IsSettled, RowsInv, Meant

(* The RunState rebuilt from the rows knows what the earlier stages found. *)
LEMMA ResumedStateKnows ==
  ASSUME Typed, RowsInv, NEW n \in 1..5, n = Frontier
  PROVE  /\ n > 1 => /\ ResumedState(n).before
                     /\ ResumedState(n).supported <=> capable # "declared"
         /\ n > 2 => ResumedState(n).selfTest # None
         /\ n > 3 => ResumedState(n).surface # None \/ (condemned /\ audited)
         /\ n > 4 => ResumedState(n).after
<1>1. \A k \in 1..4 : k < n => /\ Settled(Stages[k])
                               /\ Stages[k] \in {Stages[m] : m \in 1..(n - 1)}
  BY FrontierSplits
<1>2. \A k \in 1..4 : k < n => Earlier(n, Stages[k])
  BY <1>1, SettledStage DEF Earlier
<1>3. n > 1 => ResumedState(n).before /\ (ResumedState(n).supported <=> capable # "declared")
  <2> SUFFICES ASSUME n > 1
               PROVE  ResumedState(n).before /\ (ResumedState(n).supported <=> capable # "declared")
    OBVIOUS
  <2>1. Settled("SMART_BEFORE") /\ Earlier(n, "SMART_BEFORE")
    BY <1>1, <1>2, StageFacts
  <2>2. "before" \in snapshots
    BY <2>1, SettledStage DEF Meaning, IsSettled, GateSkips
  <2>3. QED
    BY <2>1, <2>2 DEF ResumedState
<1>4. n > 2 => ResumedState(n).selfTest # None
  <2> SUFFICES ASSUME n > 2 PROVE ResumedState(n).selfTest # None
    OBVIOUS
  <2>1. Settled("SELFTEST_LONG") /\ Earlier(n, "SELFTEST_LONG")
    BY <1>1, <1>2, StageFacts
  <2>2. CASE WasSkipped("SELFTEST_LONG")
    BY <2>1, <2>2 DEF ResumedState, None
  <2>3. CASE ~WasSkipped("SELFTEST_LONG")
    <3>1. rows[LatestId("SELFTEST_LONG")].metrics # None
      BY <2>1, <2>3, SettledStage DEF WasSkipped, Meaning, IsSettled
    <3>2. ResumedState(n).selfTest = rows[LatestId("SELFTEST_LONG")].metrics
      BY <2>1, <2>3 DEF ResumedState
    <3>3. QED
      BY <3>1, <3>2
  <2>4. QED
    BY <2>2, <2>3
<1>5. n > 3 => ResumedState(n).surface # None \/ (condemned /\ audited)
  <2> SUFFICES ASSUME n > 3 PROVE ResumedState(n).surface # None \/ (condemned /\ audited)
    OBVIOUS
  <2>1. Settled("SURFACE") /\ Earlier(n, "SURFACE")
    BY <1>1, <1>2, StageFacts
  <2>2. rows[LatestId("SURFACE")].metrics # None \/ (condemned /\ audited)
    BY <2>1, SettledStage DEF Meaning, IsSettled
  <2>3. QED
    BY <2>1, <2>2 DEF ResumedState
<1>6. n > 4 => ResumedState(n).after
  <2> SUFFICES ASSUME n > 4 PROVE ResumedState(n).after
    OBVIOUS
  <2>1. Settled("SMART_AFTER") /\ Earlier(n, "SMART_AFTER")
    BY <1>1, <1>2, StageFacts
  <2>2. WasSkipped("SMART_AFTER") \/ "after" \in snapshots
    BY <2>1, SettledStage DEF WasSkipped, Meaning, IsSettled
  <2>3. Earlier(n, "SMART_BEFORE") /\ "before" \in snapshots
    <3>1. Settled("SMART_BEFORE") /\ Earlier(n, "SMART_BEFORE")
      BY <1>1, <1>2, StageFacts
    <3>2. QED
      BY <3>1, SettledStage DEF Meaning, IsSettled, GateSkips
  <2>4. QED
    BY <2>1, <2>2, <2>3 DEF ResumedState
<1>7. QED
  BY <1>3, <1>4, <1>5, <1>6

(* The row that is polled is the last one. *)
LEMMA PolledRowIs ==
  ASSUME Typed, RowsInv
  PROVE  PolledRow(Frontier) = IF Polls THEN Len(rows) ELSE 0
<1>1. CASE Polls
  <2>1. Frontier = 2 /\ Last.stage = "SELFTEST_LONG" /\ Last.status = "RUNNING" /\ rows # <<>>
    BY <1>1 DEF Polls, Frontier, IsSettled, Rank
  <2>2. LatestId("SELFTEST_LONG") = Len(rows) /\ LatestStatus("SELFTEST_LONG") = "RUNNING"
    BY <2>1, LastStage
  <2>3. QED
    BY <1>1, <2>1, <2>2, StageFacts DEF PolledRow
<1>2. CASE ~Polls
  <2> SUFFICES ASSUME Stages[Frontier] = "SELFTEST_LONG", LatestStatus("SELFTEST_LONG") = "RUNNING"
               PROVE  FALSE
    BY <1>2 DEF PolledRow
  <2>1. Frontier = 2
    BY FrontierTyped, RankOfStage DEF Rank
  <2>2. RowsOf("SELFTEST_LONG") # {}
    BY DEF LatestStatus, None
  <2>3. rows # <<>> /\ ~(Rank(Last.stage) < 2)
    BY <2>2, ComingStage, StageFacts
  <2>4. Last.stage \in StageNames /\ Rank(Last.stage) \in 1..5
    BY <2>3, FrontierTyped
  <2>5. Rank(Last.stage) = 2
    BY <2>1, <2>3, <2>4 DEF Frontier
  <2>6. Last.stage = "SELFTEST_LONG"
    BY <2>4, <2>5, RankOfStage, StageFacts
  <2>7. Last.status = "RUNNING"
    BY <2>3, <2>6, LastStage
  <2>8. QED
    BY <1>2, <2>3, <2>6, <2>7 DEF Polls
<1>3. QED
  BY <1>1, <1>2

(* A resume takes its state from the rows, and closes a stale scan. *)
LEMMA ResumeStep ==
  ASSUME RegInv, HistInv, ResumePlanned
  PROVE  HistInv'
<1> DEFINE n == Frontier
           running == LatestStatus(Stages[n]) = "RUNNING"
           stale == Stages[n] = "SURFACE" /\ running
<1>1. Typed /\ RowsInv /\ EvidenceKept
  BY EvidenceGrows DEF RegInv, HistInv, RowsInv, Next, Engine
<1>2. n \in 1..5 /\ ResumeIndex = n
  BY <1>1, FrontierTyped, ResumesAtFrontier
<1>3. pc = "resolving" /\ ~skipStages
  BY DEF ResumePlanned, HistInv, Rest, Gated
<1>4. /\ i' = n /\ state' = ResumedState(n) /\ stageId' = IF Polls THEN Len(rows) ELSE 0
      /\ UNCHANGED <<snapshots, audited, verdict, skipStages, capable, condemned, testing>>
  BY <1>1, <1>2, PolledRowIs DEF ResumePlanned, Keep, nature, firmware
<1>5. Gated' /\ VerdictGrounded'
  BY <1>3, <1>4 DEF HistInv, Rest, Gated, VerdictGrounded
<1>6. runStatus # "DONE"
  BY <1>3 DEF HistInv, Rest, Finished
<1>7. /\ n > 1 => HasBefore'
      /\ n > 2 => state'.selfTest # None
      /\ n > 3 => Graded'
      /\ n > 4 => state'.after
  BY <1>1, <1>2, <1>4, ResumedStateKnows DEF HasBefore, Graded
<1>8. CASE rows' = rows
  <2>1. /\ RowsInv' /\ Frontier' = Frontier /\ Polls' = Polls
    BY <1>1, <1>8, SameRows
  <2>2. pc' \in {"begin", "end"} /\ runStatus' # "DONE"
    <3>1. CASE runStatus' = "FAILED" /\ pc' = "end"
      BY <3>1
    <3>2. CASE pc' = "begin" /\ runStatus' = runStatus
      BY <1>6, <3>2
    <3>3. CASE /\ LatestStatus(Stages[n]) = "RUNNING" /\ Stages[n] = "SURFACE"
               /\ rows' = [rows EXCEPT ![LatestId("SURFACE")].status = "INTERRUPTED"]
      <4>1. LatestId("SURFACE") \in DOMAIN rows /\ rows[LatestId("SURFACE")].status = "RUNNING"
        BY <1>1, <3>3, InterruptsWhenStale
      <4>2. rows[LatestId("SURFACE")] \in AnyRow
        BY <1>1, <4>1, RowsFacts
      <4>3. rows'[LatestId("SURFACE")].status = "INTERRUPTED"
        BY <3>3, <4>1, <4>2 DEF AnyRow
      <4>4. QED
        BY <1>8, <4>1, <4>3
    <3>4. QED
      BY <1>2, <3>1, <3>2, <3>3 DEF ResumePlanned
  <2>3. AtHead' /\ AtHand'
    BY <1>3, <1>4, <1>8, <2>1, <2>2 DEF AtHead, AtHand, InStage, Opened
  <2>4. Known'
    BY <1>4, <1>7, <2>2 DEF Known, InStage
  <2>5. Finished' /\ Tested'
    BY <1>4, <1>8, <2>2 DEF HistInv, Rest, Finished, Tested
  <2>6. QED
    BY <1>2, <1>4, <1>5, <2>1, <2>3, <2>4, <2>5 DEF HistInv, RowsInv, Rest
<1>9. CASE rows' # rows
  <2>1. /\ stale /\ pc' = "count" /\ runStatus' = runStatus
        /\ rows' = [rows EXCEPT ![LatestId("SURFACE")].status = "INTERRUPTED"]
    BY <1>2, <1>9 DEF ResumePlanned
  <2>2. Frontier = 3 /\ RowsOf(Stages[3]) # {}
    <3>1. Frontier = 3
      BY <1>2, <2>1, RankOfStage DEF Rank
    <3>2. QED
      BY <2>1, <3>1, StageFacts DEF LatestStatus, None
  <2>3. rows # <<>> /\ ~(Rank(Last.stage) < 3)
    BY <1>1, <2>2, ComingStage
  <2>4. Last.stage \in StageNames /\ Rank(Last.stage) \in 1..5
    BY <1>1, <2>3, FrontierTyped
  <2>5. Rank(Last.stage) = 3
    BY <2>2, <2>3, <2>4 DEF Frontier
  <2>6. Last.stage = "SURFACE"
    BY <2>4, <2>5, RankOfStage, StageFacts
  <2>7. LatestId("SURFACE") = Len(rows)
    BY <1>1, <2>3, <2>6, LastStage
  <2> DEFINE row == [Last EXCEPT !.status = "INTERRUPTED"]
  <2>8. Last \in AnyRow /\ Last = rows[Len(rows)]
    BY <1>1, <2>3, RowsFacts DEF Last
  <2>9. row \in AnyRow /\ row.stage = "SURFACE" /\ row.status = "INTERRUPTED"
    BY <2>6, <2>8 DEF AnyRow, RowStatuses
  <2>10. Changed(row)
    BY <2>1, <2>3, <2>7 DEF Changed, Last
  <2> HIDE DEF row
  <2>11. Last' = row
    BY <1>1, <2>9, <2>10, ChangedEffect
  <2>12. Meaning(Last)'
    BY <2>9, <2>11 DEF Meaning, StageNames
  <2>13. /\ RowsInv' /\ rows' # <<>> /\ Frontier' = 3 /\ ~Polls'
         /\ DOMAIN rows' = DOMAIN rows /\ \A m \in DOMAIN rows : rows'[m].stage = rows[m].stage
    <3>1. row.stage = Last.stage /\ ~IsSettled(row) /\ Rank(row.stage) = 3
      BY <2>5, <2>6, <2>9 DEF IsSettled
    <3>2. QED
      BY <1>1, <2>9, <2>10, <2>12, <3>1, ChangedRow
  <2>14. ~Polls
    BY <2>6 DEF Polls
  <2>15. AtHead' /\ AtHand'
    BY <1>4, <2>1, <2>2, <2>13, <2>14 DEF AtHead, AtHand, InStage, Opened
  <2>16. Known'
    BY <1>4, <1>7, <2>1 DEF Known, InStage
  <2>17. Finished' /\ Tested'
    BY <1>4, <1>6, <2>1, <2>13 DEF HistInv, Rest, Finished, Tested
  <2>18. QED
    BY <1>2, <1>4, <1>5, <2>13, <2>15, <2>16, <2>17 DEF HistInv, RowsInv, Rest
<1>10. QED
  BY <1>8, <1>9

LEMMA HistInvStep ==
  ASSUME RegInv, HistInv, [Next]_vars
  PROVE  HistInv'
<1>1. CASE Rowless /\ Next
  BY <1>1, RowlessStep
<1>2. CASE SkipStage
  BY <1>2, SkipStep
<1>3. CASE StartStage /\ stageId = 0
  BY <1>3, StartStep
<1>4. CASE StartAnswered /\ ~Rowless
  <2>1. pc = "starting" /\ TestStageReturns("UNSUPPORTED") /\ UNCHANGED <<nature, testing>>
    BY <1>4 DEF StartAnswered, Rowless, Keep, firmware
  <2>2. "UNSUPPORTED" \in Metrics /\ "UNSUPPORTED" # None
    BY DEF Metrics, TestResults, None
  <2>3. QED
    BY <1>4, <2>1, <2>2, TestReturnsStep DEF Next, Engine
<1>5. CASE PollEnds
  <2> DEFINE m == IF log = None THEN "UNKNOWN" ELSE log
  <2>1. pc = "polling" /\ TestStageReturns(m) /\ UNCHANGED <<nature, testing>>
    BY <1>5 DEF PollEnds, Keep, firmware
  <2>2. m \in Metrics /\ m # None
    BY DEF RegInv, Typed, Metrics, TestResults, None
  <2> HIDE DEF m
  <2>3. QED
    BY <1>5, <2>1, <2>2, TestReturnsStep DEF Next, Engine
<1>6. CASE StopAnswered
  <2>1. pc = "stopping" /\ TestStageReturns(state.selfTest) /\ UNCHANGED <<nature, testing>>
    BY <1>6 DEF StopAnswered, Keep, firmware
  <2>2. state.selfTest \in Metrics /\ state.selfTest # None
    BY <2>1 DEF RegInv, Typed, HistInv, Rest, Known
  <2>3. QED
    BY <1>6, <2>1, <2>2, TestReturnsStep DEF Next, Engine
<1>7. CASE RecheckAllows /\ ~Rowless
  BY <1>7, SurfaceStep DEF RecheckAllows, Rowless, Keep, firmware, Next, Engine
<1>8. CASE SurfaceEnds
  BY <1>8, SurfaceStep DEF SurfaceEnds, Keep, firmware, Next
<1>9. CASE VerdictRow /\ ~Rowless
  BY <1>9, VerdictRowStep DEF Rowless
<1>10. CASE StageReturns
  BY <1>10, ReturnStep
<1>11. CASE FailRow
  BY <1>11, FailRowStep
<1>12. CASE ResumePlanned
  BY <1>12, ResumeStep
<1>13. CASE UNCHANGED vars
  <2>1. /\ UNCHANGED <<runStatus, rows, snapshots, audited, verdict, pc, i, stageId, state,
                       skipStages, capable, condemned, testing>>
        /\ Typed /\ RowsInv /\ EvidenceKept
    BY <1>13, EvidenceGrows DEF vars, database, memory, nature, firmware, RegInv, HistInv, RowsInv
  <2>2. RowsInv' /\ Frontier' = Frontier /\ Last' = Last /\ Polls' = Polls
    BY <2>1, SameRows
  <2>3. QED
    BY <2>1, <2>2
    DEF HistInv, RowsInv, Rest, AtHead, AtHand, Stage, Known, HasBefore, Graded, Gated, Finished,
        Tested, VerdictGrounded
<1>14. QED
  BY <1>1, <1>2, <1>3, <1>4, <1>5, <1>6, <1>7, <1>8, <1>9, <1>10, <1>11, <1>12, <1>13
  DEF Next, Engine, Rowless

LEMMA HistoryKept == Spec => [](RegInv /\ HistInv)
<1>1. Init => RegInv /\ HistInv
  BY InitRegInv, InitHistInv
<1>2. RegInv /\ HistInv /\ [Next]_vars => RegInv' /\ HistInv'
  BY RegInvStep, HistInvStep
<1>3. QED
  BY <1>1, <1>2, PTL DEF Spec

(***************************************************************************)
(* Scans are accounted for: by the first, the counted restarts and the     *)
(* uncounted deaths.  Where a new scan can begin behind a closed one, the  *)
(* closed one has been paid for.                                           *)
(***************************************************************************)
LastScan(statuses) == rows # <<>> /\ Last.stage = "SURFACE" /\ Last.status \in statuses

ToHead == {"queued", "begin", "head"}
Between == ToHead \cup {"down", "resumeQueued", "resolving"}
Ending == {"failRun", "abortRun"}

Paid == pc \in Between /\ LastScan({"INTERRUPTED", "ABORTED", "FAILED"}) =>
          ScanCount <= restartCount + uncounted

ScanClosed ==
  /\ pc \in Between \cup InStage \cup Ending \cup {"count", "end"}
  /\ pc \in ToHead => ~LastScan({"RUNNING"})
  /\ pc \in Ending => ~LastScan({"RUNNING", "INTERRUPTED"})
  /\ pc = "count" => LastScan({"INTERRUPTED"})

ScanInv ==
  /\ uncounted \in Nat
  /\ ScanCount <= 1 + restartCount + uncounted
  /\ Paid
  /\ ScanClosed

LEMMA ScanCountTyped ==
  ASSUME Typed
  PROVE  IsFiniteSet(RowsOf("SURFACE")) /\ ScanCount \in Nat
<1>1. RowsOf("SURFACE") \subseteq 1..Len(rows) /\ Len(rows) \in Nat
  BY RowsFacts DEF RowsOf
<1>2. IsFiniteSet(1..Len(rows))
  BY <1>1, FS_Interval
<1>3. QED
  BY <1>1, <1>2, FS_Subset, FS_CardinalityType DEF ScanCount

LEMMA InitScanInv == Init => ScanInv
<1> SUFFICES ASSUME Init PROVE ScanInv
  OBVIOUS
<1>1. rows = <<>> /\ RowsOf("SURFACE") = {}
  BY DEF Init, RowsOf
<1>2. ScanCount = 0
  BY <1>1, FS_EmptySet DEF ScanCount
<1>3. QED
  BY <1>1, <1>2 DEF Init, ScanInv, Paid, ScanClosed, LastScan, Between, ToHead, Ending

(* A step that only changes a row adds no scan. *)
LEMMA SameScans ==
  ASSUME Typed, DOMAIN rows' = DOMAIN rows, \A n \in DOMAIN rows : rows'[n].stage = rows[n].stage
  PROVE  ScanCount' = ScanCount
  BY DEF ScanCount, RowsOf

(* A row may be added only where a new scan is paid for. *)
LEMMA NewScan ==
  ASSUME RegInv, HistInv, ScanInv, NEW st \in {"SKIPPED", "RUNNING"}, Grew(st), pc = "head",
         UNCHANGED <<restartCount, uncounted>>
  PROVE  /\ ScanCount' <= 1 + restartCount + uncounted
         /\ Last' = Row(st)
<1>1. Typed /\ RowsInv /\ i \in 1..5 /\ i = Frontier
  BY DEF RegInv, HistInv, RowsInv, Rest, AtHead
<1>2. /\ DOMAIN rows' = 1..(Len(rows) + 1) /\ Len(rows') = Len(rows) + 1 /\ Last' = Row(st)
      /\ \A n \in DOMAIN rows : rows'[n] = rows[n]
  BY <1>1, GrewEffect
<1>3. DOMAIN rows = 1..Len(rows) /\ Len(rows) \in Nat
  BY <1>1, RowsFacts
<1>4. rows'[Len(rows) + 1].stage = Stage
  BY <1>2 DEF Last, Row
<1>5. ScanCount \in Nat /\ restartCount \in Nat /\ uncounted \in Nat
  BY <1>1, ScanCountTyped DEF Typed, ScanInv
<1>6. CASE Stage # "SURFACE"
  <2>1. RowsOf("SURFACE")' = RowsOf("SURFACE")
    BY <1>2, <1>3, <1>4, <1>6 DEF RowsOf
  <2>2. QED
    BY <1>2, <2>1 DEF ScanCount, ScanInv
<1>7. CASE Stage = "SURFACE"
  <2>1. i = 3
    BY <1>1, <1>7, RankOfStage DEF Stage, Rank
  <2>2. RowsOf("SURFACE")' = RowsOf("SURFACE") \cup {Len(rows) + 1}
    BY <1>2, <1>3, <1>4, <1>7 DEF RowsOf
  <2>3. Len(rows) + 1 \notin RowsOf("SURFACE")
    BY <1>3 DEF RowsOf
  <2>4. ScanCount' = ScanCount + 1
    BY <1>1, <2>2, <2>3, ScanCountTyped, FS_AddElement DEF ScanCount
  <2>5. ScanCount <= restartCount + uncounted
    <3>1. CASE RowsOf("SURFACE") = {}
      BY <1>5, <3>1, FS_EmptySet DEF ScanCount
    <3>2. CASE RowsOf("SURFACE") # {}
      <4>1. rows # <<>> /\ ~(Rank(Last.stage) < 3)
        BY <1>1, <3>2, ComingStage, StageFacts
      <4>2. Last.stage \in StageNames /\ Rank(Last.stage) \in 1..5
        BY <1>1, <4>1, FrontierTyped
      <4>3. Rank(Last.stage) = 3 /\ ~IsSettled(Last)
        BY <1>1, <2>1, <4>1, <4>2 DEF Frontier, StageNames, Rank
      <4>4. Last.stage = "SURFACE"
        BY <4>2, <4>3, RankOfStage, StageFacts
      <4>5. Last.status \in RowStatuses
        BY <1>1, <4>1, RowsFacts DEF AnyRow, Last
      <4>6. Last.status # "RUNNING"
        BY <4>1, <4>4 DEF ScanInv, ScanClosed, ToHead, LastScan
      <4>7. LastScan({"INTERRUPTED", "ABORTED", "FAILED"})
        BY <4>1, <4>3, <4>4, <4>5, <4>6 DEF LastScan, IsSettled, RowStatuses
      <4>8. QED
        BY <4>7 DEF ScanInv, Paid, Between, ToHead
    <3>3. QED
      BY <3>1, <3>2
  <2>6. QED
    BY <1>2, <1>5, <2>4, <2>5
<1>8. QED
  BY <1>2, <1>6, <1>7

(* A step from which no new scan can come needs no accounting. *)
LEMMA ScanElsewhere ==
  ASSUME RegInv, ScanInv, ScanCount' = ScanCount, UNCHANGED <<restartCount, uncounted>>,
         pc' \in InStage \cup {"end"}
  PROVE  ScanInv'
  BY DEF ScanInv, Paid, ScanClosed, Between, ToHead, Ending, InStage

(* The row of a closed scan is either paid for, or its death is counted. *)
LEMMA CrashScans ==
  ASSUME RegInv, HistInv, ScanInv, Crash
  PROVE  ScanInv'
<1>1. /\ UNCHANGED <<rows, restartCount>> /\ pc' = "down"
      /\ uncounted' = uncounted + (IF CutShort THEN 1 ELSE 0)
      /\ pc \notin {"end", "down"}
  BY DEF Crash, database
<1>2. Typed /\ ScanCount' = ScanCount /\ ScanCount \in Nat /\ restartCount \in Nat /\ uncounted \in Nat
  BY <1>1, ScanCountTyped DEF RegInv, Typed, ScanInv, ScanCount, RowsOf
<1>3. uncounted' \in Nat /\ uncounted <= uncounted'
  BY <1>1, <1>2
<1>4. ScanCount' <= 1 + restartCount' + uncounted'
  BY <1>1, <1>2, <1>3 DEF ScanInv
<1>5. ScanClosed'
  BY <1>1 DEF ScanClosed, Between, ToHead, Ending
<1>6. ASSUME LastScan({"INTERRUPTED", "ABORTED", "FAILED"})
      PROVE  ScanCount <= restartCount + uncounted'
  <2>1. rows # <<>> /\ Last.stage = "SURFACE" /\ Last.status \in {"INTERRUPTED", "ABORTED", "FAILED"}
    BY <1>6 DEF LastScan
  <2>2. LatestStatus("SURFACE") = Last.status
    BY <1>2, <2>1, LastStage
  <2>3. CASE CutShort
    <3>1. uncounted' = uncounted + 1
      BY <1>1, <2>3
    <3>2. QED
      BY <1>2, <3>1 DEF ScanInv
  <2>4. CASE pc \in Between
    <3>1. ScanCount <= restartCount + uncounted
      BY <1>6, <2>4 DEF ScanInv, Paid
    <3>2. uncounted' = uncounted \/ uncounted' = uncounted + 1
      BY <1>1, <1>2
    <3>3. ScanCount \in Nat /\ restartCount \in Nat /\ uncounted \in Nat
      BY <1>2
    <3>4. QED
      BY <3>1, <3>2, <3>3
  <2>5. CASE pc \in InStage
    <3>1. pc \notin Opened
      BY <2>1 DEF HistInv, Rest, AtHand
    <3>2. pc # "verdictRun"
      BY <2>1, StageFacts DEF HistInv, Rest, AtHand, InStage, Stage
    <3>3. pc \in {"return", "failRow"} /\ stageId = Len(rows)
      BY <2>5, <3>1, <3>2 DEF HistInv, Rest, AtHand, Opened
    <3>4. Last.status # "INTERRUPTED"
      BY <1>2, <2>1, <3>3, RowsFacts DEF RegInv, RowOpen, Interrupted, Last
    <3>5. CutShort
      BY <2>1, <2>2, <3>3, <3>4 DEF CutShort
    <3>6. QED
      BY <2>3, <3>5
  <2>6. CASE pc \in Ending
    <3>1. Last.status # "INTERRUPTED"
      BY <2>1, <2>6 DEF ScanInv, ScanClosed, LastScan
    <3>2. CutShort
      BY <2>1, <2>2, <2>6, <3>1 DEF CutShort, Ending
    <3>3. QED
      BY <2>3, <3>2
  <2>7. pc = "count" => CutShort
    BY DEF CutShort
  <2>8. QED
    BY <1>1, <2>3, <2>4, <2>5, <2>6, <2>7 DEF ScanInv, ScanClosed
<1>7. LastScan({"INTERRUPTED", "ABORTED", "FAILED"})' =>
        LastScan({"INTERRUPTED", "ABORTED", "FAILED"})
  BY <1>1 DEF LastScan, Last
<1>8. QED
  BY <1>1, <1>2, <1>3, <1>4, <1>5, <1>6, <1>7 DEF ScanInv, Paid

(* The plan of a resume closes the scan it found RUNNING, or found none. *)
LEMMA ResumeScans ==
  ASSUME RegInv, HistInv, ScanInv, ResumePlanned
  PROVE  ScanInv'
<1> DEFINE n == Frontier
<1>1. Typed /\ RowsInv /\ n \in 1..5 /\ ResumeIndex = n /\ pc = "resolving"
  BY FrontierTyped, ResumesAtFrontier DEF RegInv, HistInv, RowsInv, ResumePlanned
<1>2. UNCHANGED <<restartCount, uncounted>>
  BY DEF ResumePlanned, Keep, deaths
<1>3. CASE pc' = "end"
  <2>1. rows' = rows
    BY <1>3 DEF ResumePlanned
  <2>2. ScanCount' = ScanCount
    BY <2>1 DEF ScanCount, RowsOf
  <2>3. QED
    BY <1>2, <1>3, <2>2, ScanElsewhere
<1>4. CASE pc' = "count"
  <2>1. /\ LatestStatus("SURFACE") = "RUNNING" /\ Stages[n] = "SURFACE"
        /\ rows' = [rows EXCEPT ![LatestId("SURFACE")].status = "INTERRUPTED"]
    BY <1>1, <1>4 DEF ResumePlanned
  <2>2. RowsOf("SURFACE") # {} /\ n = 3
    BY <1>1, <2>1, RankOfStage DEF LatestStatus, None, Rank
  <2>3. rows # <<>> /\ ~(Rank(Last.stage) < 3)
    BY <1>1, <2>2, ComingStage, StageFacts
  <2>4. Last.stage \in StageNames /\ Rank(Last.stage) = 3
    BY <1>1, <2>2, <2>3, FrontierTyped DEF Frontier
  <2>5. Last.stage = "SURFACE"
    BY <2>4, RankOfStage, StageFacts
  <2>6. LatestId("SURFACE") = Len(rows)
    BY <1>1, <2>3, <2>5, LastStage
  <2> DEFINE row == [Last EXCEPT !.status = "INTERRUPTED"]
  <2>7. Last \in AnyRow /\ Last = rows[Len(rows)]
    BY <1>1, <2>3, RowsFacts DEF Last
  <2>8. row \in AnyRow /\ row.stage = "SURFACE" /\ row.status = "INTERRUPTED"
    BY <2>5, <2>7 DEF AnyRow, RowStatuses
  <2>9. Changed(row)
    BY <2>1, <2>3, <2>6 DEF Changed, Last
  <2> HIDE DEF row
  <2>10. /\ rows' # <<>> /\ Last' = row /\ DOMAIN rows' = DOMAIN rows
         /\ Len(rows) \in DOMAIN rows /\ Len(rows') = Len(rows)
         /\ \A m \in DOMAIN rows : m # Len(rows) => rows'[m] = rows[m]
    BY <1>1, <2>3, <2>8, <2>9, ChangedEffect, RowsFacts
  <2>11. \A m \in DOMAIN rows : rows'[m].stage = rows[m].stage
    BY <2>5, <2>8, <2>10 DEF Last
  <2>12. ScanCount' = ScanCount
    BY <1>1, <2>10, <2>11, SameScans
  <2>13. LastScan({"INTERRUPTED"})'
    BY <2>8, <2>10 DEF LastScan
  <2>14. QED
    BY <1>2, <1>4, <2>12, <2>13 DEF ScanInv, Paid, ScanClosed, Between, ToHead, Ending
<1>5. CASE pc' = "begin"
  <2>1. rows' = rows /\ ~(Stages[n] = "SURFACE" /\ LatestStatus(Stages[n]) = "RUNNING")
    BY <1>1, <1>5 DEF ResumePlanned
  <2>2. ScanCount' = ScanCount /\ Last' = Last
    BY <2>1 DEF ScanCount, RowsOf, Last
  <2>3. ~LastScan({"RUNNING"})
    <3> SUFFICES ASSUME rows # <<>>, Last.stage = "SURFACE", Last.status = "RUNNING"
                 PROVE  FALSE
      BY DEF LastScan
    <3>1. n = 3 /\ Stages[n] = "SURFACE"
      BY StageFacts DEF Frontier, IsSettled, Rank
    <3>2. LatestStatus("SURFACE") = "RUNNING"
      BY <1>1, LastStage
    <3>3. QED
      BY <2>1, <3>1, <3>2
  <2>4. QED
    BY <1>1, <1>2, <1>5, <2>1, <2>2, <2>3
    DEF ScanInv, Paid, ScanClosed, Between, ToHead, Ending, LastScan
<1>6. QED
  BY <1>3, <1>4, <1>5 DEF ResumePlanned

(* A row settled or closed by #run itself. *)
LEMMA CloseScans ==
  ASSUME RegInv, HistInv, ScanInv, StageReturns \/ FailRow
  PROVE  ScanInv'
<1>1. Typed /\ rows # <<>> /\ stageId = Len(rows)
  BY DEF RegInv, HistInv, Rest, AtHand, InStage, StageReturns, FailRow
<1>2. UNCHANGED <<restartCount, uncounted>>
  BY DEF StageReturns, FailRow, Keep, deaths
<1>3. PICK st \in {"DONE", "SKIPPED", "ABORTED", "FAILED"} :
        /\ SetRow(st)
        /\ \/ st \in {"DONE", "SKIPPED"} /\ pc' = "head"
           \/ st \in {"ABORTED", "FAILED"} /\ pc' \in Ending
  <2>1. CASE FailRow
    BY <2>1 DEF FailRow, Ending
  <2>2. CASE StageReturns /\ aborted
    BY <2>2 DEF StageReturns, Ending
  <2>3. CASE StageReturns /\ ~aborted
    BY <2>3 DEF StageReturns, NextStage
  <2>4. QED
    BY <2>1, <2>2, <2>3
<1>4. PICK row \in AnyRow : Changed(row) /\ row.stage = Last.stage /\ row.status = st
  BY <1>1, <1>3, StatusWritten DEF RowStatuses
<1>5. /\ Last' = row /\ DOMAIN rows' = DOMAIN rows /\ Len(rows) \in DOMAIN rows
      /\ \A m \in DOMAIN rows : m # Len(rows) => rows'[m] = rows[m]
      /\ Len(rows') = Len(rows)
  BY <1>1, <1>4, ChangedEffect, RowsFacts
<1>6. \A m \in DOMAIN rows : rows'[m].stage = rows[m].stage
  BY <1>4, <1>5 DEF Last
<1>7. ScanCount' = ScanCount
  BY <1>1, <1>5, <1>6, SameScans
<1>8. LastScan({"RUNNING"})' = FALSE /\ LastScan({"RUNNING", "INTERRUPTED"})' = FALSE
  BY <1>3, <1>4, <1>5 DEF LastScan
<1>9. pc' = "head" => ~LastScan({"INTERRUPTED", "ABORTED", "FAILED"})'
  BY <1>3, <1>4, <1>5 DEF LastScan, Ending
<1>10. QED
  BY <1>2, <1>3, <1>7, <1>8, <1>9
  DEF ScanInv, Paid, ScanClosed, Between, ToHead, Ending

LEMMA ScanInvStep ==
  ASSUME RegInv, HistInv, ScanInv, [Next]_vars
  PROVE  ScanInv'
<1>1. Typed
  BY DEF RegInv
<1>2. CASE Crash
  BY <1>2, CrashScans
<1>3. CASE CountRestart
  <2>1. /\ rows' = rows /\ restartCount' = restartCount + 1 /\ uncounted' = uncounted
        /\ pc = "count" /\ pc' = "begin"
    BY <1>3 DEF CountRestart, Keep, deaths
  <2>2. ScanCount' = ScanCount /\ ScanCount \in Nat /\ Last' = Last
    BY <1>1, <2>1, ScanCountTyped DEF ScanCount, RowsOf, Last
  <2>3. restartCount \in Nat /\ uncounted \in Nat
    BY <1>1 DEF Typed, ScanInv
  <2>4. ScanClosed'
    BY <2>1, <2>2 DEF ScanInv, ScanClosed, Between, ToHead, Ending, LastScan
  <2>5. QED
    BY <2>1, <2>2, <2>3, <2>4 DEF ScanInv, Paid
<1>4. CASE ResumePlanned
  BY <1>4, ResumeScans
<1>5. CASE StageReturns \/ FailRow
  BY <1>5, CloseScans
<1>6. CASE SkipStage
  <2>1. Grew("SKIPPED") /\ pc = "head" /\ pc' = "head" /\ UNCHANGED <<restartCount, uncounted>>
    BY <1>6 DEF SkipStage, Grew, Keep, deaths
  <2>2. ScanCount' <= 1 + restartCount + uncounted /\ Last' = Row("SKIPPED")
    BY <2>1, NewScan
  <2>3. ~LastScan({"RUNNING"})' /\ ~LastScan({"INTERRUPTED", "ABORTED", "FAILED"})'
    BY <2>2 DEF LastScan, Row
  <2>4. QED
    BY <2>1, <2>2, <2>3 DEF ScanInv, Paid, ScanClosed, Between, ToHead, Ending
<1>7. CASE StartStage /\ stageId = 0
  <2>1. /\ Grew("RUNNING") /\ pc = "head" /\ UNCHANGED <<restartCount, uncounted>>
        /\ pc' \in {"smart", "starting", "recheck", "verdict"}
    BY <1>7 DEF StartStage, Grew, Keep, deaths
  <2>2. ScanCount' <= 1 + restartCount + uncounted
    BY <2>1, NewScan
  <2>3. QED
    BY <2>1, <2>2 DEF ScanInv, Paid, ScanClosed, Between, ToHead, Ending, InStage
<1>8. CASE StartAnswered \/ PollEnds \/ StopAnswered \/ RecheckAllows \/ SurfaceEnds \/ VerdictRow
  <2>1. UNCHANGED <<restartCount, uncounted>> /\ pc' \in InStage
    BY <1>8 DEF StartAnswered, PollEnds, StopAnswered, RecheckAllows, SurfaceEnds, VerdictRow,
                TestStageReturns, Keep, deaths, database, InStage
  <2>2. rows \in Seq(AnyRow) /\ \A n \in DOMAIN rows : rows[n] \in AnyRow
    BY <1>1, RowsFacts DEF Typed
  <2>3. DOMAIN rows' = DOMAIN rows /\ \A n \in DOMAIN rows : rows'[n].stage = rows[n].stage
    <3>1. CASE rows' = rows
      BY <3>1
    <3>2. CASE \E m : rows' = [rows EXCEPT ![stageId].metrics = m]
      BY <2>2, <3>2 DEF AnyRow
    <3>3. CASE \E st : rows' = [rows EXCEPT ![stageId].status = st]
      BY <2>2, <3>3 DEF AnyRow
    <3>4. CASE \E st, m : rows' = [rows EXCEPT ![stageId].status = st, ![stageId].metrics = m]
      BY <2>2, <3>4 DEF AnyRow
    <3>5. QED
      BY <1>8, <3>1, <3>2, <3>3, <3>4
      DEF StartAnswered, PollEnds, StopAnswered, RecheckAllows, SurfaceEnds, VerdictRow,
          TestStageReturns, SurfaceRow, SetRow, database
  <2>4. ScanCount' = ScanCount
    BY <1>1, <2>3, SameScans
  <2>5. QED
    BY <2>1, <2>4, ScanElsewhere
<1>9. CASE \/ Begin \/ AbortAtHead \/ (StartStage /\ stageId # 0) \/ SmartRead \/ Gate
           \/ TestStarts \/ TestEnds \/ PollAborted \/ VerdictRun \/ StageThrows \/ EndRun
           \/ AbortRun \/ Reconcile \/ ResumeBegins \/ ResumeRefused \/ UNCHANGED vars
  <2>1. UNCHANGED <<rows, restartCount, uncounted>>
    BY <1>9 DEF Begin, AbortAtHead, StartStage, SmartRead, Gate, TestStarts, TestEnds, PollAborted,
                VerdictRun, StageThrows, EndRun, AbortRun, Reconcile, ResumeBegins, ResumeRefused,
                Keep, deaths, database, vars
  <2>2. \/ pc' = pc
        \/ pc' \in InStage \cup {"end"}
        \/ pc \in ToHead /\ pc' = "head"
        \/ pc \in Between /\ pc' \in {"resumeQueued", "resolving"}
    BY <1>9 DEF Begin, AbortAtHead, StartStage, SmartRead, Gate, TestStarts, TestEnds, PollAborted,
                VerdictRun, StageThrows, EndRun, AbortRun, Reconcile, ResumeBegins, ResumeRefused,
                database, vars, InStage, ToHead, Between
  <2>3. ScanCount' = ScanCount /\ Last' = Last
    BY <2>1 DEF ScanCount, RowsOf, Last
  <2>4. QED
    BY <2>1, <2>2, <2>3
    DEF ScanInv, Paid, ScanClosed, Between, ToHead, Ending, InStage, LastScan
<1>10. QED
  BY <1>2, <1>3, <1>4, <1>5, <1>6, <1>7, <1>8, <1>9 DEF Next, Engine

(* The cap on restarts bounds the scans the drive is put through             *)
(* (engine.ts:472-485, 626-631): beyond the first and the counted ones there *)
(* is one for each death between closing the row of a scan and counting its  *)
(* restart, or ending its run, and none for any other cause.                 *)
THEOREM Capped == Spec => []RestartsCapped
<1>1. RegInv /\ ScanInv => RestartsCapped
  <2> SUFFICES ASSUME RegInv, ScanInv PROVE RestartsCapped
    OBVIOUS
  <2>1. /\ ScanCount \in Nat /\ restartCount \in Nat /\ uncounted \in Nat /\ MaxRestarts \in Nat
    BY ScanCountTyped, ConstantsAssumption DEF RegInv, Typed, ScanInv
  <2>2. QED
    BY <2>1 DEF RegInv, CounterCapped, ScanInv, RestartsCapped
<1>2. RegInv /\ HistInv /\ ScanInv /\ [Next]_vars => ScanInv'
  BY ScanInvStep
<1>3. QED
  BY HistoryKept, InitScanInv, <1>1, <1>2, PTL DEF Spec

(* The verdict has its evidence, also for a run whose RunState was rebuilt   *)
(* from its rows, however often, whatever the gate skipped (engine.ts:       *)
(* 1287-1290): one that grades no surface scan comes only from a baseline    *)
(* that condemned the drive.                                                 *)
THEOREM EvidenceComplete == Spec => []VerdictHasEvidence
<1>1. HistInv => VerdictHasEvidence
  BY DEF HistInv, Rest, AtHand, InStage, Known, HasBefore, VerdictGrounded, VerdictHasEvidence,
         Evidence
<1>2. QED
  BY <1>1, HistoryKept, PTL

(* A DONE run has run, or skipped, every stage, however often it was         *)
(* resumed, and none but VERDICT was settled twice (engine.ts:49-51,         *)
(* 554-568).                                                                 *)
THEOREM SettledOnce == Spec => []EachStageSettledOnce
<1>1. RegInv /\ HistInv => EachStageSettledOnce
  <2> SUFFICES ASSUME RegInv, HistInv PROVE EachStageSettledOnce
    OBVIOUS
  <2>1. Typed /\ RowsInv
    BY DEF RegInv, HistInv, RowsInv
  <2>2. ASSUME runStatus = "DONE", NEW k \in 1..5
        PROVE  LatestStatus(Stages[k]) \in {"DONE", "SKIPPED"}
    <3>1. rows # <<>> /\ Last.stage = "VERDICT" /\ Last.status = "DONE"
      BY <2>2 DEF HistInv, Rest, Finished
    <3>2. Frontier = 5
      BY <3>1 DEF Frontier, Rank
    <3>3. CASE k < 5
      BY <2>1, <3>2, <3>3, FrontierSplits DEF Settled
    <3>4. CASE k = 5
      BY <2>1, <3>1, <3>4, LastStage, StageFacts
    <3>5. QED
      BY <3>3, <3>4
  <2>3. ASSUME NEW k \in 1..4
        PROVE  Cardinality(SettledRows(Stages[k])) <= 1
    <3> DEFINE S == SettledRows(Stages[k])
    <3>1. Stages[k] # "VERDICT"
      BY StageFacts
    <3>2. \A n, m \in S : n = m
      <4>1. S \subseteq Nat
        BY <2>1, RowsFacts DEF SettledRows, RowsOf
      <4>2. ASSUME NEW n \in S, NEW m \in S, n < m
            PROVE  FALSE
        BY <2>1, <3>1, <4>2 DEF SettledRows, RowsOf, RowsInv, Ordered, IsSettled
      <4>3. QED
        BY <4>1, <4>2
    <3>3. CASE S = {}
      BY <3>3, FS_EmptySet
    <3>4. CASE S # {}
      <4>1. PICK n \in S : TRUE
        BY <3>4
      <4>2. S = {n}
        BY <3>2, <4>1
      <4>3. Cardinality(S) = 1
        BY <4>2, FS_Singleton
      <4>4. QED
        BY <4>3
    <3>5. QED
      BY <3>3, <3>4
  <2>4. QED
    BY <2>2, <2>3, StageFacts DEF EachStageSettledOnce
<1>2. QED
  BY <1>1, HistoryKept, PTL

(* A self-test the drive still runs for a RUNNING row is polled, never       *)
(* started over, by the process that resumes (engine.ts:622-624).            *)
THEOREM TestPolled == Spec => TestNotRestarted
<1>1. RegInv /\ HistInv /\ [Next]_vars =>
        [pc = "head" /\ pc' = "starting" /\ testing =>
           LatestStatus("SELFTEST_LONG") \in {"ABORTED", "FAILED"}]_vars
  <2> SUFFICES ASSUME RegInv, HistInv, Next, pc = "head", pc' = "starting", testing
               PROVE  LatestStatus("SELFTEST_LONG") \in {"ABORTED", "FAILED"}
    OBVIOUS
  <2>1. Typed /\ RowsInv /\ i \in 1..5
    BY DEF RegInv, HistInv, RowsInv
  <2>2. StartStage /\ stageId = 0 /\ Stage = "SELFTEST_LONG"
    BY DEF Next, Engine, Begin, SkipStage, AbortAtHead, StartStage, SmartRead, Gate, StartAnswered,
           PollEnds, PollAborted, StopAnswered, RecheckAllows, SurfaceEnds, VerdictRow, VerdictRun,
           StageReturns, FailRow, EndRun, Reconcile, ResumeBegins, ResumePlanned, CountRestart,
           TestStarts, TestEnds, StageThrows, ResumeRefused, AbortRun, Crash
  <2>3. i = 2 /\ Frontier = 2
    BY <2>1, <2>2, RankOfStage DEF Stage, Rank, HistInv, Rest, AtHead
  <2>4. PICK n \in DOMAIN rows : rows[n].stage = "SELFTEST_LONG"
    BY DEF HistInv, Rest, Tested
  <2>5. rows # <<>> /\ ~(Rank(Last.stage) < 2)
    <3>1. RowsOf(Stages[2]) # {}
      BY <2>4, StageFacts DEF RowsOf
    <3>2. QED
      BY <2>1, <3>1, ComingStage
  <2>6. Last.stage = "SELFTEST_LONG" /\ ~IsSettled(Last)
    <3>1. Last.stage \in StageNames /\ Rank(Last.stage) \in 1..5
      BY <2>1, <2>5, FrontierTyped
    <3>2. Rank(Last.stage) = 2
      BY <2>3, <2>5, <3>1 DEF Frontier
    <3>3. Last.stage = "SELFTEST_LONG"
      BY <3>1, <3>2, RankOfStage, StageFacts
    <3>4. QED
      BY <2>3, <2>5, <3>2, <3>3 DEF Frontier
  <2>7. Last.status # "RUNNING"
    <3>1. ~Polls \/ Len(rows) = 0
      BY <2>2 DEF HistInv, Rest, AtHead
    <3>2. QED
      BY <2>1, <2>5, <2>6, <3>1, RowsFacts DEF Polls
  <2>8. Last.status # "INTERRUPTED" /\ Last.status \in RowStatuses
    <3>1. Len(rows) \in DOMAIN rows /\ Meaning(Last) /\ Last \in AnyRow
      BY <2>1, <2>5, RowsFacts DEF RowsInv, Meant, Last
    <3>2. QED
      BY <2>6, <3>1 DEF Meaning, AnyRow
  <2>9. LatestStatus("SELFTEST_LONG") = Last.status
    BY <2>1, <2>5, <2>6, LastStage
  <2>10. QED
    BY <2>6, <2>7, <2>8, <2>9 DEF IsSettled, RowStatuses
<1>2. QED
  BY <1>1, HistoryKept, PTL DEF Spec, TestNotRestarted

=============================================================================
