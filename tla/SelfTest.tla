------------------------------- MODULE SelfTest -------------------------------
(***************************************************************************)
(* One SELFTEST_LONG stage (engine.ts, #runSelfTestStage) on top of the    *)
(* smartctl commands it is made of (device/realDeviceApi.ts), the command  *)
(* runner with its deadline (device/runner.ts), what is read out of the    *)
(* reports (device/smartParser.ts), and a drive that tests itself on its   *)
(* own schedule and may leave any command hanging.                         *)
(***************************************************************************)
EXTENDS Integers

CONSTANTS Done            \* bound: levels of progress of a routine; 100 in the code

ASSUME DoneAssumption == Done \in Nat \ {0}

Null == -1

Kinds == {"ATA", "SCSI", "NVMe"}
Statuses == {"PASSED", "FAILED", "ABORTED"}
Origins == {"none", "earlier", "own"}          \* whose routine: of history only

VARIABLES
  drive,        \* kind, supported, declares: constant; routine, level, newest
  resumed,      \* skipStart: a restart found the stage RUNNING
  knowsScsi,    \* state.isScsi is set: this process read the baseline, not one before it
  stage,        \* "start", "reread", "poll", "percent", "stop": awaiting that command;
                \* "idle", "waiting", "returned", "threw"
  aborted,      \* controller.signal
  reached,      \* the command in flight took effect on the drive
  answer,       \* and what it will print
  orphans,      \* commands that missed their deadline: kind, reached, alive, armed
  percent,      \* shown for the stage
  declared,     \* declaredTotalMinutes known
  result,       \* of the stage
  accepted,     \* the drive took the start of this stage in time (history)
  lost          \* commands nothing was heard of (history)

vars == <<drive, resumed, knowsScsi, stage, aborted, reached, answer, orphans, percent, declared,
          result, accepted, lost>>

Commands == {"start", "reread", "poll", "percent", "stop"}
Awaiting == stage \in Commands

Silence == [said |-> "nothing"]           \* a deadline: empty stdout, code 124
NoResult == [status |-> "UNKNOWN", of |-> "none"]
-----------------------------------------------------------------------------
(***************************************************************************)
(* The drive and what smartctl prints of it.                               *)
(***************************************************************************)
Running == drive.routine # "none"

(* scsi_extended_self_test_seconds is left out while the self-test log is empty. *)
parseLongSelfTestMinutes ==
  drive.declares /\ (drive.kind = "SCSI" => Running \/ drive.newest.of # "none")

(* parseSelfTest: the newest result; a SCSI entry in progress is none.  An ATA   *)
(* drive that never ran a routine has execution status 0, as one that ended well. *)
parseSelfTest ==
  CASE drive.kind = "SCSI" /\ Running -> NoResult
    [] drive.kind = "ATA" /\ drive.newest.of = "none" -> [status |-> "PASSED", of |-> "none"]
    [] OTHER -> drive.newest

(* Seeded fault: the operation code of an NVMe drive is not looked at. *)
PollReadingNoOperation ==
  IF Running /\ drive.kind # "NVMe"
  THEN [said |-> "running", remaining |-> IF drive.kind = "ATA" THEN Done - drive.level ELSE Null]
  ELSE [said |-> "ended", result |-> parseSelfTest]

(* pollSelfTest, behind readSmartRaw.  What an NVMe drive has completed is *)
(* returned as what remains.                                               *)
PollReading ==
  IF Running
  THEN [said |-> "running",
        remaining |-> CASE drive.kind = "ATA" -> Done - drive.level
                        [] drive.kind = "SCSI" -> Null
                        [] drive.kind = "NVMe" -> drive.level]
  ELSE [said |-> "ended", result |-> parseSelfTest]

Printed(command) ==
  CASE command = "start" -> [said |-> IF drive.supported THEN "started" ELSE "not supported"]
    [] command = "reread" -> [said |-> "report", minutes |-> parseLongSelfTestMinutes]
    [] command = "poll" -> PollReading
    [] command = "percent" -> [said |-> "text", remaining |-> IF Running THEN Done - drive.level ELSE Null]
    [] command = "stop" -> [said |-> "stopped"]

(* What a command does to the drive: a busy one takes no second routine. *)
Effect(command) ==
  CASE command = "start" /\ drive.supported /\ ~Running ->
         [drive EXCEPT !.routine = "own", !.level = 0]
    [] command = "stop" /\ Running ->
         [drive EXCEPT !.routine = "none", !.newest = [status |-> "ABORTED", of |-> drive.routine]]
    [] OTHER -> drive
-----------------------------------------------------------------------------
Init ==
  /\ resumed \in BOOLEAN
  /\ knowsScsi \in BOOLEAN
  /\ knowsScsi => ~resumed
  /\ drive \in [kind : Kinds, supported : BOOLEAN, declares : BOOLEAN,
                routine : Origins, level : {0},
                newest : {NoResult} \cup [status : Statuses, of : {"earlier", "own"}]]
  /\ resumed <=> "own" \in {drive.routine, drive.newest.of}
  /\ drive.routine = "own" => drive.newest.of # "own"
  /\ drive.newest.of = "own" => drive.routine = "none"
  /\ Running \/ drive.newest # NoResult => drive.supported
  /\ stage = "idle"
  /\ aborted = FALSE
  /\ reached = FALSE
  /\ answer = Silence
  /\ orphans = {}
  /\ percent = 0
  /\ declared \in BOOLEAN                      \* of the baseline, read some time ago
  /\ declared => parseLongSelfTestMinutes
  /\ knowsScsi \/ drive.kind # "SCSI" => (declared <=> parseLongSelfTestMinutes)
  /\ result = NoResult
  /\ accepted = resumed
  /\ lost = {}

(* CommandRunner.run: a child for the next command. *)
Run(command) == stage' = command /\ reached' = FALSE /\ answer' = Silence

(* An await of #runSelfTestStage leads to the next state of the stage. *)
Goes(next) == stage' = next /\ UNCHANGED <<reached, answer>>

(* The head of the poll loop; an aborted stage leaves it for smartctl -X. *)
LoopHead == Run(IF aborted THEN "stop" ELSE "poll")

Begin ==
  /\ stage = "idle"
  /\ IF resumed THEN LoopHead ELSE Run("start")
  /\ UNCHANGED <<drive, resumed, knowsScsi, aborted, orphans, percent, declared, result, accepted, lost>>

(* Silence, and "can't start", count as a start.  Behind a restart the stage is *)
(* not told that the drive is a SCSI one, and reads nothing again.              *)
StartAnswered(printed) ==
  /\ stage = "start"
  /\ \/ /\ printed.said = "not supported"
        /\ result' = [status |-> "UNSUPPORTED", of |-> "own"]
        /\ Goes("returned")
     \/ /\ printed.said # "not supported"
        /\ IF ~declared /\ knowsScsi /\ drive.kind = "SCSI" THEN Run("reread") ELSE LoopHead
        /\ UNCHANGED result
  /\ UNCHANGED <<percent, declared>>

(* Seeded fault: what the second read says is not used. *)
RereadAnsweredUnused(printed) ==
  /\ stage = "reread"
  /\ LoopHead
  /\ UNCHANGED <<percent, declared, result>>

(* #recoverDeclaredSelfTestMinutes: never throws. *)
RereadAnswered(printed) ==
  /\ stage = "reread"
  /\ declared' = (printed.said = "report" /\ printed.minutes)
  /\ LoopHead
  /\ UNCHANGED <<percent, result>>

(* Behind a poll that found the routine running; no figure shows as 0. *)
Proceed(remaining) ==
  /\ percent' = IF remaining = Null THEN 0 ELSE Done - remaining
  /\ IF aborted THEN Run("stop") ELSE Goes("waiting")
  /\ UNCHANGED <<declared, result>>

(* Seeded fault: a routine that ended while the run was aborted is not told apart. *)
PollAnsweredHasty(printed) ==
  /\ stage = "poll"
  /\ \/ printed.said = "nothing" /\ Goes("threw") /\ UNCHANGED <<percent, declared, result>>
     \/ printed.said = "running" /\ aborted /\ Goes("returned") /\ UNCHANGED <<percent, declared, result>>
     \/ printed.said = "running" /\ ~aborted /\ drive.kind # "SCSI" /\ Proceed(printed.remaining)
     \/ /\ printed.said = "running" /\ ~aborted /\ drive.kind = "SCSI"
        /\ Run("percent")
        /\ UNCHANGED <<percent, declared, result>>
     \/ /\ printed.said = "ended"
        /\ result' = printed.result
        /\ percent' = 0
        /\ IF aborted THEN Run("stop") ELSE Goes("returned")
        /\ UNCHANGED declared

(* Output that is no JSON throws; a SCSI drive is asked for the percentage by a *)
(* second command; a stage aborted meanwhile stops the drive.                   *)
PollAnswered(printed) ==
  /\ stage = "poll"
  /\ \/ printed.said = "nothing" /\ Goes("threw") /\ UNCHANGED <<percent, declared, result>>
     \/ printed.said = "running" /\ drive.kind # "SCSI" /\ Proceed(printed.remaining)
     \/ /\ printed.said = "running" /\ drive.kind = "SCSI"
        /\ Run("percent")
        /\ UNCHANGED <<percent, declared, result>>
     \/ /\ printed.said = "ended"
        /\ result' = printed.result
        /\ percent' = 0
        /\ IF aborted THEN Run("stop") ELSE Goes("returned")
        /\ UNCHANGED declared

(* #readScsiSelfTestRemaining: no figure is no error. *)
PercentAnswered(printed) ==
  /\ stage = "percent"
  /\ Proceed(IF printed.said = "text" THEN printed.remaining ELSE Null)

(* A drive that did not stop, or did not answer, does not hold up the abort. *)
StopAnswered(printed) ==
  /\ stage = "stop"
  /\ Goes("returned")
  /\ UNCHANGED <<percent, declared, result>>

(* The promise of the command in flight resolves. *)
Settles(printed) ==
  /\ \/ StartAnswered(printed) \/ RereadAnswered(printed) \/ PollAnswered(printed)
     \/ PercentAnswered(printed) \/ StopAnswered(printed)
  /\ lost' = IF printed = Silence THEN lost \cup {stage} ELSE lost
  /\ UNCHANGED <<drive, resumed, knowsScsi, aborted, accepted>>

(* The child executes its command, some time before it answers. *)
Reaches ==
  /\ Awaiting
  /\ ~reached
  /\ reached' = TRUE
  /\ answer' = Printed(stage)
  /\ drive' = Effect(stage)
  /\ accepted' = (accepted \/ (stage = "start" /\ drive' # drive))
  /\ UNCHANGED <<resumed, knowsScsi, stage, aborted, orphans, percent, declared, result, lost>>

(* execFile's callback. *)
ChildAnswers == reached /\ Settles(answer) /\ UNCHANGED orphans

(* It exits without a word; smartctl -x may also print JSON that reports nothing. *)
ChildFails ==
  /\ \/ Settles(Silence)
     \/ stage = "poll" /\ Settles([said |-> "ended", result |-> NoResult])
  /\ UNCHANGED orphans

(* A command that only reads has no effect left, and is not told from another. *)
Orphan ==
  [kind |-> IF stage \in {"start", "stop"} THEN stage ELSE "read",
   reached |-> reached \/ stage \notin {"start", "stop"},
   alive |-> TRUE, armed |-> TRUE]

(* Seeded fault (issue #109): polls are given all the time they want. *)
DeadlineExceptPolls ==
  /\ stage # "poll"
  /\ Settles(Silence)
  /\ orphans' = orphans \cup {Orphan}

(* The deadline: SIGTERM, the escalation armed, the promise settled at once. *)
Deadline ==
  /\ Settles(Silence)
  /\ orphans' = orphans \cup {Orphan}

(* A child that was given up on still executes its command. *)
OrphanReaches ==
  \E o \in orphans :
    /\ o.alive
    /\ ~o.reached
    /\ drive' = Effect(o.kind)
    /\ orphans' = (orphans \ {o}) \cup {[o EXCEPT !.reached = TRUE]}
    /\ UNCHANGED <<resumed, knowsScsi, stage, aborted, reached, answer, percent, declared, result, accepted, lost>>

(* child.once("exit", clearTimers): nothing of the child is left. *)
OrphanExits ==
  \E o \in orphans :
    /\ o.alive
    /\ orphans' = orphans \ {o}
    /\ UNCHANGED <<drive, resumed, knowsScsi, stage, aborted, reached, answer, percent, declared, result, accepted, lost>>

(* SIGKILL, which a child blocked in the kernel survives. *)
Escalates ==
  \E o \in orphans :
    /\ o.armed
    /\ orphans' = (orphans \ {o}) \cup {[o EXCEPT !.armed = FALSE]}
    /\ UNCHANGED <<drive, resumed, knowsScsi, stage, aborted, reached, answer, percent, declared, result, accepted, lost>>

(* #waitForNextPoll: the interval passed, or the run was aborted. *)
Wakes ==
  /\ stage = "waiting"
  /\ LoopHead
  /\ UNCHANGED <<drive, resumed, knowsScsi, aborted, orphans, percent, declared, result, accepted, lost>>

Abort ==
  /\ ~aborted
  /\ stage \in Commands \cup {"waiting"}
  /\ aborted' = TRUE
  /\ UNCHANGED <<drive, resumed, knowsScsi, stage, reached, answer, orphans, percent, declared, result, accepted, lost>>

(* The drive gets on with a routine; one ends when it is done, or is broken off. *)
RoutineAdvances ==
  /\ Running
  /\ \/ /\ drive.level < Done
        /\ drive' = [drive EXCEPT !.level = @ + 1]
     \/ \E status \in Statuses :
          /\ status = "ABORTED" \/ drive.level = Done
          /\ drive' = [drive EXCEPT !.routine = "none", !.newest = [status |-> status, of |-> drive.routine]]
  /\ UNCHANGED <<resumed, knowsScsi, stage, aborted, reached, answer, orphans, percent, declared, result, accepted, lost>>

Next ==
  \/ Begin \/ Reaches \/ ChildAnswers \/ ChildFails \/ Deadline \/ Wakes \/ Abort
  \/ OrphanReaches \/ OrphanExits \/ Escalates \/ RoutineAdvances

Spec == Init /\ [][Next]_vars

(* Node's timers fire; neither the drive nor any command is asked for anything. *)
FairSpec == Spec /\ WF_vars(Deadline) /\ WF_vars(Wakes)
-----------------------------------------------------------------------------
Ended == stage \in {"returned", "threw"}

(***************************************************************************)
(* A result the stage returns is that of the routine it started, once the  *)
(* drive took the start: never an older one read while the new one runs,   *)
(* whichever way the kind of drive reports that it runs (realDeviceApi.ts: *)
(* 338-378, smartParser.ts:776-826).                                       *)
(***************************************************************************)
ResultIsOwn == stage = "returned" /\ accepted /\ result.status \in Statuses => result.of = "own"

(***************************************************************************)
(* An aborted stage that has ended leaves the drive at work in three       *)
(* ways only: nothing was heard of smartctl -X; a poll that was under way  *)
(* brought nothing, which throws out of the loop past the -X               *)
(* (engine.ts:1090, 1121); or a start that had missed its deadline took    *)
(* effect behind the -X (engine.ts:1055, 1116-1135, runner.ts:96-109).     *)
(***************************************************************************)
AbortStopsDrive ==
  Ended /\ aborted /\ drive.routine = "own"
    => "stop" \in lost \/ stage = "threw" \/ ("start" \in lost /\ ~accepted)

(***************************************************************************)
(* "Leaving the loop is not enough: [...] an abort that only stops polling *)
(* leaves it grinding for up to ~90 min after the user cancelled"          *)
(* (engine.ts:1116-1118): once the drive took the start in time, unless    *)
(* the -X itself was lost, an aborted stage leaves no routine running.     *)
(***************************************************************************)
AbortReachesDrive ==
  Ended /\ aborted /\ accepted /\ "stop" \notin lost => drive.routine # "own"

(***************************************************************************)
(* A SAS drive that never ran a routine declares its duration only once it *)
(* has started one; the stage knows it before it waits for a poll, unless  *)
(* the second read was lost or a restart lies between the baseline and the *)
(* start (engine.ts:1068-1082).                                            *)
(***************************************************************************)
EtaRecovered ==
  stage = "waiting" /\ accepted /\ (knowsScsi \/ drive.kind # "SCSI") /\ "reread" \notin lost
    => (declared <=> drive.declares)

(***************************************************************************)
(* "Starting the routine writes a log entry, so asking again now gets what *)
(* the baseline read could not see" (engine.ts:1073-1074): a stage that    *)
(* started its routine knows the duration the drive declares, also when a  *)
(* restart lies between the baseline and the start.                        *)
(***************************************************************************)
EtaAfterRestart ==
  stage = "waiting" /\ accepted /\ ~resumed /\ "reread" \notin lost => (declared <=> drive.declares)

(***************************************************************************)
(* An aborted stage ends, though no command ever answers (runner.ts:37-52, *)
(* issue #109).                                                            *)
(***************************************************************************)
AbortedStageEnds == aborted ~> Ended

(***************************************************************************)
(* "What matters is that callers see a failure rather than an empty        *)
(* success" (runner.ts:22-23): a start that hit its deadline is followed   *)
(* by no result of a self-test.                                            *)
(***************************************************************************)
LostStartIsNoResult ==
  stage = "returned" /\ "start" \in lost => result.status \notin {"PASSED", "FAILED"}
=============================================================================
