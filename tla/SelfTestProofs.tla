---------------------------- MODULE SelfTestProofs ----------------------------
(***************************************************************************)
(* The stage of a long self-test, for any number of levels of progress:    *)
(* whose result it returns, what an abort leaves running, and whether the  *)
(* declared duration is known.  Behind the start command nothing decides   *)
(* any more whether the drive took it, and a start that hit its deadline   *)
(* before it reached the drive was not accepted.                           *)
(***************************************************************************)
EXTENDS SelfTest, TLAPS

Reports == [status : Statuses \cup {"UNKNOWN"}, of : Origins]

Drives == [kind : Kinds, supported : BOOLEAN, declares : BOOLEAN, routine : Origins,
           level : Int, newest : Reports]

Typed ==
  /\ drive \in Drives
  /\ resumed \in BOOLEAN /\ knowsScsi \in BOOLEAN /\ accepted \in BOOLEAN
  /\ \A o \in orphans : o \in [kind : {"start", "stop", "read"}, reached : BOOLEAN,
                               alive : BOOLEAN, armed : BOOLEAN]

(* The start command, or nothing yet. *)
Starting == stage \in {"idle", "start"}

(* An accepted routine runs, or is the newest the drive has to report. *)
Owned ==
  accepted => \/ drive.routine = "own"
              \/ drive.routine = "none" /\ drive.newest.of = "own"

(* No start is left behind that could still begin a routine. *)
NoLateStart ==
  /\ Starting => orphans = {}
  /\ accepted => \A o \in orphans : o.kind = "start" => o.reached

(* A routine of this stage that the drive did not take in time is that of a   *)
(* start that was given up on.                                                *)
LateStart ==
  /\ \A o \in orphans : o.kind = "start" => "start" \in lost
  /\ drive.routine = "own" => accepted \/ "start" \in lost

(* What became of the start. *)
Began ==
  /\ knowsScsi => ~resumed
  /\ stage = "idle" => (accepted <=> resumed)
  /\ stage = "start" => ~resumed /\ (accepted => reached)
  /\ accepted /\ ~resumed => drive.supported

(* What the command in flight will print. *)
AnswerTrue ==
  reached =>
    /\ stage = "start" /\ answer.said = "not supported" => ~drive.supported
    /\ stage = "reread" /\ accepted =>
         answer.said = "report" /\ (answer.minutes <=> drive.declares)
    /\ stage = "poll" /\ accepted /\ answer.said = "ended" => answer.result.of = "own"

(* A result of a routine is that of the accepted one. *)
ResultOwn ==
  /\ Starting => result.status \notin Statuses
  /\ accepted /\ result.status \in Statuses => result.of = "own"

(* A stop that was carried out has left the drive idle. *)
Stopped ==
  accepted =>
    /\ stage = "stop" /\ reached => drive.routine = "none"
    /\ stage = "returned" /\ aborted /\ "stop" \notin lost => drive.routine = "none"

(* The declared duration is read before the start, or again behind it. *)
DeclaredKnown ==
  /\ stage = "reread" => drive.kind = "SCSI"
  /\ drive.kind # "SCSI" => (declared <=> drive.declares)
  /\ Starting => (declared => drive.declares)
  /\ ~Starting /\ stage # "reread" /\ accepted /\ knowsScsi /\ "reread" \notin lost =>
       (declared <=> drive.declares)

StageInv ==
  Typed /\ Owned /\ NoLateStart /\ LateStart /\ Began /\ AnswerTrue /\ ResultOwn /\ Stopped /\ DeclaredKnown

LEMMA InitStageInv == Init => StageInv
<1> SUFFICES ASSUME Init PROVE StageInv
  OBVIOUS
<1>1. Typed
  BY DEF Init, Typed, Drives, Reports, NoResult, Statuses, Origins
<1>2. DeclaredKnown
  BY DEF Init, DeclaredKnown, Starting, parseLongSelfTestMinutes
<1>3. Owned /\ NoLateStart /\ LateStart /\ Began /\ AnswerTrue /\ Stopped
  BY DEF Init, Owned, NoLateStart, LateStart, Starting, Began, AnswerTrue, Stopped, Running, Origins
<1>4. ResultOwn
  BY DEF Init, ResultOwn, NoResult, Statuses
<1>5. QED
  BY <1>1, <1>2, <1>3, <1>4 DEF StageInv

(* What a command does to the drive. *)
LEMMA EffectOf ==
  ASSUME Typed, NEW command
  PROVE  /\ Effect(command) \in Drives
         /\ Effect(command).kind = drive.kind
         /\ Effect(command).supported = drive.supported
         /\ Effect(command).declares = drive.declares
         /\ command = "start" /\ Effect(command) # drive =>
              drive.supported /\ Effect(command).routine = "own"
         /\ command = "stop" => Effect(command).routine = "none"
         /\ Effect(command).routine = "own" => drive.routine = "own" \/ command = "start"
         /\ command \notin {"start", "stop"} => Effect(command) = drive
         /\ drive.routine = "own" \/ (drive.routine = "none" /\ drive.newest.of = "own") =>
              \/ Effect(command).routine = "own"
              \/ Effect(command).routine = "none" /\ Effect(command).newest.of = "own"
<1> DEFINE d == Effect(command)
<1>0. drive \in Drives
  BY DEF Typed
<1>1. CASE command = "start" /\ drive.supported /\ ~Running
  <2>1. d = [drive EXCEPT !.routine = "own", !.level = 0]
    BY <1>1 DEF Effect
  <2> HIDE DEF d
  <2>2. d \in Drives
    <3>1. "own" \in Origins /\ 0 \in Int
      BY DEF Origins
    <3> HIDE DEF Origins
    <3>2. QED
      BY <1>0, <2>1, <3>1 DEF Drives
  <2>3. /\ d.kind = drive.kind /\ d.supported = drive.supported /\ d.declares = drive.declares
        /\ d.routine = "own"
    BY <1>0, <2>1 DEF Drives
  <2>4. QED
    BY <1>1, <2>2, <2>3 DEF d
<1>2. CASE command = "stop" /\ Running
  <2>1. d = [drive EXCEPT !.routine = "none",
                          !.newest = [status |-> "ABORTED", of |-> drive.routine]]
    BY <1>2 DEF Effect
  <2> HIDE DEF d
  <2>2. [status |-> "ABORTED", of |-> drive.routine] \in Reports
    BY <1>0 DEF Drives, Reports, Statuses
  <2>3. d \in Drives
    BY <1>0, <2>1, <2>2 DEF Drives, Origins
  <2>4. /\ d.kind = drive.kind /\ d.supported = drive.supported /\ d.declares = drive.declares
        /\ d.routine = "none" /\ d.newest.of = drive.routine
    BY <1>0, <2>1 DEF Drives
  <2>5. drive.routine # "none"
    BY <1>2 DEF Running
  <2>6. QED
    BY <1>2, <2>3, <2>4, <2>5 DEF d
<1>3. CASE ~(command = "start" /\ drive.supported /\ ~Running) /\ ~(command = "stop" /\ Running)
  <2>1. d = drive
    BY <1>3 DEF Effect
  <2> HIDE DEF d
  <2>2. QED
    BY <1>0, <1>3, <2>1 DEF Running, d
<1>4. QED
  BY <1>1, <1>2, <1>3

LEMMA ReachesStep ==
  ASSUME StageInv, Reaches
  PROVE  StageInv'
<1>1. /\ Awaiting /\ ~reached /\ reached' /\ answer' = Printed(stage) /\ drive' = Effect(stage)
      /\ accepted' = (accepted \/ (stage = "start" /\ drive' # drive))
      /\ UNCHANGED <<resumed, knowsScsi, stage, aborted, orphans, percent, declared, result, lost>>
  BY DEF Reaches
<1>2. Typed
  BY DEF StageInv
<1>3. Typed'
  BY <1>1, <1>2, EffectOf DEF Typed
<1>4. Owned'
  BY <1>1, <1>2, EffectOf DEF StageInv, Owned
<1>5. NoLateStart' /\ LateStart' /\ Began'
  <2>1. NoLateStart' /\ Began'
    BY <1>1, <1>2, EffectOf DEF StageInv, NoLateStart, Starting, Began, Typed
  <2>2. LateStart'
    BY <1>1, <1>2, EffectOf DEF StageInv, LateStart
  <2>3. QED
    BY <2>1, <2>2
<1>6. AnswerTrue'
  <2>1. ASSUME stage = "start", Printed(stage).said = "not supported"
        PROVE  ~drive'.supported
    BY <1>1, <1>2, <2>1, EffectOf DEF Printed
  <2>2. ASSUME stage = "reread", accepted'
        PROVE  answer'.said = "report" /\ (answer'.minutes <=> drive'.declares)
    <3>1. accepted
      BY <1>1, <2>2
    <3>2. answer' = [said |-> "report", minutes |-> parseLongSelfTestMinutes] /\ drive' = drive
      BY <1>1, <1>2, <2>2, EffectOf DEF Printed
    <3>3. parseLongSelfTestMinutes <=> drive.declares
      BY <3>1 DEF StageInv, Owned, parseLongSelfTestMinutes, Running
    <3>4. QED
      BY <3>2, <3>3
  <2>3. ASSUME stage = "poll", accepted', answer'.said = "ended"
        PROVE  answer'.result.of = "own"
    <3>1. accepted /\ answer' = PollReading
      BY <1>1, <2>3 DEF Printed
    <3>2. ~Running /\ answer'.result = parseSelfTest
      BY <2>3, <3>1 DEF PollReading
    <3>3. drive.newest.of = "own"
      BY <3>1, <3>2 DEF StageInv, Owned, Running
    <3>4. QED
      BY <3>2, <3>3 DEF parseSelfTest
  <2>4. QED
    BY <1>1, <2>1, <2>2, <2>3 DEF AnswerTrue
<1>7. ResultOwn'
  BY <1>1 DEF StageInv, ResultOwn, Starting
<1>8. Stopped'
  BY <1>1, <1>2, EffectOf DEF StageInv, Stopped
<1>9. DeclaredKnown'
  BY <1>1, <1>2, EffectOf DEF StageInv, DeclaredKnown, Starting
<1>10. QED
  BY <1>3, <1>4, <1>5, <1>6, <1>7, <1>8, <1>9 DEF StageInv

(* What a promise may resolve to: what the command printed, nothing, or a    *)
(* report that reports nothing.                                              *)
Resolved(printed) ==
  \/ reached /\ printed = answer
  \/ printed = Silence
  \/ stage = "poll" /\ printed = [said |-> "ended", result |-> NoResult]

LEMMA SilenceSays == Silence.said = "nothing"
  BY DEF Silence

LEMMA SettlesStep ==
  ASSUME StageInv, NEW printed, Resolved(printed), Settles(printed),
         orphans' = orphans \/ (printed = Silence /\ orphans' = orphans \cup {Orphan})
  PROVE  StageInv'
<1>1. /\ UNCHANGED <<drive, resumed, knowsScsi, aborted, accepted>>
      /\ lost' = IF printed = Silence THEN lost \cup {stage} ELSE lost
      /\ Typed
  BY DEF Settles, StageInv
<1>2. stage \in Commands
  BY DEF Settles, StartAnswered, RereadAnswered, PollAnswered, PercentAnswered, StopAnswered,
         Commands
<1>3. ~Starting' /\ (stage' \in Commands => ~reached')
  BY DEF Settles, StartAnswered, RereadAnswered, PollAnswered, PercentAnswered, StopAnswered,
         Proceed, LoopHead, Run, Goes, Starting, Commands
<1>4. Typed'
  <2>1. Orphan.kind \in {"start", "stop", "read"} /\ Orphan.reached \in BOOLEAN
    BY DEF Orphan
  <2>2. Orphan \in [kind : {"start", "stop", "read"}, reached : BOOLEAN, alive : BOOLEAN,
                    armed : BOOLEAN]
    BY DEF Orphan
  <2> HIDE DEF Orphan
  <2>3. QED
    BY <1>1, <2>2 DEF Typed
<1>5. Owned'
  BY <1>1 DEF StageInv, Owned
<1>6. NoLateStart'
  <2>1. accepted /\ Orphan.kind = "start" => Orphan.reached
    BY DEF StageInv, Began, Orphan
  <2> HIDE DEF Orphan
  <2>2. QED
    BY <1>1, <1>3, <2>1 DEF StageInv, NoLateStart
<1>7. LateStart'
  <2>1. Orphan.kind = "start" => stage = "start"
    BY DEF Orphan
  <2> HIDE DEF Orphan
  <2>2. QED
    BY <1>1, <2>1 DEF StageInv, LateStart
<1>8. Began' /\ AnswerTrue'
  BY <1>1, <1>3 DEF StageInv, Began, AnswerTrue, Starting, Commands
<1>9. ResultOwn'
  <2>1. CASE StartAnswered(printed)
    <3>1. result.status \notin Statuses
      BY <2>1 DEF StageInv, ResultOwn, StartAnswered, Starting
    <3>2. result' = result \/ result' = [status |-> "UNSUPPORTED", of |-> "own"]
      BY <2>1 DEF StartAnswered
    <3>3. result'.status \notin Statuses
      BY <3>1, <3>2 DEF Statuses
    <3>4. QED
      BY <3>3 DEF ResultOwn
  <2>2. CASE PollAnswered(printed)
    <3>1. CASE result' = result
      BY <1>1, <1>3, <2>2, <3>1 DEF StageInv, ResultOwn, PollAnswered
    <3>2. CASE printed.said = "ended" /\ result' = printed.result
      <4>1. stage = "poll"
        BY <2>2 DEF PollAnswered
      <4>2. CASE reached /\ printed = answer
        BY <1>1, <1>3, <3>2, <4>1, <4>2 DEF StageInv, AnswerTrue, ResultOwn
      <4>3. CASE printed = Silence
        BY <3>2, <4>3 DEF Silence
      <4>4. CASE printed = [said |-> "ended", result |-> NoResult]
        BY <1>3, <3>2, <4>4 DEF ResultOwn, NoResult, Statuses
      <4>5. QED
        BY <4>2, <4>3, <4>4 DEF Resolved
    <3>3. QED
      BY <2>2, <3>1, <3>2 DEF PollAnswered, Proceed
  <2>3. CASE RereadAnswered(printed) \/ PercentAnswered(printed) \/ StopAnswered(printed)
    BY <1>1, <1>3, <2>3 DEF StageInv, ResultOwn, RereadAnswered, PercentAnswered, StopAnswered,
       Proceed, Starting
  <2>4. QED
    BY <2>1, <2>2, <2>3 DEF Settles
<1>10. Stopped'
  <2> SUFFICES ASSUME accepted', stage' = "returned", aborted', "stop" \notin lost'
               PROVE  drive'.routine = "none"
    BY <1>3 DEF Stopped, Commands
  <2>1. accepted /\ aborted /\ "stop" \notin lost
    BY <1>1
  <2>2. CASE StartAnswered(printed)
    <3>1. stage = "start" /\ printed.said = "not supported"
      BY <2>2 DEF StartAnswered, LoopHead, Run
    <3>2. reached /\ printed = answer
      BY <3>1, SilenceSays DEF Resolved
    <3>3. QED
      BY <2>1, <3>1, <3>2 DEF StageInv, Began, AnswerTrue
  <2>3. CASE PollAnswered(printed)
    BY <2>1, <2>3 DEF PollAnswered, Proceed, Run, Goes
  <2>4. CASE RereadAnswered(printed) \/ PercentAnswered(printed)
    BY <2>4 DEF RereadAnswered, PercentAnswered, Proceed, Run, Goes, LoopHead
  <2>5. CASE StopAnswered(printed)
    <3>1. stage = "stop" /\ printed # Silence
      BY <1>1, <2>1, <2>5 DEF StopAnswered
    <3>2. reached
      BY <3>1 DEF Resolved
    <3>3. QED
      BY <1>1, <2>1, <3>1, <3>2 DEF StageInv, Stopped
  <2>6. QED
    BY <2>2, <2>3, <2>4, <2>5 DEF Settles
<1>11. DeclaredKnown'
  <2>1. drive' = drive /\ accepted' = accepted /\ knowsScsi' = knowsScsi
    BY <1>1
  <2>2. (stage' = "reread") => drive.kind = "SCSI"
    BY DEF Settles, StartAnswered, RereadAnswered, PollAnswered, PercentAnswered, StopAnswered,
           Proceed, LoopHead, Run, Goes
  <2>3. drive.kind # "SCSI" => declared' = declared
    BY DEF Settles, StartAnswered, RereadAnswered, PollAnswered, PercentAnswered, StopAnswered,
           Proceed, StageInv, DeclaredKnown
  <2>4. ASSUME stage' # "reread", accepted, knowsScsi, "reread" \notin lost'
        PROVE  declared' <=> drive.declares
    <3>0. "reread" \notin lost
      BY <1>1, <2>4
    <3>1. CASE StartAnswered(printed)
      <4>1. stage = "start" /\ declared' = declared
        BY <3>1 DEF StartAnswered
      <4>2. CASE printed.said = "not supported"
        <5>1. reached /\ printed = answer
          BY <4>1, <4>2, SilenceSays DEF Resolved
        <5>2. QED
          BY <2>4, <4>1, <4>2, <5>1 DEF StageInv, Began, AnswerTrue
      <4>3. CASE printed.said # "not supported"
        <5>1. declared \/ drive.kind # "SCSI"
          BY <2>4, <3>1, <4>3 DEF StartAnswered, Run
        <5>2. QED
          BY <4>1, <5>1 DEF StageInv, DeclaredKnown, Starting
      <4>4. QED
        BY <4>2, <4>3
    <3>2. CASE RereadAnswered(printed)
      <4>1. stage = "reread" /\ printed # Silence
        BY <1>1, <2>4, <3>2 DEF RereadAnswered
      <4>2. reached /\ printed = answer
        BY <4>1 DEF Resolved
      <4>3. answer.said = "report" /\ (answer.minutes <=> drive.declares)
        BY <2>4, <4>1, <4>2 DEF StageInv, AnswerTrue
      <4>4. QED
        BY <3>2, <4>2, <4>3 DEF RereadAnswered
    <3>3. CASE PollAnswered(printed) \/ PercentAnswered(printed) \/ StopAnswered(printed)
      <4>1. declared' = declared /\ ~Starting /\ stage # "reread"
        BY <3>3 DEF PollAnswered, PercentAnswered, StopAnswered, Proceed, Starting
      <4>2. QED
        BY <2>4, <3>0, <4>1 DEF StageInv, DeclaredKnown
    <3>4. QED
      BY <3>1, <3>2, <3>3 DEF Settles
  <2>5. QED
    BY <1>3, <2>1, <2>2, <2>3, <2>4 DEF StageInv, DeclaredKnown
<1>12. QED
  BY <1>4, <1>5, <1>6, <1>7, <1>8, <1>9, <1>10, <1>11 DEF StageInv

(* The steps of the stage that answer no command. *)
LEMMA StageStep ==
  ASSUME StageInv, Begin \/ Wakes \/ Abort
  PROVE  StageInv'
<1>1. /\ UNCHANGED <<drive, resumed, knowsScsi, orphans, percent, declared, result, accepted, lost>>
      /\ Typed
  BY DEF Begin, Wakes, Abort, StageInv
<1>2. Typed' /\ Owned' /\ LateStart'
  BY <1>1 DEF StageInv, Typed, Owned, LateStart
<1>3. CASE Begin \/ Wakes
  <2>1. stage' \in Commands /\ ~reached'
    BY <1>3 DEF Begin, Wakes, LoopHead, Run, Commands
  <2>2. /\ stage' = "start" => stage = "idle" /\ ~resumed
        /\ ~Starting' => stage # "idle" \/ resumed
        /\ Starting' => Starting
        /\ Starting => stage = "idle"
        /\ stage' # "reread" /\ stage # "reread"
    BY <1>3 DEF Begin, Wakes, LoopHead, Run, Starting
  <2>3. NoLateStart'
    BY <1>1, <2>2 DEF StageInv, NoLateStart
  <2>4. Began' /\ AnswerTrue'
    BY <1>1, <2>1, <2>2 DEF StageInv, Began, AnswerTrue, Commands
  <2>5. ResultOwn'
    BY <1>1, <2>2 DEF StageInv, ResultOwn
  <2>6. Stopped'
    BY <2>1 DEF Stopped, Commands
  <2>7. DeclaredKnown'
    BY <1>1, <2>2 DEF StageInv, DeclaredKnown, Began, Starting
  <2>8. QED
    BY <1>2, <2>3, <2>4, <2>5, <2>6, <2>7 DEF StageInv
<1>4. CASE Abort
  <2>1. UNCHANGED <<stage, reached, answer>> /\ stage # "returned"
    BY <1>4 DEF Abort, Commands
  <2>2. QED
    BY <1>1, <1>2, <2>1
    DEF StageInv, NoLateStart, Starting, Began, AnswerTrue, ResultOwn, Stopped, DeclaredKnown
<1>5. QED
  BY <1>3, <1>4

(* The steps of a child that was given up on, and of the drive itself. *)
LEMMA AsideStep ==
  ASSUME StageInv, OrphanReaches \/ OrphanExits \/ Escalates \/ RoutineAdvances
  PROVE  StageInv'
<1>1. /\ UNCHANGED <<resumed, knowsScsi, stage, aborted, reached, answer, percent, declared,
                     result, accepted, lost>>
      /\ Typed
  BY DEF OrphanReaches, OrphanExits, Escalates, RoutineAdvances, StageInv
<1>2. /\ drive' \in Drives /\ drive'.kind = drive.kind /\ drive'.supported = drive.supported
      /\ drive'.declares = drive.declares
      /\ accepted => /\ drive'.routine = "own" \/ (drive'.routine = "none" /\ drive'.newest.of = "own")
                     /\ drive.routine = "none" => drive'.routine = "none"
      /\ drive'.routine = "own" => drive.routine = "own" \/ "start" \in lost
  <2>1. CASE OrphanReaches
    <3>1. PICK o \in orphans : ~o.reached /\ drive' = Effect(o.kind)
      BY <2>1 DEF OrphanReaches
    <3>2. accepted => o.kind # "start"
      BY <3>1 DEF StageInv, NoLateStart
    <3>3. o.kind \in {"start", "stop", "read"}
      BY <1>1 DEF Typed
    <3>4. o.kind # "start" => Effect(o.kind).routine \in {drive.routine, "none"}
      BY <1>1, <3>3, EffectOf
    <3>5. drive'.routine = "own" => drive.routine = "own" \/ "start" \in lost
      BY <1>1, <3>1, EffectOf DEF StageInv, LateStart
    <3>6. QED
      BY <1>1, <3>1, <3>2, <3>3, <3>4, <3>5, EffectOf DEF StageInv, Owned
  <2>2. CASE OrphanExits \/ Escalates
    BY <1>1, <2>2 DEF OrphanExits, Escalates, Typed, StageInv, Owned
  <2>3. CASE RoutineAdvances
    <3>1. drive \in Drives /\ drive.routine # "none"
      BY <1>1, <2>3 DEF RoutineAdvances, Running, Typed
    <3>2. CASE drive' = [drive EXCEPT !.level = @ + 1]
      BY <3>1, <3>2 DEF Drives, StageInv, Owned
    <3>3. ASSUME NEW status \in Statuses,
                 drive' = [drive EXCEPT !.routine = "none",
                                        !.newest = [status |-> status, of |-> drive.routine]]
          PROVE  /\ drive' \in Drives /\ drive'.kind = drive.kind
                 /\ drive'.supported = drive.supported /\ drive'.declares = drive.declares
                 /\ drive'.routine = "none" /\ drive'.newest.of = drive.routine
      <4>1. [status |-> status, of |-> drive.routine] \in Reports
        BY <3>1 DEF Drives, Reports
      <4>2. drive' \in Drives
        BY <3>1, <3>3, <4>1 DEF Drives, Origins
      <4>3. QED
        BY <3>1, <3>3, <4>2 DEF Drives
    <3>4. QED
      BY <2>3, <3>1, <3>2, <3>3 DEF RoutineAdvances, StageInv, Owned
  <2>4. QED
    BY <2>1, <2>2, <2>3
<1>3. /\ \A o \in orphans' : o \in [kind : {"start", "stop", "read"}, reached : BOOLEAN,
                                    alive : BOOLEAN, armed : BOOLEAN]
      /\ orphans = {} => orphans' = {}
      /\ (\A o \in orphans : o.kind = "start" => o.reached)
           => (\A o \in orphans' : o.kind = "start" => o.reached)
      /\ (\A o \in orphans : o.kind = "start" => "start" \in lost)
           => (\A o \in orphans' : o.kind = "start" => "start" \in lost)
  <2>1. CASE OrphanReaches
    <3>1. PICK o \in orphans : orphans' = (orphans \ {o}) \cup {[o EXCEPT !.reached = TRUE]}
      BY <2>1 DEF OrphanReaches
    <3>2. QED
      BY <1>1, <3>1 DEF Typed
  <2>2. CASE OrphanExits
    BY <1>1, <2>2 DEF OrphanExits, Typed
  <2>3. CASE Escalates
    <3>1. PICK o \in orphans : orphans' = (orphans \ {o}) \cup {[o EXCEPT !.armed = FALSE]}
      BY <2>3 DEF Escalates
    <3>2. QED
      BY <1>1, <3>1 DEF Typed
  <2>4. CASE RoutineAdvances
    BY <1>1, <2>4 DEF RoutineAdvances, Typed
  <2>5. QED
    BY <2>1, <2>2, <2>3, <2>4
<1>4. Typed' /\ Owned'
  BY <1>1, <1>2, <1>3 DEF Typed, Owned
<1>5. NoLateStart' /\ LateStart' /\ Began'
  BY <1>1, <1>2, <1>3 DEF StageInv, NoLateStart, LateStart, Starting, Began
<1>6. AnswerTrue' /\ ResultOwn'
  BY <1>1, <1>2 DEF StageInv, AnswerTrue, ResultOwn, Starting
<1>7. Stopped' /\ DeclaredKnown'
  BY <1>1, <1>2 DEF StageInv, Stopped, DeclaredKnown, Starting
<1>8. QED
  BY <1>4, <1>5, <1>6, <1>7 DEF StageInv

LEMMA StageInvStep ==
  ASSUME StageInv, [Next]_vars
  PROVE  StageInv'
<1>1. CASE Begin \/ Wakes \/ Abort
  BY <1>1, StageStep
<1>2. CASE Reaches
  BY <1>2, ReachesStep
<1>3. CASE ChildAnswers
  BY <1>3, SettlesStep DEF ChildAnswers, Resolved
<1>4. CASE ChildFails
  <2>1. CASE Settles(Silence)
    BY <1>4, <2>1, SettlesStep DEF ChildFails, Resolved
  <2>2. CASE stage = "poll" /\ Settles([said |-> "ended", result |-> NoResult])
    BY <1>4, <2>2, SettlesStep DEF ChildFails, Resolved
  <2>3. QED
    BY <1>4, <2>1, <2>2 DEF ChildFails
<1>5. CASE Deadline
  BY <1>5, SettlesStep DEF Deadline, Resolved
<1>6. CASE OrphanReaches \/ OrphanExits \/ Escalates \/ RoutineAdvances
  BY <1>6, AsideStep
<1>7. CASE UNCHANGED vars
  BY <1>7 DEF vars, StageInv, Typed, Owned, NoLateStart, LateStart, Starting, Began, AnswerTrue, ResultOwn,
              Stopped, DeclaredKnown
<1>8. QED
  BY <1>1, <1>2, <1>3, <1>4, <1>5, <1>6, <1>7 DEF Next

LEMMA StageKept == Spec => []StageInv
  BY InitStageInv, StageInvStep, PTL DEF Spec

(* A result the stage returns is that of the routine it started, once the    *)
(* drive took the start, for every kind of drive and however its commands    *)
(* fail or hang (realDeviceApi.ts:338-378, smartParser.ts:776-826).          *)
THEOREM OwnResult == Spec => []ResultIsOwn
<1>1. StageInv => ResultIsOwn
  BY DEF StageInv, ResultOwn, ResultIsOwn
<1>2. QED
  BY <1>1, StageKept, PTL

(* An aborted stage that has ended leaves its routine running in three ways  *)
(* only: nothing was heard of smartctl -X; a poll that brought nothing threw *)
(* out of the loop past it (engine.ts:1090, 1121); or a start that had       *)
(* missed its deadline executed behind it (engine.ts:1055, 1116-1135).       *)
THEOREM AbortStops == Spec => []AbortStopsDrive
<1>1. StageInv => AbortStopsDrive
  BY DEF StageInv, Stopped, LateStart, AbortStopsDrive, Ended
<1>2. QED
  BY <1>1, StageKept, PTL

(* A SAS drive that declares its duration only once it has started a routine *)
(* has it known before the first wait, unless the second read was lost or a  *)
(* restart lies between the baseline and the start (engine.ts:1068-1082).    *)
THEOREM DurationRecovered == Spec => []EtaRecovered
<1>1. StageInv => EtaRecovered
  BY DEF StageInv, DeclaredKnown, Starting, EtaRecovered
<1>2. QED
  BY <1>1, StageKept, PTL

=============================================================================
