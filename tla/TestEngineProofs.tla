-------------------------- MODULE TestEngineProofs --------------------------
(***************************************************************************)
(* For any number of drives, callers, runs, permits, crashes and faults:   *)
(*   - the engine is type-correct, never works on two runs of one drive,   *)
(*     never leaks or frees a reservation early, and conserves permits;    *)
(*   - a restart forgets no run, and badblocks starts only on a drive that *)
(*     was probed free;                                                    *)
(*   - the engine implements RunRegistry: every step, mapped by            *)
(*     dispatched <- controllers, is a step of the registry or a stutter;  *)
(*   - the engine with the auto-mode poller is the engine, and the poller  *)
(*     starts a drive once per process.                                    *)
(* All but the last are about TestEngine's Spec; AutoMode, the composition *)
(* with the poller, extends it.                                            *)
(***************************************************************************)
EXTENDS AutoMode, FiniteSetTheorems, TLAPS

SemP == INSTANCE SemaphoreProofs WITH Tasks <- RunIds, Max <- Concurrency

Working == {"resolve", "early", "recheck", "surface", "late"}

(* The drives with a task. *)
Owned == {driveOf[r] : r \in controllers}

(* A run has a task exactly while it has a controller, the task holds a  *)
(* permit when it is past the semaphore, and its row is unfinished.      *)
TasksMatch ==
  \A r \in RunIds :
    /\ pc[r] # "idle" <=> r \in controllers
    /\ pc[r] \in Working => r \in holders
    /\ r \in controllers => driveOf[r] \in Serials /\ status[r] \in Active

(* A serial a caller awaits is awaited by it alone and has no task. *)
AwaitedOnce ==
  \A c \in Callers :
    awaiting[c] # None =>
      /\ awaiting[c] \notin Owned
      /\ \A d \in Callers : awaiting[d] = awaiting[c] => d = c

(* A drive with an abandoned badblocks has no task; none exists at boot. *)
AbandonedApart ==
  /\ abandoned \cap Owned = {}
  /\ ~Serving => abandoned = {}

(* A run that has a status has a drive. *)
RowsMatch == \A r \in RunIds : status[r] # None => driveOf[r] \in Serials

Queued == holders \cup Sem!Waiting = controllers

IInv ==
  /\ TypeOK
  /\ SemP!SemInv
  /\ Queued
  /\ RowsMatch
  /\ TasksMatch
  /\ OneRunPerDrive
  /\ AwaitedOnce
  /\ ReservationsMatch
  /\ AbandonedApart

(* What an operation on the semaphore does to the set of tasks in it. *)
LEMMA AcquireEffect ==
  ASSUME SemP!SemInv, NEW r \in RunIds, r \notin holders \cup Sem!Waiting, Sem!Acquire(r)
  PROVE  /\ SemP!SemInv'
         /\ Sem!SemTypeOK'
         /\ (holders \cup Sem!Waiting)' = holders \cup Sem!Waiting \cup {r}
         /\ holders \subseteq holders'
<1>1. r \notin holders \cup SemP!Waiting /\ SemP!Acquire(r)
  BY DEF Sem!Waiting, SemP!Waiting, Sem!Acquire, SemP!Acquire
<1>2. /\ SemP!SemInv'
      /\ (holders \cup SemP!Waiting)' = holders \cup SemP!Waiting \cup {r}
      /\ holders \subseteq holders'
  BY <1>1, SemP!AcquireStep, SizesAssumption
<1>3. QED
  BY <1>2 DEF Sem!Waiting, SemP!Waiting, SemP!SemInv, SemP!SemTypeOK, Sem!SemTypeOK

LEMMA ReleaseEffect ==
  ASSUME SemP!SemInv, NEW r \in RunIds, Sem!Release(r)
  PROVE  /\ SemP!SemInv'
         /\ Sem!SemTypeOK'
         /\ (holders \cup Sem!Waiting)' = (holders \cup Sem!Waiting) \ {r}
         /\ holders \ {r} \subseteq holders'
<1>1. SemP!Release(r)
  BY DEF Sem!Release, SemP!Release
<1>2. /\ SemP!SemInv'
      /\ (holders \cup SemP!Waiting)' = (holders \cup SemP!Waiting) \ {r}
      /\ holders \ {r} \subseteq holders'
  BY <1>1, SemP!ReleaseStep, SizesAssumption
<1>3. QED
  BY <1>2 DEF Sem!Waiting, SemP!Waiting, SemP!SemInv, SemP!SemTypeOK, Sem!SemTypeOK

(* Steps that leave the semaphore alone leave its invariant alone. *)
LEMMA SemUnchanged ==
  ASSUME SemP!SemInv, Queued, UNCHANGED <<sem, controllers>>
  PROVE  SemP!SemInv' /\ Sem!SemTypeOK' /\ Queued'
<1>1. UNCHANGED <<available, queue, holders, controllers>>
  BY DEF sem
<1>2. QED
  BY <1>1
  DEF SemP!SemInv, SemP!SemTypeOK, Sem!SemTypeOK, SemP!PermitsConserved, SemP!NoIdlePermit,
      SemP!Waiting, SemP!NoDuplicates, Queued, Sem!Waiting

LEMMA InitIInv == Init => IInv
<1> SUFFICES ASSUME Init PROVE IInv
  OBVIOUS
<1>1. SemP!SemInv
  <2>1. SemP!SemInit
    BY DEF Init, Sem!SemInit, SemP!SemInit
  <2>2. QED
    BY <2>1, SemP!InitSemInv, SizesAssumption
<1>2. Sem!SemTypeOK /\ Queued
  BY <1>1 DEF SemP!SemInv, SemP!SemTypeOK, Sem!SemTypeOK, Queued, Init, Sem!SemInit, Sem!Waiting
<1>3. TypeOK
  <2>1. /\ status \in [RunIds -> Active \cup Terminal \cup {None}]
        /\ driveOf \in [RunIds -> Serials \cup {None}]
        /\ awaiting \in [Callers -> Serials \cup {None}]
        /\ up \in BOOLEAN
    BY DEF Init
  <2>2. /\ stage \in [RunIds -> Stages]
        /\ pc \in [RunIds -> Awaits]
        /\ drive \in [Serials -> DriveStates]
    BY DEF Init, Stages, Awaits, DriveStates
  <2>3. cursor \in 0..MaxRuns /\ crashes \in 0..MaxCrashes /\ faults \in 0..MaxFaults
    BY SizesAssumption DEF Init
  <2>4. QED
    BY <1>2, <2>1, <2>2, <2>3 DEF Init, TypeOK
<1>4. RowsMatch /\ TasksMatch /\ OneRunPerDrive /\ AwaitedOnce
  BY DEF Init, RowsMatch, TasksMatch, OneRunPerDrive, AwaitedOnce, Working
<1>5. ReservationsMatch
  BY DEF Init, ReservationsMatch
<1>6. AbandonedApart
  BY DEF Init, AbandonedApart
<1>7. QED
  BY <1>1, <1>2, <1>3, <1>4, <1>5, <1>6 DEF IInv

(* A task that ends: its run leaves, every other task stays as it was. *)
LEMMA LeaveKeepsIInv ==
  ASSUME IInv, NEW r \in RunIds, Leave(r), Serving,
         UNCHANGED <<driveOf, up, cursor, awaiting>>,
         \A q \in RunIds \ {r} : status'[q] = status[q],
         abandoned' \subseteq abandoned \cup {driveOf[r]},
         TypeOK'
  PROVE  IInv'
<1> USE DEF IInv
<1>1. /\ controllers' = controllers \ {r}
      /\ activeSerials' = activeSerials \ {driveOf[r]}
      /\ pc' = [pc EXCEPT ![r] = "idle"]
      /\ Sem!Release(r)
  BY DEF Leave
<1>2. r \in holders /\ r \in controllers
  BY <1>1 DEF Sem!Release, Queued
<1>3. /\ SemP!SemInv'
      /\ Queued'
      /\ holders \ {r} \subseteq holders'
  BY <1>1, ReleaseEffect DEF Queued
<1>4. TasksMatch'
  BY <1>1, <1>3 DEF TasksMatch, TypeOK, Working
<1>5. OneRunPerDrive' /\ RowsMatch'
  BY <1>1, <1>2 DEF OneRunPerDrive, RowsMatch, TasksMatch
<1>6. Owned' = Owned \ {driveOf[r]}
  BY <1>1, <1>2 DEF Owned, OneRunPerDrive
<1>7. AwaitedOnce'
  BY <1>6 DEF AwaitedOnce
<1>8. ReservationsMatch'
  <2>1. driveOf[r] \notin {awaiting[c] : c \in Callers} \ {None}
    BY <1>2 DEF AwaitedOnce, Owned
  <2>2. activeSerials = ({awaiting[c] : c \in Callers} \ {None}) \cup Owned
    BY DEF ReservationsMatch, Owned
  <2>3. QED
    BY <1>1, <1>6, <2>1, <2>2 DEF ReservationsMatch, Owned
<1>9. AbandonedApart'
  BY <1>6 DEF AbandonedApart, Serving
<1>10. QED
  BY <1>3, <1>4, <1>5, <1>7, <1>8, <1>9

(* Writing a terminal status and leaving. *)
LEMMA SettleKeepsIInv ==
  ASSUME IInv, NEW r \in RunIds, NEW outcome \in Terminal, Settle(r, outcome), Serving,
         abandoned' \subseteq abandoned \cup {driveOf[r]}
  PROVE  IInv'
<1>1. /\ status' = [status EXCEPT ![r] = outcome]
      /\ terminalRuns' = terminalRuns \cup {r}
      /\ Leave(r)
      /\ UNCHANGED <<driveOf, stage, up, cursor, awaiting, drive, crashes, faults>>
  BY DEF Settle, budget
<1>2. r \in controllers /\ driveOf[r] \in Serials
  BY <1>1 DEF IInv, Leave, Sem!Release, Queued, TasksMatch
<1>3. Sem!SemTypeOK'
  BY <1>1, ReleaseEffect DEF IInv, Leave
<1>4. TypeOK'
  <2>1. status' \in [RunIds -> Active \cup Terminal \cup {None}]
    BY <1>1 DEF IInv, TypeOK
  <2>2. pc' \in [RunIds -> Awaits]
    BY <1>1 DEF IInv, TypeOK, Leave, Awaits
  <2>3. QED
    BY <1>1, <1>2, <1>3, <2>1, <2>2 DEF IInv, TypeOK, Leave
<1>5. \A q \in RunIds \ {r} : status'[q] = status[q]
  BY <1>1 DEF IInv, TypeOK
<1>6. QED
  BY <1>1, <1>4, <1>5, LeaveKeepsIInv

(* Going on to the next await. *)
LEMMA ProceedKeepsIInv ==
  ASSUME IInv, NEW r \in RunIds, NEW at \in Stages, NEW where \in Working,
         Proceed(r, "RUNNING", at, where), r \in holders, UNCHANGED abandoned
  PROVE  IInv'
<1>1. /\ status' = [status EXCEPT ![r] = "RUNNING"]
      /\ stage' = [stage EXCEPT ![r] = at]
      /\ pc' = [pc EXCEPT ![r] = where]
      /\ UNCHANGED <<driveOf, up, cursor, awaiting, activeSerials, controllers,
                     aborted, terminalRuns, sem, drive, crashes, faults, abandoned>>
  BY DEF Proceed, budget
<1>2. UNCHANGED <<available, queue, holders>>
  BY <1>1 DEF sem
<1>3. SemP!SemInv' /\ Sem!SemTypeOK' /\ Queued'
  BY <1>1, SemUnchanged DEF IInv
<1>4. TypeOK'
  <2>1. status' \in [RunIds -> Active \cup Terminal \cup {None}]
    BY <1>1 DEF IInv, TypeOK, Active
  <2>2. pc' \in [RunIds -> Awaits] /\ stage' \in [RunIds -> Stages]
    BY <1>1 DEF IInv, TypeOK, Awaits, Working
  <2>3. QED
    BY <1>1, <1>3, <2>1, <2>2 DEF IInv, TypeOK
<1>5. r \in controllers
  BY DEF IInv, Queued
<1>6. TasksMatch' /\ RowsMatch'
  BY <1>1, <1>2, <1>5 DEF IInv, TypeOK, TasksMatch, RowsMatch, Working, Active
<1>7. OneRunPerDrive' /\ AwaitedOnce' /\ ReservationsMatch' /\ AbandonedApart'
  BY <1>1 DEF IInv, OneRunPerDrive, AwaitedOnce, ReservationsMatch, AbandonedApart, Owned, Serving
<1>8. QED
  BY <1>3, <1>4, <1>6, <1>7 DEF IInv

(* A caller reserves a drive nobody has. *)
LEMMA CallStartKeepsIInv ==
  ASSUME IInv, NEW c \in Callers, NEW s \in Serials, CallStart(c, s)
  PROVE  IInv'
<1>1. /\ s \notin activeSerials
      /\ awaiting[c] = None
      /\ Serving
      /\ activeSerials' = activeSerials \cup {s}
      /\ awaiting' = [awaiting EXCEPT ![c] = s]
      /\ UNCHANGED <<driveOf, status, stage, up, cursor, controllers, aborted,
                     terminalRuns, pc, sem, drive, abandoned, crashes, faults>>
  BY DEF CallStart, durable, world, budget
<1>2. UNCHANGED <<available, queue, holders>>
  BY <1>1 DEF sem
<1>3. SemP!SemInv' /\ Sem!SemTypeOK' /\ Queued'
  BY <1>1, SemUnchanged DEF IInv
<1>4. TypeOK'
  BY <1>1, <1>3 DEF IInv, TypeOK
<1>5. RowsMatch' /\ TasksMatch' /\ OneRunPerDrive' /\ AbandonedApart'
  BY <1>1, <1>2 DEF IInv, RowsMatch, TasksMatch, OneRunPerDrive, AbandonedApart, Owned, Serving
<1>6. s \notin Owned /\ \A d \in Callers : awaiting[d] # s
  BY <1>1, SerialsAssumption DEF IInv, ReservationsMatch, Owned
<1>7. AwaitedOnce'
  BY <1>1, <1>6, SerialsAssumption DEF IInv, TypeOK, AwaitedOnce, Owned
<1>8. ReservationsMatch'
  <2>1. {awaiting'[d] : d \in Callers} \ {None} = ({awaiting[d] : d \in Callers} \ {None}) \cup {s}
    BY <1>1, SerialsAssumption DEF IInv, TypeOK
  <2>2. QED
    BY <1>1, <2>1 DEF IInv, ReservationsMatch
<1>9. QED
  BY <1>3, <1>4, <1>5, <1>7, <1>8 DEF IInv

(* A caller stops awaiting: its serial is the only one that leaves. *)
LEMMA AwaitEnds ==
  ASSUME IInv, NEW c \in Callers, awaiting[c] # None,
         awaiting' = [awaiting EXCEPT ![c] = None]
  PROVE  /\ {awaiting'[d] : d \in Callers} \ {None}
              = ({awaiting[d] : d \in Callers} \ {None}) \ {awaiting[c]}
         /\ \A d \in Callers : awaiting'[d] # None => awaiting'[d] = awaiting[d] /\ d # c
         /\ awaiting[c] \in Serials /\ awaiting[c] \in activeSerials
<1>1. /\ awaiting[c] \in Serials
      /\ awaiting[c] \in activeSerials
  BY DEF IInv, TypeOK, ReservationsMatch
<1>2. \A d \in Callers : awaiting'[d] = IF d = c THEN None ELSE awaiting[d]
  BY DEF IInv, TypeOK
<1>3. \A d \in Callers : awaiting[d] = awaiting[c] => d = c
  BY DEF IInv, AwaitedOnce
<1>4. QED
  BY <1>1, <1>2, <1>3

(* The catch of startRun. *)
LEMMA StartRejectedKeepsIInv ==
  ASSUME IInv, NEW c \in Callers, StartRejected(c)
  PROVE  IInv'
<1>1. /\ awaiting[c] # None
      /\ activeSerials' = activeSerials \ {awaiting[c]}
      /\ awaiting' = [awaiting EXCEPT ![c] = None]
      /\ UNCHANGED <<driveOf, status, stage, up, cursor, controllers, aborted,
                     terminalRuns, pc, sem, drive, abandoned, crashes, faults>>
  BY DEF StartRejected, durable, world, budget
<1>2. UNCHANGED <<available, queue, holders>>
  BY <1>1 DEF sem
<1>3. SemP!SemInv' /\ Sem!SemTypeOK' /\ Queued'
  BY <1>1, SemUnchanged DEF IInv
<1>4. TypeOK'
  BY <1>1, <1>3 DEF IInv, TypeOK
<1>5. RowsMatch' /\ TasksMatch' /\ OneRunPerDrive' /\ AbandonedApart'
  BY <1>1, <1>2 DEF IInv, RowsMatch, TasksMatch, OneRunPerDrive, AbandonedApart, Owned, Serving
<1>6. AwaitedOnce'
  BY <1>1, AwaitEnds DEF IInv, AwaitedOnce, Owned
<1>7. ReservationsMatch'
  <2>1. awaiting[c] \notin Owned
    BY <1>1 DEF IInv, AwaitedOnce
  <2>2. {awaiting'[d] : d \in Callers} \ {None}
          = ({awaiting[d] : d \in Callers} \ {None}) \ {awaiting[c]}
    BY <1>1, AwaitEnds
  <2>3. activeSerials = ({awaiting[d] : d \in Callers} \ {None}) \cup Owned
    BY DEF IInv, ReservationsMatch, Owned
  <2>4. activeSerials' = ({awaiting'[d] : d \in Callers} \ {None}) \cup Owned
    BY <1>1, <2>1, <2>2, <2>3
  <2>5. QED
    BY <1>1, <2>4 DEF ReservationsMatch, Owned
<1>8. QED
  BY <1>3, <1>4, <1>5, <1>6, <1>7 DEF IInv

(* A new row takes an id no task has. *)
LEMMA CreateRunEffect ==
  ASSUME IInv, NEW r \in RunIds, NEW s \in Serials, CreateRun(r, s)
  PROVE  /\ r \notin controllers
         /\ driveOf' \in [RunIds -> Serials \cup {None}]
         /\ status' \in [RunIds -> Active \cup Terminal \cup {None}]
         /\ driveOf'[r] = s /\ status'[r] \in Active
         /\ \A q \in RunIds \ {r} : driveOf'[q] = driveOf[q] /\ status'[q] = status[q]
         /\ stage' = stage
<1>1. /\ status[r] = None
      /\ driveOf' = [driveOf EXCEPT ![r] = s]
      /\ status' = [status EXCEPT ![r] = "PENDING"]
      /\ stage' = stage
  BY DEF CreateRun
<1>2. r \notin controllers
  BY <1>1 DEF IInv, TasksMatch, Active, None
<1>3. QED
  BY <1>1, <1>2 DEF IInv, TypeOK, Active

(* An accepted request hands its reservation to the run. *)
LEMMA StartDispatchedKeepsIInv ==
  ASSUME IInv, NEW c \in Callers, NEW r \in RunIds, StartDispatched(c, r)
  PROVE  IInv'
<1> DEFINE s == awaiting[c]
<1>1. /\ s # None
      /\ Serving
      /\ Allowed(s, TRUE)
      /\ CreateRun(r, s)
      /\ controllers' = controllers \cup {r}
      /\ pc' = [pc EXCEPT ![r] = "execute"]
      /\ Sem!Acquire(r)
      /\ awaiting' = [awaiting EXCEPT ![c] = None]
      /\ UNCHANGED <<up, cursor, activeSerials, aborted, terminalRuns, drive,
                     abandoned, crashes, faults>>
  BY DEF StartDispatched, world, budget
<1>2. s \in Serials /\ s \in activeSerials /\ s \notin Owned
  BY <1>1, AwaitEnds DEF IInv, AwaitedOnce
<1>3. /\ r \notin controllers
      /\ driveOf' \in [RunIds -> Serials \cup {None}]
      /\ status' \in [RunIds -> Active \cup Terminal \cup {None}]
      /\ driveOf'[r] = s /\ status'[r] \in Active
      /\ \A q \in RunIds \ {r} : driveOf'[q] = driveOf[q] /\ status'[q] = status[q]
      /\ stage' = stage
  BY <1>1, <1>2, CreateRunEffect
<1>4. /\ SemP!SemInv'
      /\ Sem!SemTypeOK'
      /\ Queued'
      /\ holders \subseteq holders'
  BY <1>1, <1>3, AcquireEffect DEF IInv, Queued
<1>5. controllers \subseteq RunIds
  BY DEF IInv, TypeOK
<1>6. TypeOK'
  BY <1>1, <1>3, <1>4 DEF IInv, TypeOK, Awaits
<1>7. RowsMatch' /\ TasksMatch'
  BY <1>1, <1>2, <1>3, <1>4 DEF IInv, TypeOK, RowsMatch, TasksMatch, Working
<1>8. OneRunPerDrive'
  BY <1>1, <1>2, <1>3, <1>5 DEF IInv, OneRunPerDrive, Owned
<1>9. Owned' = Owned \cup {s}
  BY <1>1, <1>3, <1>5 DEF Owned
<1>10. AwaitedOnce'
  <2>1. ASSUME NEW d \in Callers, awaiting'[d] # None
        PROVE  awaiting'[d] = awaiting[d] /\ awaiting[d] # s
    BY <1>1, <2>1, AwaitEnds DEF IInv, AwaitedOnce
  <2>2. QED
    BY <1>9, <2>1 DEF IInv, AwaitedOnce
<1>11. ReservationsMatch'
  <2>1. {awaiting'[d] : d \in Callers} \ {None} = ({awaiting[d] : d \in Callers} \ {None}) \ {s}
    BY <1>1, AwaitEnds
  <2>2. activeSerials = ({awaiting[d] : d \in Callers} \ {None}) \cup Owned
    BY DEF IInv, ReservationsMatch, Owned
  <2>3. activeSerials' = ({awaiting'[d] : d \in Callers} \ {None}) \cup Owned'
    BY <1>1, <1>2, <1>9, <2>1, <2>2
  <2>4. QED
    BY <2>3 DEF ReservationsMatch, Owned
<1>12. AbandonedApart'
  <2>1. s \notin abandoned
    BY <1>1 DEF Allowed, Claim
  <2>2. QED
    BY <1>1, <1>9, <2>1 DEF IInv, AbandonedApart, Serving
<1>13. QED
  BY <1>4, <1>6, <1>7, <1>8, <1>10, <1>11, <1>12 DEF IInv

(* A request that fails after its row was written: nothing owns the row. *)
LEMMA StartFaultsKeepsIInv ==
  ASSUME IInv, NEW c \in Callers, NEW r \in RunIds, StartFaults(c, r)
  PROVE  IInv'
<1> DEFINE s == awaiting[c]
<1>1. /\ s # None
      /\ faults < MaxFaults
      /\ CreateRun(r, s)
      /\ activeSerials' = activeSerials \ {s}
      /\ awaiting' = [awaiting EXCEPT ![c] = None]
      /\ faults' = faults + 1
      /\ UNCHANGED <<up, cursor, controllers, aborted, terminalRuns, pc, sem, drive,
                     abandoned, crashes>>
  BY DEF StartFaults, world
<1>2. s \in Serials /\ s \in activeSerials /\ s \notin Owned
  BY <1>1, AwaitEnds DEF IInv, AwaitedOnce
<1>3. /\ r \notin controllers
      /\ driveOf' \in [RunIds -> Serials \cup {None}]
      /\ status' \in [RunIds -> Active \cup Terminal \cup {None}]
      /\ driveOf'[r] \in Serials
      /\ \A q \in RunIds \ {r} : driveOf'[q] = driveOf[q] /\ status'[q] = status[q]
      /\ stage' = stage
  BY <1>1, <1>2, CreateRunEffect
<1>4. UNCHANGED <<available, queue, holders>>
  BY <1>1 DEF sem
<1>5. SemP!SemInv' /\ Sem!SemTypeOK' /\ Queued'
  BY <1>1, SemUnchanged DEF IInv
<1>6. faults' \in 0..MaxFaults
  BY <1>1, SizesAssumption DEF IInv, TypeOK
<1>7. TypeOK'
  BY <1>1, <1>3, <1>5, <1>6 DEF IInv, TypeOK
<1>8. \A q \in controllers : q \in RunIds \ {r}
  BY <1>3 DEF IInv, TypeOK
<1>9. RowsMatch' /\ TasksMatch' /\ OneRunPerDrive'
  BY <1>1, <1>2, <1>3, <1>4, <1>8 DEF IInv, RowsMatch, TasksMatch, OneRunPerDrive
<1>10. Owned' = Owned
  BY <1>1, <1>3, <1>8 DEF Owned
<1>11. AwaitedOnce'
  BY <1>1, <1>10, AwaitEnds DEF IInv, AwaitedOnce
<1>12. ReservationsMatch'
  <2>1. {awaiting'[d] : d \in Callers} \ {None} = ({awaiting[d] : d \in Callers} \ {None}) \ {s}
    BY <1>1, AwaitEnds
  <2>2. activeSerials = ({awaiting[d] : d \in Callers} \ {None}) \cup Owned
    BY DEF IInv, ReservationsMatch, Owned
  <2>3. activeSerials' = ({awaiting'[d] : d \in Callers} \ {None}) \cup Owned'
    BY <1>1, <1>2, <1>10, <2>1, <2>2
  <2>4. QED
    BY <2>3 DEF ReservationsMatch, Owned
<1>13. AbandonedApart'
  BY <1>1, <1>10 DEF IInv, AbandonedApart, Serving
<1>14. QED
  BY <1>5, <1>7, <1>9, <1>11, <1>12, <1>13 DEF IInv

(* The steps of a task, each a Settle or a Proceed. *)
LEMMA TaskStepKeepsIInv ==
  ASSUME IInv, NEW r \in RunIds, TaskStep(r)
  PROVE  IInv'
<1> USE DEF Stages, Working, Terminal
<1>1. r \in holders => driveOf[r] \in Serials
  BY DEF IInv, Queued, TasksMatch
<1>2. pc[r] \in Working => r \in holders
  BY DEF IInv, TasksMatch
<1>3. CASE ExecuteBegins(r)
  BY <1>3, SettleKeepsIInv, ProceedKeepsIInv DEF ExecuteBegins
<1>4. CASE ResumeBegins(r)
  <2>1. /\ r \in holders
        /\ pc' = [pc EXCEPT ![r] = "resolve"]
        /\ UNCHANGED <<driveOf, status, stage, up, cursor, awaiting, activeSerials,
                       controllers, aborted, terminalRuns, sem, drive, abandoned,
                       crashes, faults>>
    BY <1>4 DEF ResumeBegins, durable, world, budget
  <2>2. UNCHANGED <<available, queue, holders>>
    BY <2>1 DEF sem
  <2>3. SemP!SemInv' /\ Sem!SemTypeOK' /\ Queued'
    BY <2>1, SemUnchanged DEF IInv
  <2>4. TypeOK'
    BY <2>1, <2>3 DEF IInv, TypeOK, Awaits
  <2>5. r \in controllers
    BY <2>1 DEF IInv, Queued
  <2>6. RowsMatch' /\ TasksMatch'
    BY <2>1, <2>2, <2>5 DEF IInv, TypeOK, RowsMatch, TasksMatch
  <2>7. OneRunPerDrive' /\ AwaitedOnce' /\ ReservationsMatch' /\ AbandonedApart'
    BY <2>1 DEF IInv, OneRunPerDrive, AwaitedOnce, ReservationsMatch, AbandonedApart, Owned, Serving
  <2>8. QED
    BY <2>3, <2>4, <2>6, <2>7 DEF IInv
<1>5. CASE ResumeDecides(r)
  <2>1. stage[r] \in Stages /\ r \in holders
    BY <1>2, <1>5 DEF IInv, TypeOK, ResumeDecides
  <2>2. (IF stage[r] = "surface" THEN "recheck" ELSE stage[r]) \in Working
    BY <2>1
  <2>3. QED
    BY <1>5, <2>1, <2>2, SettleKeepsIInv, ProceedKeepsIInv DEF ResumeDecides
<1>6. CASE EarlyEnds(r)
  BY <1>2, <1>6, SettleKeepsIInv, ProceedKeepsIInv DEF EarlyEnds
<1>7. CASE SurfaceBegins(r)
  BY <1>2, <1>7, SettleKeepsIInv, ProceedKeepsIInv DEF SurfaceBegins
<1>8. CASE SurfaceEnds(r)
  BY <1>2, <1>8, SettleKeepsIInv, ProceedKeepsIInv DEF SurfaceEnds
<1>9. CASE SurfaceAbandoned(r)
  BY <1>9, SettleKeepsIInv DEF SurfaceAbandoned
<1>10. CASE LateEnds(r)
  BY <1>10, SettleKeepsIInv DEF LateEnds
<1>11. CASE SettleFaults(r)
  <2>1. /\ Serving
        /\ faults < MaxFaults
        /\ r \in holders
        /\ terminalRuns' = terminalRuns \cup {r}
        /\ Leave(r)
        /\ faults' = faults + 1
        /\ UNCHANGED <<driveOf, status, stage, up, cursor, awaiting, drive, abandoned, crashes>>
    BY <1>11 DEF SettleFaults, durable, world
  <2>2. Sem!SemTypeOK'
    BY <2>1, ReleaseEffect DEF IInv, Leave
  <2>3. faults' \in 0..MaxFaults
    BY <2>1, SizesAssumption DEF IInv, TypeOK
  <2>4. pc' \in [RunIds -> Awaits]
    BY <2>1 DEF IInv, TypeOK, Leave, Awaits
  <2>5. TypeOK'
    BY <2>1, <2>2, <2>3, <2>4 DEF IInv, TypeOK, Leave
  <2>6. QED
    BY <2>1, <2>5, LeaveKeepsIInv
<1>12. QED
  BY <1>3, <1>4, <1>5, <1>6, <1>7, <1>8, <1>9, <1>10, <1>11 DEF TaskStep

(* One turn of reconcile(): the run it resumes gets a drive nobody has. *)
LEMMA ReconcileKeepsIInv ==
  ASSUME IInv, Reconcile
  PROVE  IInv'
<1>1. /\ cursor \in RunIds
      /\ cursor' = cursor - 1
      /\ cursor' \in 0..MaxRuns
      /\ ~Serving
      /\ UNCHANGED <<driveOf, status, stage, up, awaiting, aborted, terminalRuns,
                     drive, abandoned, crashes, faults>>
  BY SizesAssumption DEF Reconcile, IInv, TypeOK, RunIds, Serving, durable, world, budget
<1>2. abandoned = {}
  BY <1>1 DEF IInv, AbandonedApart
<1>3. CASE ~Resumable(cursor)
  <2>1. UNCHANGED <<controllers, activeSerials, pc, sem>>
    BY <1>3 DEF Reconcile
  <2>2. UNCHANGED <<available, queue, holders>>
    BY <2>1 DEF sem
  <2>3. SemP!SemInv' /\ Sem!SemTypeOK' /\ Queued'
    BY <2>1, SemUnchanged DEF IInv
  <2>4. TypeOK'
    BY <1>1, <2>1, <2>3 DEF IInv, TypeOK
  <2>5. RowsMatch' /\ TasksMatch' /\ OneRunPerDrive' /\ AwaitedOnce' /\ ReservationsMatch'
    BY <1>1, <2>1, <2>2 DEF IInv, RowsMatch, TasksMatch, OneRunPerDrive, AwaitedOnce, ReservationsMatch, Owned
  <2>6. AbandonedApart'
    BY <1>1, <1>2 DEF AbandonedApart
  <2>7. QED
    BY <2>3, <2>4, <2>5, <2>6 DEF IInv
<1>4. CASE Resumable(cursor)
  <2>1. /\ status[cursor] \in Active
        /\ cursor \notin controllers
        /\ driveOf[cursor] \notin activeSerials
        /\ controllers' = controllers \cup {cursor}
        /\ activeSerials' = activeSerials \cup {driveOf[cursor]}
        /\ pc' = [pc EXCEPT ![cursor] = "resume"]
        /\ Sem!Acquire(cursor)
    BY <1>4 DEF Reconcile, Resumable
  <2>2. driveOf[cursor] \in Serials
    BY <1>1, <2>1 DEF IInv, RowsMatch, Active, None
  <2>3. /\ SemP!SemInv'
        /\ Sem!SemTypeOK'
        /\ Queued'
        /\ holders \subseteq holders'
    BY <1>1, <2>1, AcquireEffect DEF IInv, Queued
  <2>4. TypeOK'
    BY <1>1, <2>1, <2>2, <2>3 DEF IInv, TypeOK, Awaits
  <2>5. RowsMatch' /\ TasksMatch'
    BY <1>1, <2>1, <2>2, <2>3 DEF IInv, TypeOK, RowsMatch, TasksMatch, Working
  <2>6. driveOf[cursor] \notin Owned /\ \A c \in Callers : awaiting[c] # driveOf[cursor]
    BY <2>1, <2>2, SerialsAssumption DEF IInv, ReservationsMatch, Owned
  <2>7. OneRunPerDrive'
    BY <1>1, <2>1, <2>6 DEF IInv, OneRunPerDrive, Owned
  <2>8. Owned' = Owned \cup {driveOf[cursor]}
    BY <1>1, <2>1 DEF Owned
  <2>9. AwaitedOnce'
    BY <1>1, <2>6, <2>8 DEF IInv, AwaitedOnce
  <2>10. ReservationsMatch'
    <3>1. activeSerials = ({awaiting[c] : c \in Callers} \ {None}) \cup Owned
      BY DEF IInv, ReservationsMatch, Owned
    <3>2. activeSerials' = ({awaiting[c] : c \in Callers} \ {None}) \cup Owned'
      BY <2>1, <2>8, <3>1
    <3>3. QED
      BY <1>1, <3>2 DEF ReservationsMatch, Owned
  <2>11. AbandonedApart'
    BY <1>1, <1>2 DEF AbandonedApart
  <2>12. QED
    BY <2>3, <2>4, <2>5, <2>7, <2>9, <2>10, <2>11 DEF IInv
<1>5. QED
  BY <1>3, <1>4

(* The process dies, starts, or its world moves. *)
LEMMA OutsideKeepsIInv ==
  ASSUME IInv,
         \/ Crash
         \/ Boot
         \/ \E r \in RunIds : AbortRun(r)
         \/ \E s \in Serials : AbandonedExits(s) \/ \E d \in DriveStates : DriveChanges(s, d)
         \/ UNCHANGED vars
  PROVE  IInv'
<1>1. CASE Crash
  <2>1. /\ UNCHANGED <<driveOf, status, stage, drive, faults>>
        /\ up' = FALSE /\ cursor' = 0 /\ crashes' = crashes + 1 /\ crashes < MaxCrashes
        /\ awaiting' = [c \in Callers |-> None]
        /\ activeSerials' = {} /\ controllers' = {} /\ aborted' = {} /\ terminalRuns' = {}
        /\ pc' = [r \in RunIds |-> "idle"]
        /\ abandoned' = {}
    BY <1>1 DEF Crash, durable
  <2>2. available' = Concurrency /\ queue' = <<>> /\ holders' = {}
    BY <1>1 DEF Crash, Sem!Rebuild
  <2>3. SemP!SemInv' /\ Sem!SemTypeOK' /\ Queued'
    <3>1. SemP!Rebuild
      BY <2>2 DEF SemP!Rebuild
    <3>2. SemP!SemInv'
      BY <3>1, SemP!RebuildStep, SizesAssumption
    <3>3. QED
      BY <2>1, <2>2, <3>2 DEF SemP!SemInv, SemP!SemTypeOK, Sem!SemTypeOK, Queued, Sem!Waiting
  <2>4. TypeOK'
    <3>1. cursor' \in 0..MaxRuns /\ crashes' \in 0..MaxCrashes
      BY <2>1, SizesAssumption DEF IInv, TypeOK
    <3>2. awaiting' \in [Callers -> Serials \cup {None}] /\ pc' \in [RunIds -> Awaits]
      BY <2>1 DEF Awaits
    <3>3. QED
      BY <2>1, <2>3, <3>1, <3>2 DEF IInv, TypeOK
  <2>5. /\ RowsMatch' /\ TasksMatch' /\ OneRunPerDrive' /\ AwaitedOnce'
        /\ AbandonedApart'
    BY <2>1 DEF IInv, RowsMatch, TasksMatch, OneRunPerDrive, AwaitedOnce, AbandonedApart, Working
  <2>6. ReservationsMatch'
    BY <2>1 DEF ReservationsMatch
  <2>7. QED
    BY <2>3, <2>4, <2>5, <2>6 DEF IInv
<1>2. CASE Boot
  <2>1. /\ ~Serving /\ up' = TRUE /\ cursor' = MaxRuns
        /\ UNCHANGED <<driveOf, status, stage, awaiting, activeSerials, controllers, aborted,
                       terminalRuns, pc, sem, drive, abandoned, crashes, faults>>
    BY <1>2 DEF Boot, Serving, durable, world, budget
  <2>2. UNCHANGED <<available, queue, holders>>
    BY <2>1 DEF sem
  <2>3. SemP!SemInv' /\ Sem!SemTypeOK' /\ Queued'
    BY <2>1, SemUnchanged DEF IInv
  <2>4. TypeOK'
    BY <2>1, <2>3, SizesAssumption DEF IInv, TypeOK
  <2>5. /\ RowsMatch' /\ TasksMatch' /\ OneRunPerDrive' /\ AwaitedOnce' /\ ReservationsMatch'
        /\ AbandonedApart'
    BY <2>1, <2>2 DEF IInv, RowsMatch, TasksMatch, OneRunPerDrive, AwaitedOnce,
                      ReservationsMatch, AbandonedApart, Owned
  <2>6. QED
    BY <2>3, <2>4, <2>5 DEF IInv
<1>3. ASSUME NEW r \in RunIds, AbortRun(r)
      PROVE  IInv'
  <2>1. /\ aborted' = aborted \cup {r}
        /\ UNCHANGED <<driveOf, status, stage, up, cursor, awaiting, activeSerials, controllers,
                       terminalRuns, pc, sem, drive, abandoned, crashes, faults>>
    BY <1>3 DEF AbortRun, durable, world, budget
  <2>2. UNCHANGED <<available, queue, holders>>
    BY <2>1 DEF sem
  <2>3. SemP!SemInv' /\ Sem!SemTypeOK' /\ Queued'
    BY <2>1, SemUnchanged DEF IInv
  <2>4. QED
    BY <2>1, <2>2, <2>3
    DEF IInv, TypeOK, RowsMatch, TasksMatch, OneRunPerDrive, AwaitedOnce,
        ReservationsMatch, AbandonedApart, Owned, Serving
<1>4. ASSUME /\ UNCHANGED <<durable, process, budget>>
             /\ drive' \in [Serials -> DriveStates]
             /\ abandoned' \subseteq abandoned
      PROVE  IInv'
  <2>1. UNCHANGED <<driveOf, status, stage, up, cursor, awaiting, activeSerials, controllers,
                    aborted, terminalRuns, pc, sem, crashes, faults>>
    BY <1>4 DEF durable, process, budget
  <2>2. UNCHANGED <<available, queue, holders>>
    BY <2>1 DEF sem
  <2>3. SemP!SemInv' /\ Sem!SemTypeOK' /\ Queued'
    BY <2>1, SemUnchanged DEF IInv
  <2>4. QED
    BY <1>4, <2>1, <2>2, <2>3
    DEF IInv, TypeOK, RowsMatch, TasksMatch, OneRunPerDrive, AwaitedOnce,
        ReservationsMatch, AbandonedApart, Owned, Serving
<1>5. ASSUME NEW s \in Serials, AbandonedExits(s)
      PROVE  IInv'
  BY <1>4, <1>5 DEF AbandonedExits, IInv, TypeOK
<1>6. ASSUME NEW s \in Serials, NEW d \in DriveStates, DriveChanges(s, d)
      PROVE  IInv'
  BY <1>4, <1>6 DEF DriveChanges, IInv, TypeOK
<1>7. CASE UNCHANGED vars
  BY <1>4, <1>7 DEF vars, world, IInv, TypeOK
<1>8. QED
  BY <1>1, <1>2, <1>3, <1>5, <1>6, <1>7

(* The inductive invariant of the engine. *)
THEOREM EngineInvariant == Spec => []IInv
<1>1. IInv /\ [Next]_vars => IInv'
  BY CallStartKeepsIInv, StartRejectedKeepsIInv, StartDispatchedKeepsIInv,
     StartFaultsKeepsIInv, TaskStepKeepsIInv, ReconcileKeepsIInv, OutsideKeepsIInv
  DEF Next, CallerStep
<1>2. QED
  BY InitIInv, <1>1, PTL DEF Spec

(* Every variable keeps its type. *)
THEOREM TypeCorrect == Spec => []TypeOK
<1>1. IInv => TypeOK
  BY DEF IInv
<1>2. QED
  BY <1>1, EngineInvariant, PTL

(* No two runs of one drive are worked on at a time. *)
THEOREM MutualExclusion == Spec => []OneRunPerDrive
<1>1. IInv => OneRunPerDrive
  BY DEF IInv
<1>2. QED
  BY <1>1, EngineInvariant, PTL

(* A serial is reserved exactly while somebody is entitled to it. *)
THEOREM Reservations == Spec => []ReservationsMatch
<1>1. IInv => ReservationsMatch
  BY DEF IInv
<1>2. QED
  BY <1>1, EngineInvariant, PTL

(* Permits are conserved and every working task holds one. *)
THEOREM Permits == Spec => []PermitsMatch
<1>1. IInv => PermitsMatch
  <2> SUFFICES ASSUME IInv PROVE PermitsMatch
    OBVIOUS
  <2>1. holders \cap Sem!Waiting = {}
    BY DEF IInv, SemP!SemInv, SemP!Waiting, Sem!Waiting
  <2>2. Sem!PermitsConserved
    BY DEF IInv, SemP!SemInv, SemP!PermitsConserved, Sem!PermitsConserved,
           SemP!Cardinality, Sem!Cardinality
  <2>3. \A r \in RunIds : pc[r] \notin {"idle", "execute", "resume"} => r \in holders
    BY DEF IInv, TypeOK, TasksMatch, Awaits, Working
  <2>4. QED
    BY <2>1, <2>2, <2>3 DEF IInv, Queued, PermitsMatch
<1>2. QED
  BY <1>1, EngineInvariant, PTL

(* A drive never has two badblocks on it, abandoned ones included. *)
THEOREM SingleWriter == Spec => []OneWriterPerDrive
<1>1. IInv => OneWriterPerDrive
  <2> SUFFICES ASSUME IInv, NEW s \in Serials
               PROVE  Cardinality(Writing(s)) + (IF s \in abandoned THEN 1 ELSE 0) <= 1
    BY DEF OneWriterPerDrive
  <2>1. \A r \in Writing(s) : r \in controllers /\ driveOf[r] = s
    BY DEF IInv, TasksMatch, Writing
  <2>2. CASE Writing(s) = {}
    <3>1. Cardinality(Writing(s)) = 0
      BY <2>2, FS_EmptySet
    <3>2. QED
      BY <3>1
  <2>3. CASE Writing(s) # {}
    <3>1. PICK r : r \in Writing(s)
      BY <2>3
    <3>2. Writing(s) = {r}
      BY <2>1, <3>1 DEF IInv, OneRunPerDrive
    <3>3. Cardinality(Writing(s)) = 1
      BY <3>2, FS_Singleton
    <3>4. s \notin abandoned
      BY <2>1, <3>1 DEF IInv, AbandonedApart, Owned
    <3>5. QED
      BY <3>3, <3>4
  <2>4. QED
    BY <2>2, <2>3
<1>2. QED
  BY <1>1, EngineInvariant, PTL

-----------------------------------------------------------------------------
(* What a restart may not lose, and what comes before badblocks.            *)

(* A drive has one unfinished row at most. *)
OneActiveRow ==
  \A r, q \in RunIds :
    status[r] \in Active /\ status[q] \in Active /\ driveOf[r] = driveOf[q] => r = q

(* The rows reconcile() has passed over, all of them once it has returned. *)
RowsPassed == up => \A r \in RunIds : r > cursor /\ status[r] \in Active => r \in controllers

(* A run this process calls terminal has a terminal row. *)
TerminalRows == \A r \in terminalRuns : status[r] \in Terminal

(* Nobody awaits discovery while reconcile() runs. *)
NobodyAwaits == ~Serving => \A c \in Callers : awaiting[c] = None

(* A database error strands a row for good: no claim is made after one. *)
Remembered == faults = 0 => OneActiveRow /\ RowsPassed /\ TerminalRows

RInv == NobodyAwaits /\ Remembered

LEMMA InitRInv == Init => RInv
  BY DEF Init, RInv, NobodyAwaits, Remembered, OneActiveRow, RowsPassed, TerminalRows,
         Active, None

(* A step of a serving process that writes no row and drops no task. *)
LEMMA QuietKeepsRInv ==
  ASSUME RInv, Serving,
         UNCHANGED <<driveOf, status, up, cursor, controllers, terminalRuns, faults>>
  PROVE  RInv'
  BY DEF RInv, NobodyAwaits, Remembered, OneActiveRow, RowsPassed, TerminalRows, Serving

(* A fault ends what is claimed. *)
LEMMA FaultKeepsRInv ==
  ASSUME IInv, Serving, UNCHANGED <<up, cursor>>, faults' = faults + 1
  PROVE  RInv'
<1>1. faults' # 0
  BY SizesAssumption DEF IInv, TypeOK
<1>2. QED
  BY <1>1 DEF RInv, NobodyAwaits, Remembered, Serving

LEMMA SettleKeepsRInv ==
  ASSUME IInv, RInv, NEW r \in RunIds, NEW outcome \in Terminal, Settle(r, outcome), Serving
  PROVE  RInv'
<1>1. /\ status' = [status EXCEPT ![r] = outcome]
      /\ terminalRuns' = terminalRuns \cup {r}
      /\ controllers' = controllers \ {r}
      /\ UNCHANGED <<driveOf, up, cursor, awaiting, faults>>
  BY DEF Settle, Leave, budget
<1>2. \A q \in RunIds : status'[q] = IF q = r THEN outcome ELSE status[q]
  BY <1>1 DEF IInv, TypeOK
<1>3. terminalRuns \subseteq RunIds
  BY DEF IInv, TypeOK
<1>4. outcome \notin Active /\ outcome \in Terminal
  BY DEF Terminal, Active
<1>5. NobodyAwaits'
  BY <1>1 DEF RInv, NobodyAwaits, Serving
<1>6. Remembered'
  BY <1>1, <1>2, <1>3, <1>4 DEF RInv, Remembered, OneActiveRow, RowsPassed, TerminalRows
<1>7. QED
  BY <1>5, <1>6 DEF RInv

LEMMA ProceedKeepsRInv ==
  ASSUME IInv, RInv, NEW r \in RunIds, NEW at, NEW where,
         Proceed(r, "RUNNING", at, where), r \in holders, Serving
  PROVE  RInv'
<1>1. /\ status' = [status EXCEPT ![r] = "RUNNING"]
      /\ UNCHANGED <<driveOf, up, cursor, awaiting, controllers, terminalRuns, faults>>
  BY DEF Proceed, budget
<1>2. r \in controllers /\ status[r] \in Active
  BY DEF IInv, Queued, TasksMatch
<1>3. terminalRuns \subseteq RunIds /\ status \in [RunIds -> Active \cup Terminal \cup {None}]
  BY DEF IInv, TypeOK
<1>4. \A q \in RunIds : /\ status'[q] \in Active <=> status[q] \in Active
                        /\ status[q] \in Terminal => status'[q] \in Terminal
  BY <1>1, <1>2, <1>3 DEF Active, Terminal
<1>5. NobodyAwaits'
  BY <1>1 DEF RInv, NobodyAwaits, Serving
<1>6. Remembered'
  BY <1>1, <1>3, <1>4 DEF RInv, Remembered, OneActiveRow, RowsPassed, TerminalRows
<1>7. QED
  BY <1>5, <1>6 DEF RInv

(* The row a request adds is the only unfinished one of its drive: the      *)
(* request holds the reservation, and every unfinished row has a task.      *)
LEMMA StartDispatchedKeepsRInv ==
  ASSUME IInv, RInv, NEW c \in Callers, NEW r \in RunIds, StartDispatched(c, r)
  PROVE  RInv'
<1> DEFINE s == awaiting[c]
<1>1. /\ s # None
      /\ Serving
      /\ CreateRun(r, s)
      /\ controllers' = controllers \cup {r}
      /\ UNCHANGED <<up, cursor, terminalRuns, faults>>
  BY DEF StartDispatched, budget
<1>2. s \in Serials /\ s \notin Owned
  BY <1>1, AwaitEnds DEF IInv, AwaitedOnce, TypeOK
<1>3. /\ r \notin controllers
      /\ driveOf'[r] = s
      /\ \A q \in RunIds \ {r} : driveOf'[q] = driveOf[q] /\ status'[q] = status[q]
  BY <1>1, <1>2, CreateRunEffect
<1>4. NobodyAwaits'
  BY <1>1 DEF NobodyAwaits, Serving
<1>5. ASSUME faults = 0
      PROVE  OneActiveRow' /\ RowsPassed'
  <2>1. \A q \in RunIds : status[q] \in Active => q \in controllers
    BY <1>1, <1>5 DEF RInv, Remembered, RowsPassed, Serving, RunIds
  <2>2. \A q \in RunIds \ {r} : status'[q] \in Active => driveOf'[q] # s
    BY <1>2, <1>3, <2>1 DEF Owned
  <2>3. OneActiveRow'
    BY <1>3, <1>5, <2>2 DEF RInv, Remembered, OneActiveRow
  <2>4. RowsPassed'
    BY <1>1, <1>3, <2>1 DEF RowsPassed
  <2>5. QED
    BY <2>3, <2>4
<1>6. ASSUME faults = 0
      PROVE  TerminalRows'
  <2>1. status[r] = None /\ None \notin Terminal
    BY <1>1 DEF CreateRun, None, Terminal
  <2>2. r \notin terminalRuns /\ terminalRuns \subseteq RunIds
    BY <1>6, <2>1 DEF RInv, Remembered, TerminalRows, IInv, TypeOK
  <2>3. QED
    BY <1>1, <1>3, <1>6, <2>2 DEF RInv, Remembered, TerminalRows
<1>7. QED
  BY <1>1, <1>4, <1>5, <1>6 DEF RInv, Remembered

(* The other steps of a caller. *)
LEMMA CallerKeepsRInv ==
  ASSUME IInv, RInv, NEW c \in Callers, CallerStep(c)
  PROVE  RInv'
<1>1. ASSUME NEW s \in Serials, CallStart(c, s)
      PROVE  RInv'
  BY <1>1, QuietKeepsRInv DEF CallStart, durable, budget
<1>2. CASE StartRejected(c)
  BY <1>2, QuietKeepsRInv DEF StartRejected, durable, budget
<1>3. ASSUME NEW r \in RunIds, StartFaults(c, r)
      PROVE  RInv'
  BY <1>3, FaultKeepsRInv DEF StartFaults
<1>4. QED
  BY <1>1, <1>2, <1>3, StartDispatchedKeepsRInv DEF CallerStep

LEMMA TaskKeepsRInv ==
  ASSUME IInv, RInv, NEW r \in RunIds, TaskStep(r)
  PROVE  RInv'
<1> USE DEF Terminal
<1>1. pc[r] \in Working => r \in holders
  BY DEF IInv, TasksMatch
<1>2. CASE ExecuteBegins(r)
  BY <1>2, SettleKeepsRInv, ProceedKeepsRInv DEF ExecuteBegins
<1>3. CASE ResumeBegins(r)
  BY <1>3, QuietKeepsRInv DEF ResumeBegins, durable, budget
<1>4. CASE ResumeDecides(r)
  BY <1>1, <1>4, SettleKeepsRInv, ProceedKeepsRInv DEF ResumeDecides, Working
<1>5. CASE EarlyEnds(r)
  BY <1>1, <1>5, SettleKeepsRInv, ProceedKeepsRInv DEF EarlyEnds, Working
<1>6. CASE SurfaceBegins(r)
  BY <1>1, <1>6, SettleKeepsRInv, ProceedKeepsRInv DEF SurfaceBegins, Working
<1>7. CASE SurfaceEnds(r)
  BY <1>1, <1>7, SettleKeepsRInv, ProceedKeepsRInv DEF SurfaceEnds, Working
<1>8. CASE SurfaceAbandoned(r)
  BY <1>8, SettleKeepsRInv DEF SurfaceAbandoned
<1>9. CASE LateEnds(r)
  BY <1>9, SettleKeepsRInv DEF LateEnds
<1>10. CASE SettleFaults(r)
  BY <1>10, FaultKeepsRInv DEF SettleFaults
<1>11. QED
  BY <1>2, <1>3, <1>4, <1>5, <1>6, <1>7, <1>8, <1>9, <1>10 DEF TaskStep

(* reconcile() passes over a row only when it is terminal or has a task: no  *)
(* caller holds a reservation yet, and no other unfinished row has the drive. *)
LEMMA ReconcileKeepsRInv ==
  ASSUME IInv, RInv, Reconcile
  PROVE  RInv'
<1>1. /\ cursor \in RunIds
      /\ cursor' = cursor - 1
      /\ up /\ ~Serving
      /\ UNCHANGED <<driveOf, status, up, awaiting, terminalRuns, faults>>
      /\ controllers \subseteq controllers'
  BY SizesAssumption DEF Reconcile, IInv, TypeOK, RunIds, Serving, durable, budget
<1>2. NobodyAwaits'
  BY <1>1 DEF RInv, NobodyAwaits
<1>3. ASSUME faults = 0, status[cursor] \in Active
      PROVE  cursor \in controllers'
  <2>1. cursor \notin terminalRuns
    BY <1>3 DEF RInv, Remembered, TerminalRows, Active, Terminal
  <2>2. CASE cursor \notin controllers
    <3>1. driveOf[cursor] \in Serials
      BY <1>1, <1>3 DEF IInv, RowsMatch, Active, None
    <3>2. \A q \in controllers : driveOf[q] # driveOf[cursor]
      BY <1>1, <1>3, <2>2 DEF IInv, TypeOK, TasksMatch, RInv, Remembered, OneActiveRow
    <3>3. \A c \in Callers : awaiting[c] = None
      BY <1>1 DEF RInv, NobodyAwaits
    <3>4. driveOf[cursor] \notin activeSerials
      BY <3>1, <3>2, <3>3, SerialsAssumption DEF IInv, ReservationsMatch
    <3>5. Resumable(cursor)
      BY <1>3, <2>1, <2>2, <3>4 DEF Resumable
    <3>6. QED
      BY <3>5 DEF Reconcile
  <2>3. QED
    BY <1>1, <2>2
<1>4. ASSUME faults = 0
      PROVE  RowsPassed'
  <2>1. \A r \in RunIds : r > cursor' => r = cursor \/ r > cursor
    BY <1>1 DEF RunIds
  <2>2. QED
    BY <1>1, <1>3, <1>4, <2>1 DEF RInv, Remembered, RowsPassed
<1>5. QED
  BY <1>1, <1>2, <1>4 DEF RInv, Remembered, OneActiveRow, TerminalRows

LEMMA OutsideKeepsRInv ==
  ASSUME IInv, RInv,
         \/ Crash
         \/ Boot
         \/ \E r \in RunIds : AbortRun(r)
         \/ \E s \in Serials : AbandonedExits(s) \/ \E d \in DriveStates : DriveChanges(s, d)
         \/ UNCHANGED vars
  PROVE  RInv'
<1>1. CASE Crash
  BY <1>1 DEF Crash, durable, RInv, NobodyAwaits, Remembered, OneActiveRow, RowsPassed, TerminalRows
<1>2. CASE Boot
  <2>1. /\ ~Serving /\ cursor' = MaxRuns
        /\ UNCHANGED <<driveOf, status, awaiting, terminalRuns, faults>>
    BY <1>2 DEF Boot, Serving, durable, budget
  <2>2. \A r \in RunIds : ~(r > cursor')
    BY <2>1, SizesAssumption DEF RunIds
  <2>3. QED
    BY <2>1, <2>2 DEF RInv, NobodyAwaits, Remembered, OneActiveRow, RowsPassed, TerminalRows
<1>3. ASSUME UNCHANGED <<driveOf, status, up, cursor, awaiting, controllers, terminalRuns, faults>>
      PROVE  RInv'
  BY <1>3 DEF RInv, NobodyAwaits, Remembered, OneActiveRow, RowsPassed, TerminalRows, Serving
<1>4. ASSUME NEW r \in RunIds, AbortRun(r)
      PROVE  RInv'
  BY <1>3, <1>4 DEF AbortRun, durable, budget
<1>5. ASSUME NEW s \in Serials, AbandonedExits(s)
      PROVE  RInv'
  BY <1>3, <1>5 DEF AbandonedExits, durable, process, budget
<1>6. ASSUME NEW s \in Serials, NEW d \in DriveStates, DriveChanges(s, d)
      PROVE  RInv'
  BY <1>3, <1>6 DEF DriveChanges, durable, process, budget
<1>7. CASE UNCHANGED vars
  BY <1>3, <1>7 DEF vars, durable, process, budget
<1>8. QED
  BY <1>1, <1>2, <1>4, <1>5, <1>6, <1>7

(* A restart forgets no run: once reconcile() has returned, every unfinished *)
(* run has a task, unless a database error stranded one (engine.ts:421-466). *)
THEOREM NoRunForgotten == Spec => []NothingForgotten
<1>1. IInv /\ RInv /\ [Next]_vars => RInv'
  BY CallerKeepsRInv, TaskKeepsRInv, ReconcileKeepsRInv, OutsideKeepsRInv DEF Next
<1>2. RInv => NothingForgotten
  BY DEF RInv, Remembered, RowsPassed, NothingForgotten, Serving, RunIds
<1>3. QED
  BY InitRInv, EngineInvariant, <1>1, <1>2, PTL DEF Spec

(* Only the re-check before writing leads a run to badblocks, and it asks   *)
(* for the probe.                                                           *)
LEMMA BegunOnFreeDrive ==
  ASSUME IInv, Next, NEW r \in RunIds, pc[r] # "surface", pc'[r] = "surface"
  PROVE  drive[driveOf[r]] = "free"
<1>1. pc \in [RunIds -> Awaits]
  BY DEF IInv, TypeOK
<1>2. \A q \in RunIds : Leave(q) => pc'[r] # "surface"
  BY <1>1 DEF Leave
<1>3. \A q \in RunIds : \A outcome \in Terminal : Settle(q, outcome) => pc'[r] # "surface"
  BY <1>2 DEF Settle
<1>4. \A q \in RunIds, where \in Awaits \ {"surface"} :
         \A at \in Stages : Proceed(q, "RUNNING", at, where) => pc'[r] # "surface"
  BY <1>1 DEF Proceed
<1>5. \E q \in RunIds : SurfaceBegins(q)
  <2>1. ASSUME NEW c \in Callers, CallerStep(c)
        PROVE  FALSE
    BY <1>1, <2>1 DEF CallerStep, CallStart, StartRejected, StartDispatched, StartFaults
  <2>2. ASSUME NEW q \in RunIds, TaskStep(q)
        PROVE  SurfaceBegins(q)
    <3>1. stage[q] \in Stages
      BY DEF IInv, TypeOK
    <3>2. ~ExecuteBegins(q) /\ ~EarlyEnds(q) /\ ~SurfaceEnds(q)
      BY <1>3, <1>4 DEF ExecuteBegins, EarlyEnds, SurfaceEnds, Terminal, Awaits, Stages
    <3>3. ~ResumeDecides(q)
      BY <1>3, <1>4, <3>1 DEF ResumeDecides, Terminal, Awaits, Stages
    <3>4. ~SurfaceAbandoned(q) /\ ~LateEnds(q)
      BY <1>3 DEF SurfaceAbandoned, LateEnds, Terminal
    <3>5. ~SettleFaults(q)
      BY <1>2 DEF SettleFaults
    <3>6. ~ResumeBegins(q)
      BY <1>1 DEF ResumeBegins
    <3>7. QED
      BY <2>2, <3>2, <3>3, <3>4, <3>5, <3>6 DEF TaskStep
  <2>3. ~Crash /\ ~Boot /\ ~Reconcile
    BY <1>1 DEF Crash, Boot, Reconcile, IInv, TypeOK
  <2>4. ASSUME NEW q \in RunIds, AbortRun(q)
        PROVE  FALSE
    BY <2>4 DEF AbortRun
  <2>5. ASSUME NEW s \in Serials, AbandonedExits(s) \/ \E d \in DriveStates : DriveChanges(s, d)
        PROVE  FALSE
    BY <2>5 DEF AbandonedExits, DriveChanges, process
  <2>6. QED
    BY <2>1, <2>2, <2>3, <2>4, <2>5 DEF Next
<1>6. PICK q \in RunIds : SurfaceBegins(q)
  BY <1>5
<1>7. Allowed(driveOf[q], TRUE) /\ q = r
  BY <1>1, <1>3, <1>6 DEF SurfaceBegins, Terminal, Proceed
<1>8. driveOf[r] \in Serials
  BY <1>6, <1>7 DEF SurfaceBegins, IInv, TasksMatch
<1>9. drive[driveOf[r]] \in DriveStates
  BY <1>8 DEF IInv, TypeOK
<1>10. QED
  BY <1>7, <1>9 DEF Allowed, Listed, Claim, DriveStates

(* badblocks starts only on a drive whose claim was really probed: present,  *)
(* not refused, not claimed by the host (engine.ts:1167-1177).               *)
THEOREM ProbedBeforeWriting == Spec => WritesOnlyFreeDrives
<1>1. IInv /\ [Next]_vars =>
        [\A r \in RunIds :
           pc[r] # "surface" /\ pc'[r] = "surface" => drive[driveOf[r]] = "free"]_vars
  BY BegunOnFreeDrive
<1>2. QED
  BY EngineInvariant, <1>1, PTL DEF Spec, WritesOnlyFreeDrives

-----------------------------------------------------------------------------
(* The auto-mode poller (AutoMode).                                        *)

(* What the poller does is what any caller of the engine may do. *)
LEMMA PollStepIsEngineStep == PollStep => [Next]_vars
<1> SUFFICES ASSUME PollStep PROVE [Next]_vars
  OBVIOUS
<1>1. CASE PollerStarts \/ PollFails \/ PollListed \/ PollEnds \/ PollWakes
  BY <1>1 DEF PollerStarts, PollFails, PollListed, PollEnds, PollWakes
<1>2. CASE \/ PollRefused
           \/ \E s \in Serials : PollTurn(s)
           \/ \E r \in RunIds : PollStarted(r)
  <2>1. CallerStep(Poller)
    BY <1>2 DEF PollRefused, PollTurn, PollStarted, CallerStep
  <2>2. QED
    BY <2>1, PollerAssumption DEF Next
<1>3. QED
  BY <1>1, <1>2 DEF PollStep

(* Every other step of the composition is one of the engine or a stutter. *)
LEMMA AutoStepIsEngineStep == [AutoNext]_allVars => [Next]_vars
<1> SUFFICES ASSUME [AutoNext]_allVars PROVE [Next]_vars
  OBVIOUS
<1>1. CASE PollStep
  BY <1>1, PollStepIsEngineStep
<1>2. CASE Toggle
  BY <1>2 DEF Toggle
<1>3. CASE EngineStep
  BY <1>3 DEF EngineStep, Next
<1>4. CASE HostStep
  BY <1>4 DEF HostStep, Next
<1>5. CASE AutoCrash
  BY <1>5 DEF AutoCrash, Next
<1>6. CASE UNCHANGED allVars
  BY <1>6 DEF allVars
<1>7. QED
  BY <1>1, <1>2, <1>3, <1>4, <1>5, <1>6 DEF AutoNext

(* The engine with the poller is the engine: whatever is proved of          *)
(* TestEngine's Spec holds with auto-mode (autoMode.ts:36-45).              *)
THEOREM AutoIsEngine == AutoSpec => Spec
<1>1. AutoInit => Init
  BY DEF AutoInit
<1>2. QED
  BY <1>1, AutoStepIsEngineStep, PTL DEF AutoSpec, Spec

(* A drive the poller has started is one it remembers. *)
Remembers == started \subseteq enqueued /\ started \subseteq Serials

LEMMA RemembersStep ==
  ASSUME IInv, Remembers, [AutoNext]_allVars
  PROVE  Remembers'
<1>1. CASE PollStep
  <2>1. ASSUME NEW r \in RunIds, PollStarted(r)
        PROVE  Remembers'
    <3>1. awaiting[Poller] \in Serials
      BY <2>1, PollerAssumption DEF PollStarted, StartDispatched, IInv, TypeOK
    <3>2. QED
      BY <2>1, <3>1 DEF PollStarted, Remembers
  <2>2. CASE UNCHANGED <<enqueued, started>>
    BY <2>2 DEF Remembers
  <2>3. QED
    BY <1>1, <2>1, <2>2
    DEF PollStep, PollerStarts, PollFails, PollListed, PollEnds, PollRefused, PollWakes, PollTurn
<1>2. CASE AutoCrash
  BY <1>2 DEF AutoCrash, Remembers
<1>3. CASE Toggle \/ EngineStep \/ HostStep \/ UNCHANGED allVars
  BY <1>3 DEF Toggle, EngineStep, HostStep, allVars, loop, Remembers
<1>4. QED
  BY <1>1, <1>2, <1>3 DEF AutoNext

(* Another caller's step leaves what the poller awaits alone. *)
LEMMA OthersAwaitApart ==
  ASSUME IInv, NEW c \in Callers \ {Poller}, CallerStep(c)
  PROVE  awaiting'[Poller] = awaiting[Poller]
<1>1. awaiting \in [Callers -> Serials \cup {None}]
  BY DEF IInv, TypeOK
<1>2. \E a : awaiting' = [awaiting EXCEPT ![c] = a]
  BY DEF CallerStep, CallStart, StartRejected, StartDispatched, StartFaults
<1>3. QED
  BY <1>1, <1>2, PollerAssumption

(* The poller asks for a drive only in its turn, having passed over those   *)
(* it remembers.                                                            *)
LEMMA AsksOnce ==
  ASSUME IInv, Remembers, AutoNext, NEW s \in started, awaiting'[Poller] = s
  PROVE  awaiting[Poller] = s
<1>1. awaiting \in [Callers -> Serials \cup {None}]
  BY DEF IInv, TypeOK
<1>2. s \in enqueued /\ s \in Serials /\ s # None
  BY SerialsAssumption DEF Remembers
<1>3. CASE awaiting'[Poller] = awaiting[Poller] \/ awaiting'[Poller] = None
  BY <1>2, <1>3
<1>4. CASE PollStep
  <2>1. ASSUME NEW d \in Serials, PollTurn(d)
        PROVE  FALSE
    <3>1. awaiting'[Poller] = d
      BY <1>1, <2>1, PollerAssumption DEF PollTurn, CallStart
    <3>2. QED
      BY <1>2, <2>1, <3>1 DEF PollTurn, PassedOver
  <2>2. QED
    BY <1>1, <1>3, <1>4, <2>1, PollerAssumption
    DEF PollStep, PollerStarts, PollFails, PollListed, PollEnds, PollRefused, PollWakes,
        PollStarted, StartRejected, StartFaults, StartDispatched, vars, process
<1>5. CASE EngineStep
  <2>1. CASE \E c \in Callers \ {Poller} : CallerStep(c)
    BY <1>3, <2>1, OthersAwaitApart
  <2>2. CASE \E r \in RunIds : TaskStep(r) \/ AbortRun(r)
    BY <1>3, <2>2
    DEF TaskStep, ExecuteBegins, ResumeBegins, ResumeDecides, EarlyEnds, SurfaceBegins,
        SurfaceEnds, SurfaceAbandoned, LateEnds, SettleFaults, AbortRun, Settle, Proceed
  <2>3. CASE Boot \/ Reconcile
    BY <1>3, <2>3 DEF Boot, Reconcile
  <2>4. QED
    BY <1>5, <2>1, <2>2, <2>3 DEF EngineStep
<1>6. CASE Toggle \/ HostStep
  BY <1>3, <1>6 DEF Toggle, HostStep, AbandonedExits, DriveChanges, vars, process
<1>7. CASE AutoCrash
  BY <1>3, <1>7, PollerAssumption DEF AutoCrash, Crash
<1>8. QED
  BY <1>4, <1>5, <1>6, <1>7 DEF AutoNext

(* The poller starts at most one run of a drive in the life of a process,    *)
(* whatever fails after the start (autoMode.ts:46-52, 107-111).              *)
THEOREM AutoStartsOnce == AutoSpec => AutoOncePerProcess
<1>1. AutoInit => Remembers
  BY DEF AutoInit, Remembers
<1>2. IInv /\ Remembers /\ [AutoNext]_allVars => Remembers'
  BY RemembersStep
<1>3. IInv /\ Remembers /\ [AutoNext]_allVars =>
        [\A s \in started : ~(awaiting[Poller] # s /\ awaiting'[Poller] = s)]_allVars
  BY AsksOnce
<1>4. AutoSpec => []IInv
  BY AutoIsEngine, EngineInvariant, PTL
<1>5. QED
  BY <1>1, <1>2, <1>3, <1>4, PTL DEF AutoSpec, AutoOncePerProcess

-----------------------------------------------------------------------------
(* The refinement of RunRegistry.                                          *)

USE DEF Registry!Unfinished, Registry!Finished, Active, Terminal

(* The registry's busy drives are the engine's owned drives. *)
LEMMA BusyIsOwned == Registry!Busy = Owned
  BY DEF Registry!Busy, Owned

LEMMA SettleFinishes ==
  ASSUME IInv, NEW r \in RunIds, NEW outcome \in Terminal, Settle(r, outcome)
  PROVE  Registry!Finish(r, outcome)
  BY DEF IInv, Queued, TasksMatch, Settle, Leave, Sem!Release, Registry!Finish

LEMMA ProceedWorks ==
  ASSUME IInv, NEW r \in RunIds, NEW at, NEW where, Proceed(r, "RUNNING", at, where), r \in holders
  PROVE  Registry!Work(r)
  BY DEF IInv, Queued, TasksMatch, Proceed, Registry!Work

LEMMA CallerStepRefines ==
  ASSUME IInv, NEW c \in Callers, CallerStep(c)
  PROVE  Registry!RegistryNext \/ UNCHANGED Registry!registry
<1>1. ASSUME NEW s \in Serials, CallStart(c, s)
      PROVE  UNCHANGED Registry!registry
  BY <1>1 DEF CallStart, durable, Registry!registry
<1>2. ASSUME StartRejected(c)
      PROVE  UNCHANGED Registry!registry
  BY <1>2 DEF StartRejected, durable, Registry!registry
<1>3. awaiting[c] # None => awaiting[c] \in Serials /\ awaiting[c] \notin Registry!Busy
  BY BusyIsOwned DEF IInv, TypeOK, AwaitedOnce
<1>4. ASSUME NEW r \in RunIds, StartDispatched(c, r)
      PROVE  Registry!Admit(r, awaiting[c])
  BY <1>3, <1>4 DEF StartDispatched, CreateRun, Registry!Admit, Registry!Create
<1>5. ASSUME NEW r \in RunIds, StartFaults(c, r)
      PROVE  Registry!Strand(r, awaiting[c])
  BY <1>3, <1>5 DEF StartFaults, CreateRun, Registry!Strand, Registry!Create
<1>6. ASSUME NEW r \in RunIds, StartDispatched(c, r) \/ StartFaults(c, r)
      PROVE  awaiting[c] \in Serials
  BY <1>3, <1>6 DEF StartDispatched, StartFaults
<1>7. QED
  BY <1>1, <1>2, <1>4, <1>5, <1>6 DEF CallerStep, Registry!RegistryNext

LEMMA TaskStepRefines ==
  ASSUME IInv, NEW r \in RunIds, TaskStep(r)
  PROVE  Registry!RegistryNext \/ UNCHANGED Registry!registry
<1>1. pc[r] \in Working => r \in holders
  BY DEF IInv, TasksMatch
<1>2. CASE ResumeBegins(r)
  BY <1>2 DEF ResumeBegins, durable, Registry!registry
<1>3. CASE SettleFaults(r)
  <2>1. Registry!Drop(r)
    BY <1>3 DEF SettleFaults, Leave, durable, IInv, Queued, Registry!Drop
  <2>2. QED
    BY <2>1 DEF Registry!RegistryNext
<1>4. ASSUME NEW outcome \in Terminal, Settle(r, outcome)
      PROVE  Registry!RegistryNext
  BY <1>4, SettleFinishes DEF Registry!RegistryNext
<1>5. ASSUME NEW at, NEW where, Proceed(r, "RUNNING", at, where), r \in holders
      PROVE  Registry!RegistryNext
  BY <1>5, ProceedWorks DEF Registry!RegistryNext
<1>6. CASE ExecuteBegins(r)
  BY <1>4, <1>5, <1>6 DEF ExecuteBegins
<1>7. CASE ResumeDecides(r)
  BY <1>1, <1>4, <1>5, <1>7 DEF ResumeDecides, Working
<1>8. CASE EarlyEnds(r)
  BY <1>1, <1>4, <1>5, <1>8 DEF EarlyEnds, Working
<1>9. CASE SurfaceBegins(r)
  BY <1>1, <1>4, <1>5, <1>9 DEF SurfaceBegins, Working
<1>10. CASE SurfaceEnds(r)
  BY <1>1, <1>4, <1>5, <1>10 DEF SurfaceEnds, Working
<1>11. CASE SurfaceAbandoned(r)
  BY <1>4, <1>11 DEF SurfaceAbandoned
<1>12. CASE LateEnds(r)
  BY <1>4, <1>12 DEF LateEnds
<1>13. QED
  BY <1>2, <1>3, <1>6, <1>7, <1>8, <1>9, <1>10, <1>11, <1>12 DEF TaskStep

LEMMA ReconcileRefines ==
  ASSUME IInv, Reconcile
  PROVE  Registry!RegistryNext \/ UNCHANGED Registry!registry
<1>1. cursor \in RunIds /\ UNCHANGED <<driveOf, status>>
  BY DEF Reconcile, IInv, TypeOK, RunIds, durable
<1>2. CASE Resumable(cursor)
  <2>1. driveOf[cursor] \notin Registry!Busy
    BY <1>2, BusyIsOwned DEF Resumable, IInv, ReservationsMatch, Owned
  <2>2. Registry!Resume(cursor)
    BY <1>1, <1>2, <2>1 DEF Reconcile, Resumable, Registry!Resume
  <2>3. QED
    BY <1>1, <2>2 DEF Registry!RegistryNext
<1>3. CASE ~Resumable(cursor)
  BY <1>1, <1>3 DEF Reconcile, Registry!registry
<1>4. QED
  BY <1>2, <1>3

LEMMA OutsideRefines ==
  ASSUME IInv,
         \/ Crash
         \/ Boot
         \/ \E r \in RunIds : AbortRun(r)
         \/ \E s \in Serials : AbandonedExits(s) \/ \E d \in DriveStates : DriveChanges(s, d)
         \/ UNCHANGED vars
  PROVE  Registry!RegistryNext \/ UNCHANGED Registry!registry
<1>1. CASE Crash
  <2>1. Registry!Die
    BY <1>1 DEF Crash, durable, Registry!Die
  <2>2. QED
    BY <2>1 DEF Registry!RegistryNext
<1>2. CASE ~Crash
  BY <1>2 DEF Boot, AbortRun, AbandonedExits, DriveChanges, vars, durable, process, Registry!registry
<1>3. QED
  BY <1>1, <1>2

LEMMA StepRefines == IInv /\ [Next]_vars => [Registry!RegistryNext]_(Registry!registry)
  BY CallerStepRefines, TaskStepRefines, ReconcileRefines, OutsideRefines DEF Next

(* TestEngine implements RunRegistry, for every value of the constants. *)
THEOREM Refinement == Spec => ImplementsRegistry
<1>1. Init => Registry!RegistryInit
  BY DEF Init, Registry!RegistryInit
<1>2. QED
  BY <1>1, StepRefines, EngineInvariant, PTL DEF Spec, ImplementsRegistry, Registry!RegistrySpec

(* A terminal status never changes: the registry cannot do it, so neither *)
(* can the engine.                                                        *)
THEOREM TerminalForever == Spec => TerminalIsForever
<1>1. ASSUME TypeOK, [Registry!RegistryNext]_(Registry!registry)
      PROVE  \A r \in RunIds : status[r] \in Terminal => status'[r] = status[r]
  <2>1. CASE UNCHANGED Registry!registry
    BY <2>1 DEF Registry!registry
  <2>2. ASSUME NEW q \in RunIds, NEW d \in Serials, Registry!Create(q, d)
        PROVE  \A r \in RunIds : status[r] \in Terminal => status'[r] = status[r]
    BY <2>2 DEF Registry!Create, TypeOK, None
  <2>3. CASE Registry!RegistryNext
    BY <1>1, <2>2, <2>3
    DEF Registry!RegistryNext, Registry!Admit, Registry!Strand, Registry!Work,
        Registry!Finish, Registry!Drop, Registry!Resume, Registry!Die, TypeOK
  <2>4. QED
    BY <1>1, <2>1, <2>3
<1>2. IInv /\ [Next]_vars
        => [\A r \in RunIds : status[r] \in Terminal => status'[r] = status[r]]_vars
  BY <1>1, StepRefines DEF IInv
<1>3. QED
  BY <1>2, EngineInvariant, PTL DEF Spec, TerminalIsForever


=============================================================================
