------------------------------- MODULE Console -------------------------------
(***************************************************************************)
(* The web console's picture of the runs, and how it is kept: the realtime *)
(* bridge (api/realtime.ts) broadcasts what the engine emits and replays   *)
(* the running runs to every new connection; the store                     *)
(* (useConsoleStore.ts) folds those events into one live entry per drive,  *)
(* beside the drive list it fetches over HTTP (api/routes/drives.ts).      *)
(*                                                                         *)
(* Events of one connection arrive in order; what is emitted while there   *)
(* is no connection is gone.  HTTP answers travel on their own and may be  *)
(* overtaken by events and by each other.  A run is its index in `runs`,   *)
(* a stage its index in the regime, 0 for "no stage yet".  A percentage is *)
(* known by the number of the progress report of its stage that brought    *)
(* it, 0 for "none yet": the figure itself may fall from one report to the *)
(* next.  The last poll of a self-test reports 0 % (realDeviceApi.ts:378,  *)
(* engine.ts:1091), an NVMe routine counts down (realDeviceApi.ts:348).    *)
(***************************************************************************)
EXTENDS Naturals, Sequences, FiniteSetsExt

CONSTANTS Drives,       \* serials of the drives, all known to the database
          Stages,       \* number of stages of a regime
          Reporting,    \* the stages that report progress
          MaxReports,   \* bound: progress reports of a stage
          MaxRuns,      \* bound: runs ever created
          MaxDrops,     \* bound: connections lost
          MaxRestarts,  \* bound: restarts of the backend
          MaxGets,      \* bound: GET /drives under way
          Endings       \* bound: the terminal statuses that occur

Terminal == {"DONE", "FAILED", "ABORTED"}

ASSUME ConsoleAssumption ==
  /\ Endings \subseteq Terminal
  /\ Stages \in Nat \ {0}
  /\ Reporting \subseteq 2..Stages      \* the first is a SMART snapshot
  /\ {MaxReports, MaxRuns, MaxDrops, MaxRestarts, MaxGets} \subseteq Nat

VARIABLES
  runs,      \* the database: rows of runs, with the newest row of their stage
  link,      \* "up" or "down": is there a connection
  queue,     \* events on their way to the page
  live,      \* store.liveByDrive
  latest,    \* latestRun of every drive of store.drives
  loaded,    \* store.drives has been fetched
  gets,      \* the GET /drives requests under way, by slot
  call,      \* the POST the operator has started and not seen the end of
  drops, restarts,
  missed,    \* history: runs whose end no connection announced to the page
  overtaken  \* history: runs whose end overtook a list that shows them running

vars == <<runs, link, queue, live, latest, loaded, gets, call, drops,
          restarts, missed, overtaken>>

Nobody == [run |-> 0, stage |-> 0, report |-> 0]
NoCall == [kind |-> "none", drive |-> CHOOSE d \in Drives : TRUE, run |-> 0]
NoRun  == [id |-> 0, status |-> "NONE"]
NoGet  == [phase |-> "idle", view |-> [d \in Drives |-> NoRun]]

Active(r) == runs[r].status \notin Terminal
RunsOf(d) == {r \in DOMAIN runs : runs[r].drive = d}

(***************************************************************************)
(* The server's side: what a GET and a new connection read, and emit.      *)
(***************************************************************************)
latestRunFor(d) ==
  IF RunsOf(d) = {} THEN NoRun
  ELSE LET newest == Max(RunsOf(d))
       IN [id |-> newest, status |-> runs[newest].status]

runUpdate(r, status, stage) ==
  [name |-> "run:update", run |-> r, status |-> status, stage |-> stage,
   report |-> 0]
stageProgress(r, stage, report) ==
  [name |-> "stage:progress", run |-> r, status |-> "RUNNING", stage |-> stage,
   report |-> report]

\* Seeded fault: the snapshot leaves out the progress.
snapshotEventsBare ==
  LET running == SelectSeq([i \in 1..Len(runs) |-> i],
                           LAMBDA r : runs[r].status = "RUNNING")
  IN [i \in DOMAIN running |->
        runUpdate(running[i], "RUNNING", runs[running[i]].stage)]

\* One run:update per RUNNING run, and the progress of its stage, if it has one.
eventsOf(r) ==
  LET update   == runUpdate(r, "RUNNING", runs[r].stage)
      progress == stageProgress(r, runs[r].stage, runs[r].report)
  IN IF runs[r].status # "RUNNING" THEN << >>
     ELSE IF runs[r].stage = 0 THEN <<update>> ELSE <<update, progress>>

snapshotEvents ==
  LET newestFirst[r \in 0..Len(runs)] ==
        IF r = 0 THEN << >> ELSE eventsOf(r) \o newestFirst[r - 1]
  IN newestFirst[Len(runs)]

\* A broadcast reaches the page that is connected, and no other.
Emit(event) == queue' = IF link = "up" THEN Append(queue, event) ELSE queue

Init ==
  /\ runs = << >> /\ link = "down" /\ queue = << >>
  /\ live = [d \in Drives |-> Nobody]
  /\ latest = [d \in Drives |-> NoRun]
  /\ loaded = FALSE
  /\ gets = [i \in 1..MaxGets |-> NoGet] /\ call = NoCall
  /\ drops = 0 /\ restarts = 0 /\ missed = {} /\ overtaken = {}

pageVars == <<live, latest, loaded, gets, call, overtaken>>
linkVars == <<link, drops, restarts>>
serverVars == <<runs, queue, missed, linkVars>>

(***************************************************************************)
(* The engine, as far as it writes what the console reads.                 *)
(***************************************************************************)
\* The engine takes one run at a time per drive; no event announces a new one.
Created(d) ==
  /\ Len(runs) < MaxRuns
  /\ \A r \in RunsOf(d) : ~Active(r)
  /\ runs' = Append(runs, [drive |-> d, status |-> "PENDING", stage |-> 0,
                           report |-> 0, held |-> TRUE, redone |-> FALSE])

\* Auto-mode, or another tab.
CreatedElsewhere(d) ==
  /\ Created(d)
  /\ UNCHANGED <<queue, missed, linkVars, pageVars>>

\* #run: RUNNING is written, and the first stage entered, without an await.
Begin(r) ==
  /\ runs[r].status = "PENDING" /\ runs[r].held
  /\ runs' = [runs EXCEPT ![r].status = "RUNNING", ![r].stage = 1]
  /\ Emit(runUpdate(r, "RUNNING", 1))
  /\ UNCHANGED <<missed, linkVars, pageVars>>

\* The next stage, or a later one when stages are skipped.
EnterStage(r, s) ==
  /\ runs[r].status = "RUNNING" /\ runs[r].held /\ s > runs[r].stage
  /\ runs' = [runs EXCEPT ![r].stage = s, ![r].report = 0, ![r].redone = FALSE]
  /\ Emit(runUpdate(r, "RUNNING", s))
  /\ UNCHANGED <<missed, linkVars, pageVars>>

\* reconcile() carries on at the stage the run was at, or at the next one if
\* that was settled: on its row, when a self-test is polled again, or on a new
\* row, which has no progress yet.
Resume(r, s, fresh) ==
  /\ Active(r) /\ ~runs[r].held
  /\ s >= runs[r].stage /\ (runs[r].stage = 0 => s = 1)
  /\ LET again == s = runs[r].stage
     IN runs' = [runs EXCEPT ![r].status = "RUNNING", ![r].stage = s,
                             ![r].held = TRUE, ![r].redone = again /\ fresh,
                             ![r].report = IF again /\ ~fresh THEN @ ELSE 0]
  /\ Emit(runUpdate(r, "RUNNING", s))
  /\ UNCHANGED <<missed, linkVars, pageVars>>

\* #emitStageProgress: a further report, whatever figure it brings.
Progress(r) ==
  /\ runs[r].status = "RUNNING" /\ runs[r].held
  /\ runs[r].stage \in Reporting /\ runs[r].report < MaxReports
  /\ runs' = [runs EXCEPT ![r].report = @ + 1, ![r].redone = FALSE]
  /\ Emit(stageProgress(r, runs[r].stage, runs[r].report + 1))
  /\ UNCHANGED <<missed, linkVars, pageVars>>

\* DONE only after the last stage; FAILED and ABORTED at any point.
End(r, status) ==
  /\ Active(r)
  /\ status = "DONE" => runs[r].stage = Stages /\ runs[r].held
  /\ runs' = [runs EXCEPT ![r].status = status]
  /\ Emit(runUpdate(r, status, 0))
  /\ missed' = IF link = "up" THEN missed ELSE missed \union {r}
  /\ UNCHANGED <<linkVars, pageVars>>

(***************************************************************************)
(* The connection.                                                         *)
(***************************************************************************)
\* What was on its way is gone with the connection, ends of runs included.
Undelivered ==
  {queue[i].run : i \in {j \in DOMAIN queue : queue[j].status \in Terminal}}

\* The page only turns its indicator off: the live entries stay as they are.
Drop ==
  /\ link = "up" /\ drops < MaxDrops
  /\ link' = "down" /\ drops' = drops + 1
  /\ queue' = << >> /\ missed' = missed \union Undelivered
  /\ UNCHANGED <<runs, restarts, pageVars>>

\* The process dies: its runs stay in the database, nobody works on them.  One
\* it was just beginning may be RUNNING already, and at no stage yet.
Restart ==
  /\ restarts < MaxRestarts
  /\ restarts' = restarts + 1
  /\ link' = "down"
  /\ queue' = << >> /\ missed' = missed \union Undelivered
  /\ \E begun \in SUBSET {r \in DOMAIN runs : runs[r].status = "PENDING"} :
       runs' = [r \in DOMAIN runs |->
                  [runs[r] EXCEPT !.held = FALSE,
                                  !.status = IF r \in begun THEN "RUNNING" ELSE @]]
  /\ UNCHANGED <<drops, pageVars>>

\* The server answers a connection with the snapshot, before any broadcast.
Connect ==
  /\ link = "down" /\ link' = "up" /\ queue' = snapshotEvents
  /\ UNCHANGED <<runs, drops, restarts, missed, pageVars>>

(***************************************************************************)
(* The store's handlers.                                                   *)
(***************************************************************************)
handleStageProgress(e) ==
  /\ live' = [live EXCEPT ![runs[e.run].drive] =
                [run |-> e.run, stage |-> e.stage, report |-> e.report]]
  /\ UNCHANGED latest

\* Seeded fault: every update starts the stage at nought.
handleRunUpdateResetting(e) ==
  LET d == runs[e.run].drive
  IN /\ live' = [live EXCEPT ![d] =
                   IF e.status \in Terminal THEN Nobody
                   ELSE [run |-> e.run, report |-> 0,
                         stage |-> IF e.stage # 0 THEN e.stage ELSE @.stage]]
     /\ latest' = IF e.status \in Terminal /\ loaded
                  THEN [latest EXCEPT ![d] = [id |-> e.run, status |-> e.status]]
                  ELSE latest

\* Seeded fault: the end of a run clears the live entry only.
handleRunUpdateLiveOnly(e) ==
  LET existing == live[runs[e.run].drive]
      stage    == IF e.stage # 0 THEN e.stage ELSE existing.stage
  IN /\ live' = [live EXCEPT ![runs[e.run].drive] =
                   IF e.status \in Terminal THEN Nobody
                   ELSE [run |-> e.run, stage |-> stage,
                         report |-> IF stage # existing.stage THEN 0
                                     ELSE existing.report]]
     /\ UNCHANGED latest

handleRunUpdate(e) ==
  LET d        == runs[e.run].drive
      existing == live[d]
      stage    == IF e.stage # 0 THEN e.stage ELSE existing.stage
  IN IF e.status \in Terminal
     THEN /\ latest' = IF loaded
                       THEN [latest EXCEPT ![d] = [id |-> e.run,
                                                   status |-> e.status]]
                       ELSE latest
          /\ live' = [live EXCEPT ![d] = Nobody]
     ELSE /\ live' = [live EXCEPT ![d] =
                        [run |-> e.run, stage |-> stage,
                         report |-> IF stage # existing.stage THEN 0
                                     ELSE existing.report]]
          /\ UNCHANGED latest

Deliver ==
  /\ link = "up" /\ queue # << >>
  /\ queue' = Tail(queue)
  /\ LET e == Head(queue)
         older == {i \in DOMAIN gets : gets[i].view[runs[e.run].drive].id = e.run}
     IN /\ \/ e.name = "stage:progress" /\ handleStageProgress(e)
           \/ e.name = "run:update" /\ handleRunUpdate(e)
        /\ overtaken' = IF e.status \in Terminal /\ older # {}
                        THEN overtaken \union {e.run} ELSE overtaken
  /\ UNCHANGED <<runs, linkVars, loaded, gets, call, missed>>

(***************************************************************************)
(* The drive list, and the two buttons.                                    *)
(***************************************************************************)
\* A request is sent, in a slot that is free.
SendGet ==
  \E i \in DOMAIN gets :
    gets[i].phase = "idle" /\ gets' = [gets EXCEPT ![i].phase = "sent"]

\* refreshDrives(): the dashboard is mounted.
refreshDrives ==
  /\ SendGet
  /\ UNCHANGED <<serverVars, live, latest, loaded, call, overtaken>>

\* GET /drives: the rows are read after the device listing was awaited.
GetDrives(i) ==
  /\ gets[i].phase = "sent"
  /\ gets' = [gets EXCEPT ![i] = [phase |-> "answered",
                                  view |-> [d \in Drives |-> latestRunFor(d)]]]
  /\ UNCHANGED <<serverVars, live, latest, loaded, call, overtaken>>

\* The answer replaces the whole list, however old it is.
GotDrives(i) ==
  /\ gets[i].phase = "answered"
  /\ latest' = gets[i].view /\ loaded' = TRUE
  /\ gets' = [gets EXCEPT ![i] = NoGet]
  /\ UNCHANGED <<serverVars, live, call, overtaken>>

\* A request that fails leaves the list as it was.
GetFails(i) ==
  /\ gets[i].phase = "sent"
  /\ gets' = [gets EXCEPT ![i] = NoGet]
  /\ UNCHANGED <<serverVars, live, latest, loaded, call, overtaken>>

\* The run the row offers to stop: the live entry first, then the list.
activeRunId(d) ==
  IF live[d].run # 0 THEN live[d].run
  ELSE IF latest[d].status \in {"RUNNING", "PENDING"} THEN latest[d].id ELSE 0

\* The two buttons of a row, of which it shows one.
startTest(d) ==
  /\ call = NoCall /\ loaded /\ activeRunId(d) = 0
  /\ call' = [kind |-> "start", drive |-> d, run |-> 0]
  /\ UNCHANGED <<serverVars, live, latest, loaded, gets, overtaken>>

abort(d) ==
  /\ call = NoCall /\ loaded /\ activeRunId(d) # 0
  /\ call' = [kind |-> "abort", drive |-> d, run |-> activeRunId(d)]
  /\ UNCHANGED <<serverVars, live, latest, loaded, gets, overtaken>>

\* POST /runs, or POST /runs/:id/abort of a run that is not over (End is its
\* end): the list is fetched again.
CallSucceeds ==
  /\ \/ call.kind = "start" /\ Created(call.drive)
     \/ call.kind = "abort" /\ Active(call.run) /\ UNCHANGED runs
  /\ call' = NoCall /\ SendGet
  /\ UNCHANGED <<queue, linkVars, missed, live, latest, loaded, overtaken>>

\* A 409 for a drive that is busy or a run that is over, a refusal of the guard,
\* or no answer: the error is shown, and the list stays as it is.
CallRefused ==
  /\ call # NoCall
  /\ call' = NoCall
  /\ UNCHANGED <<serverVars, live, latest, loaded, gets, overtaken>>

Engine ==
  \/ \E d \in Drives : CreatedElsewhere(d)
  \/ \E r \in DOMAIN runs :
       \/ Begin(r) \/ Progress(r)
       \/ \E s \in 1..Stages :
            EnterStage(r, s) \/ \E fresh \in BOOLEAN : Resume(r, s, fresh)
       \/ \E status \in Endings : End(r, status)

Page ==
  \/ refreshDrives \/ CallSucceeds \/ CallRefused
  \/ \E i \in DOMAIN gets : GetDrives(i) \/ GotDrives(i) \/ GetFails(i)
  \/ \E d \in Drives : startTest(d) \/ abort(d)

Next == Engine \/ Drop \/ Restart \/ Connect \/ Deliver \/ Page

Spec == Init /\ [][Next]_vars

(***************************************************************************)
(* Properties.                                                             *)
(***************************************************************************)
AllDelivered == link = "up" /\ queue = << >>

\* A page that has everything the server sent it (useConsoleStore.ts:155,168
\* and realtime.ts:67) shows every running run at its own stage and with its
\* newest percentage, whatever it missed before and whichever run it last
\* showed: only a stage begun again after a restart may keep the old percentage
\* until its next report.
RunningShown ==
  AllDelivered =>
    \A r \in DOMAIN runs :
      runs[r].status = "RUNNING" /\ runs[r].stage # 0 =>
        LET shown == live[runs[r].drive]
        IN /\ shown.run = r /\ shown.stage = runs[r].stage
           /\ shown.report = runs[r].report \/ runs[r].redone

\* "The id of a run the engine still owns for this drive, or null"
\* (DriveTable.vue:54) decides between Start and Stop, and hides the verdict.  It
\* is the id of a run that is over only if the end of that run never reached the
\* page, or overtook a list of drives that was on its way: no other order of
\* updates, progress, lists, starts and stops leaves such a row.
StopOffersOwnedRun ==
  AllDelivered =>
    \A d \in Drives : LET r == activeRunId(d)
                      IN r # 0 => Active(r) \/ r \in missed \union overtaken

\* What the page shows of one run never goes back in time, across lost
\* connections and snapshots (useConsoleStore.ts:190): neither to an earlier
\* stage, nor within a stage to the percentage of an older report, or to none,
\* behind a newer one.  (The percentage may still fall: as the reports do.)
\* Except after a restart of the backend, which begins stages again, or under an
\* entry left by a run whose end the page missed.
ShownNeverGoesBack ==
  [][\A d \in Drives :
       /\ restarts = 0 /\ missed = {}
       /\ live[d].run # 0 /\ live'[d].run = live[d].run
       => \/ live'[d].stage > live[d].stage
          \/ /\ live'[d].stage = live[d].stage
             /\ live'[d].report >= live[d].report]_vars

\* "`connect` fires again after every successful reconnect, and the server
\* replays in-flight run state on each connection, so the indicator and the
\* live view both heal on their own" (useConsoleStore.ts:214): a page that has
\* everything the server sent shows no run that is over.  It does: the snapshot
\* says nothing of runs that ended, and the store drops an entry only on the
\* run:update of the end.
LiveViewHeals ==
  AllDelivered => \A d \in Drives : live[d].run # 0 => Active(live[d].run)
=============================================================================
