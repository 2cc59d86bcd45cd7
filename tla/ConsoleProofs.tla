----------------------------- MODULE ConsoleProofs -----------------------------
(***************************************************************************)
(* For any number of drives, runs, stages, lost connections, restarts and  *)
(* requests: what the page shows of the runs, and what it offers to stop.  *)
(***************************************************************************)
EXTENDS Console, SequenceTheorems, WellFoundedInduction, TLAPS

Rows == [drive : Drives, status : {"PENDING", "RUNNING"} \union Terminal,
         stage : 0..Stages, report : 0..MaxReports, held : BOOLEAN, redone : BOOLEAN]
Events == [name : {"run:update", "stage:progress"}, run : Nat,
           status : {"RUNNING"} \union Terminal, stage : 0..Stages,
           report : 0..MaxReports]
Entries == [run : Nat, stage : 0..Stages, report : 0..MaxReports]
Listings == [id : Nat, status : {"NONE", "PENDING", "RUNNING"} \union Terminal]

Typed ==
  /\ runs \in Seq(Rows) /\ queue \in Seq(Events) /\ link \in {"up", "down"}
  /\ live \in [Drives -> Entries] /\ latest \in [Drives -> Listings]
  /\ gets \in [1..MaxGets -> [phase : {"idle", "sent", "answered"},
                              view : [Drives -> Listings]]]
  /\ call.kind = "start" => call.drive \in Drives
  /\ restarts \in Nat /\ loaded \in BOOLEAN

(* What is so of a row, whatever ran before it. *)
RowsMatch ==
  \A r \in DOMAIN runs :
    /\ runs[r].status = "PENDING" => runs[r].stage = 0
    /\ runs[r].status = "RUNNING" /\ runs[r].held => runs[r].stage # 0
    /\ runs[r].report # 0 => runs[r].stage \in Reporting
    /\ restarts = 0 => runs[r].held /\ ~runs[r].redone

OneActive ==
  \A r, q \in DOMAIN runs :
    Active(r) /\ Active(q) /\ runs[r].drive = runs[q].drive => r = q

(* The end of run r is among the events q, behind the first n of them. *)
EndsAfter(q, n, r) ==
  \E j \in DOMAIN q : j > n /\ q[j].run = r /\ q[j].status \in Terminal

(* A run is not over, or the page will hear of its end, or it never will. *)
Accounted(rows, q, m, n, r) ==
  rows[r].status \notin Terminal \/ r \in m \/ EndsAfter(q, n, r)

Queued ==
  /\ link = "down" => queue = << >>
  /\ \A i \in DOMAIN queue :
       LET e == queue[i]
       IN /\ e.run \in DOMAIN runs /\ runs[e.run].status # "PENDING"
          /\ e.status \in Terminal => e.name = "run:update"
          /\ e.status \notin Terminal => Accounted(runs, queue, missed, i, e.run)

LiveKnown ==
  \A d \in Drives :
    live[d].run # 0 =>
      /\ live[d].run \in DOMAIN runs /\ runs[live[d].run].drive = d
      /\ runs[live[d].run].status # "PENDING"
      /\ Accounted(runs, queue, missed, 0, live[d].run)

(* What a list says is active was so when it was read. *)
Listed(entry, d) ==
  entry.status \in {"RUNNING", "PENDING"} =>
    /\ entry.id \in DOMAIN runs /\ runs[entry.id].drive = d
    /\ Accounted(runs, queue, missed, 0, entry.id) \/ entry.id \in overtaken

ListKnown ==
  /\ ~loaded => \A d \in Drives : latest[d] = NoRun
  /\ \A d \in Drives : Listed(latest[d], d)
  /\ \A i \in 1..MaxGets, d \in Drives : Listed(gets[i].view[d], d)

OwnedInv == Typed /\ RowsMatch /\ OneActive /\ Queued /\ LiveKnown /\ ListKnown

(* What an engine step does to a row, and what it tells the page. *)
Writes(r, row, e) ==
  /\ r \in DOMAIN runs /\ Active(r) /\ row \in Rows /\ e \in Events
  /\ runs' = [runs EXCEPT ![r] = row]
  /\ queue' = IF link = "up" THEN Append(queue, e) ELSE queue
  /\ missed' = IF row.status \in Terminal /\ link # "up"
               THEN missed \union {r} ELSE missed
  /\ UNCHANGED <<link, restarts, live, latest, loaded, gets, call, overtaken>>
  /\ row.drive = runs[r].drive /\ row.status # "PENDING"
  /\ e.run = r /\ e.status = row.status
  /\ row.report # 0 => row.stage \in Reporting
  /\ restarts = 0 => row.held /\ ~row.redone
  /\ row.status = "RUNNING" => e.stage = row.stage /\ row.stage # 0
  /\ row.status \in Terminal => e.name = "run:update" /\ e.stage = 0

(* How the row of a running run relates to the one before, and the event to it. *)
Tells(r, row, e) ==
  \/ row.status \in Terminal /\ row.stage = runs[r].stage /\ row.report = runs[r].report
  \/ /\ e.name = "stage:progress" /\ e.report = row.report
     /\ runs[r].status = "RUNNING"
     /\ row.stage = runs[r].stage /\ row.report > runs[r].report
  \/ /\ e.name = "run:update" /\ row.report = 0 /\ runs[r].stage = 0 /\ row.stage = 1
  \/ /\ e.name = "run:update" /\ row.report = 0 /\ runs[r].stage # 0
     /\ runs[r].status = "RUNNING" /\ row.stage > runs[r].stage
  \/ /\ e.name = "run:update" /\ runs[r].status = "RUNNING" /\ ~runs[r].held /\ row.held
     /\ row.stage = runs[r].stage
     /\ row.report = runs[r].report \/ row.redone

LEMMA RowFacts ==
  ASSUME Typed
  PROVE  /\ Len(runs) \in Nat /\ DOMAIN runs = 1..Len(runs)
         /\ \A r \in DOMAIN runs : r \in Nat \ {0} /\ runs[r] \in Rows
  BY DEF Typed

(* Each of the five rewrites one row. *)
LEMMA BeginWrites ==
  ASSUME Typed, RowsMatch, NEW r \in DOMAIN runs, Begin(r)
  PROVE  \E row, e : Writes(r, row, e) /\ Tells(r, row, e)
<1> DEFINE old == runs[r]
           e == runUpdate(r, "RUNNING", 1)
           row == [drive |-> old.drive, status |-> "RUNNING", stage |-> 1,
                   report |-> old.report,
                   held |-> old.held, redone |-> old.redone]
<1>1. /\ runs \in Seq(Rows) /\ r \in Nat /\ old \in Rows
      /\ old.stage \in 0..Stages /\ old.report \in 0..MaxReports
      /\ old.held \in BOOLEAN /\ old.redone \in BOOLEAN /\ old.drive \in Drives
  BY RowFacts DEF Typed, Rows
<1>2. /\ old.status = "PENDING" => old.stage = 0
      /\ old.status = "RUNNING" /\ old.held => old.stage # 0
      /\ old.report # 0 => old.stage \in Reporting
      /\ restarts = 0 => old.held /\ ~old.redone
  BY DEF RowsMatch
<1>3. row \in Rows /\ e \in Events
  BY <1>1, <1>2, ConsoleAssumption DEF Begin, Rows, Events, runUpdate, stageProgress, Terminal
<1>4. runs' = [runs EXCEPT ![r] = row]
  <2>1. DOMAIN runs' = DOMAIN runs /\ \A q \in DOMAIN runs : q # r => runs'[q] = runs[q]
    BY <1>1 DEF Begin
  <2>2. runs'[r] = [old EXCEPT !.status = "RUNNING", !.stage = 1]
    BY <1>1 DEF Begin
  <2>3. runs'[r] = row
    BY <1>1, <1>2, <2>2 DEF Begin, Rows
  <2>4. runs' = [runs EXCEPT ![r] = runs'[r]]
    BY <1>1, <2>1 DEF Begin
  <2>5. QED
    BY <2>3, <2>4
<1>5. /\ row.drive = old.drive /\ row.status = "RUNNING" /\ row.stage = 1
      /\ row.report = old.report
      /\ row.held = old.held /\ row.redone = old.redone
      /\ e.run = r /\ e.status = "RUNNING" /\ e.stage = 1
      /\ e.name = "run:update"
      /\ e.report = 0
  BY DEF runUpdate, stageProgress
<1>6. /\ Active(r)
      /\ queue' = IF link = "up" THEN Append(queue, e) ELSE queue
      /\ missed' = IF row.status \in Terminal /\ link # "up"
                   THEN missed \union {r} ELSE missed
      /\ UNCHANGED <<link, restarts, live, latest, loaded, gets, call, overtaken>>
  BY <1>5, ConsoleAssumption DEF Begin, Emit, Active, Terminal, linkVars, pageVars
<1> HIDE DEF e, row
<1>7. /\ 0 \notin Reporting /\ Stages \in Nat /\ MaxReports \in Nat
      /\ Endings \subseteq Terminal
  BY ConsoleAssumption
<1>8. /\ row.report # 0 => row.stage \in Reporting
      /\ restarts = 0 => row.held /\ ~row.redone
      /\ row.status = "RUNNING" => e.stage = row.stage /\ row.stage # 0
      /\ row.status \in Terminal => e.name = "run:update" /\ e.stage = 0
  BY <1>1, <1>2, <1>5, <1>7 DEF Begin, Terminal
<1>9. Writes(r, row, e)
  BY <1>3, <1>4, <1>5, <1>6, <1>7, <1>8 DEF Begin, Writes, Terminal
<1>10. Tells(r, row, e)
  BY <1>1, <1>2, <1>5, <1>7 DEF Begin, Tells, Active, Terminal
<1>11. QED
  BY <1>9, <1>10

LEMMA EnterStageWrites ==
  ASSUME Typed, RowsMatch, NEW r \in DOMAIN runs, NEW s \in 1..Stages, EnterStage(r, s)
  PROVE  \E row, e : Writes(r, row, e) /\ Tells(r, row, e)
<1> DEFINE old == runs[r]
           e == runUpdate(r, "RUNNING", s)
           row == [drive |-> old.drive, status |-> "RUNNING", stage |-> s,
                   report |-> 0,
                   held |-> old.held, redone |-> FALSE]
<1>1. /\ runs \in Seq(Rows) /\ r \in Nat /\ old \in Rows
      /\ old.stage \in 0..Stages /\ old.report \in 0..MaxReports
      /\ old.held \in BOOLEAN /\ old.redone \in BOOLEAN /\ old.drive \in Drives
  BY RowFacts DEF Typed, Rows
<1>2. /\ old.status = "PENDING" => old.stage = 0
      /\ old.status = "RUNNING" /\ old.held => old.stage # 0
      /\ old.report # 0 => old.stage \in Reporting
      /\ restarts = 0 => old.held /\ ~old.redone
  BY DEF RowsMatch
<1>3. row \in Rows /\ e \in Events
  BY <1>1, <1>2, ConsoleAssumption DEF EnterStage, Rows, Events, runUpdate, stageProgress, Terminal
<1>4. runs' = [runs EXCEPT ![r] = row]
  <2>1. DOMAIN runs' = DOMAIN runs /\ \A q \in DOMAIN runs : q # r => runs'[q] = runs[q]
    BY <1>1 DEF EnterStage
  <2>2. runs'[r] = [old EXCEPT !.stage = s, !.report = 0, !.redone = FALSE]
    BY <1>1 DEF EnterStage
  <2>3. runs'[r] = row
    BY <1>1, <1>2, <2>2 DEF EnterStage, Rows
  <2>4. runs' = [runs EXCEPT ![r] = runs'[r]]
    BY <1>1, <2>1 DEF EnterStage
  <2>5. QED
    BY <2>3, <2>4
<1>5. /\ row.drive = old.drive /\ row.status = "RUNNING" /\ row.stage = s
      /\ row.report = 0
      /\ row.held = old.held /\ ~row.redone
      /\ e.run = r /\ e.status = "RUNNING" /\ e.stage = s
      /\ e.name = "run:update"
      /\ e.report = 0
  BY DEF runUpdate, stageProgress
<1>6. /\ Active(r)
      /\ queue' = IF link = "up" THEN Append(queue, e) ELSE queue
      /\ missed' = IF row.status \in Terminal /\ link # "up"
                   THEN missed \union {r} ELSE missed
      /\ UNCHANGED <<link, restarts, live, latest, loaded, gets, call, overtaken>>
  BY <1>5, ConsoleAssumption DEF EnterStage, Emit, Active, Terminal, linkVars, pageVars
<1> HIDE DEF e, row
<1>7. /\ 0 \notin Reporting /\ Stages \in Nat /\ MaxReports \in Nat
      /\ Endings \subseteq Terminal
  BY ConsoleAssumption
<1>8. /\ row.report # 0 => row.stage \in Reporting
      /\ restarts = 0 => row.held /\ ~row.redone
      /\ row.status = "RUNNING" => e.stage = row.stage /\ row.stage # 0
      /\ row.status \in Terminal => e.name = "run:update" /\ e.stage = 0
  BY <1>1, <1>2, <1>5, <1>7 DEF EnterStage, Terminal
<1>9. Writes(r, row, e)
  BY <1>3, <1>4, <1>5, <1>6, <1>7, <1>8 DEF EnterStage, Writes, Terminal
<1>10. Tells(r, row, e)
  BY <1>1, <1>2, <1>5, <1>7 DEF EnterStage, Tells, Active, Terminal
<1>11. QED
  BY <1>9, <1>10

LEMMA ResumeWrites ==
  ASSUME Typed, RowsMatch, NEW r \in DOMAIN runs, NEW s \in 1..Stages, NEW fresh \in BOOLEAN, Resume(r, s, fresh)
  PROVE  \E row, e : Writes(r, row, e) /\ Tells(r, row, e)
<1> DEFINE old == runs[r]
           e == runUpdate(r, "RUNNING", s)
           row == [drive |-> old.drive, status |-> "RUNNING", stage |-> s,
                   report |-> IF s = old.stage /\ ~fresh THEN old.report ELSE 0,
                   held |-> TRUE, redone |-> s = old.stage /\ fresh]
<1>1. /\ runs \in Seq(Rows) /\ r \in Nat /\ old \in Rows
      /\ old.stage \in 0..Stages /\ old.report \in 0..MaxReports
      /\ old.held \in BOOLEAN /\ old.redone \in BOOLEAN /\ old.drive \in Drives
  BY RowFacts DEF Typed, Rows
<1>2. /\ old.status = "PENDING" => old.stage = 0
      /\ old.status = "RUNNING" /\ old.held => old.stage # 0
      /\ old.report # 0 => old.stage \in Reporting
      /\ restarts = 0 => old.held /\ ~old.redone
  BY DEF RowsMatch
<1>3. row \in Rows /\ e \in Events
  BY <1>1, <1>2, ConsoleAssumption DEF Resume, Rows, Events, runUpdate, stageProgress, Terminal
<1>4. runs' = [runs EXCEPT ![r] = row]
  <2>1. DOMAIN runs' = DOMAIN runs /\ \A q \in DOMAIN runs : q # r => runs'[q] = runs[q]
    BY <1>1 DEF Resume
  <2>2. runs'[r] = [old EXCEPT !.status = "RUNNING", !.stage = s, !.held = TRUE,
                              !.redone = s = old.stage /\ fresh,
                              !.report = IF s = old.stage /\ ~fresh THEN @ ELSE 0]
    BY <1>1 DEF Resume
  <2>3. runs'[r] = row
    BY <1>1, <1>2, <2>2 DEF Resume, Rows
  <2>4. runs' = [runs EXCEPT ![r] = runs'[r]]
    BY <1>1, <2>1 DEF Resume
  <2>5. QED
    BY <2>3, <2>4
<1>5. /\ row.drive = old.drive /\ row.status = "RUNNING" /\ row.stage = s
      /\ row.report = IF s = old.stage /\ ~fresh THEN old.report ELSE 0
      /\ row.held /\ (row.redone <=> s = old.stage /\ fresh)
      /\ e.run = r /\ e.status = "RUNNING" /\ e.stage = s
      /\ e.name = "run:update"
      /\ e.report = 0
  BY DEF runUpdate, stageProgress
<1>6. /\ Active(r)
      /\ queue' = IF link = "up" THEN Append(queue, e) ELSE queue
      /\ missed' = IF row.status \in Terminal /\ link # "up"
                   THEN missed \union {r} ELSE missed
      /\ UNCHANGED <<link, restarts, live, latest, loaded, gets, call, overtaken>>
  BY <1>5, ConsoleAssumption DEF Resume, Emit, Active, Terminal, linkVars, pageVars
<1> HIDE DEF e, row
<1>7. /\ 0 \notin Reporting /\ Stages \in Nat /\ MaxReports \in Nat
      /\ Endings \subseteq Terminal
  BY ConsoleAssumption
<1>8. /\ row.report # 0 => row.stage \in Reporting
      /\ restarts = 0 => row.held /\ ~row.redone
      /\ row.status = "RUNNING" => e.stage = row.stage /\ row.stage # 0
      /\ row.status \in Terminal => e.name = "run:update" /\ e.stage = 0
  BY <1>1, <1>2, <1>5, <1>7 DEF Resume, Terminal
<1>9. Writes(r, row, e)
  BY <1>3, <1>4, <1>5, <1>6, <1>7, <1>8 DEF Resume, Writes, Terminal
<1>10. Tells(r, row, e)
  <2>1. old.status \in {"PENDING", "RUNNING"}
    BY <1>1 DEF Resume, Active, Rows
  <2>2. /\ ~old.held /\ s >= old.stage /\ s \in Nat /\ old.stage \in Nat
        /\ old.stage = 0 => s = 1
    BY <1>1, <1>7 DEF Resume
  <2>3. CASE old.stage = 0
    BY <1>5, <2>2, <2>3 DEF Tells
  <2>4. CASE old.stage # 0 /\ s = old.stage
    <3>1. row.report = old.report \/ row.redone
      BY <1>5, <2>4
    <3>2. QED
      BY <1>2, <1>5, <2>1, <2>2, <2>4, <3>1 DEF Tells
  <2>5. CASE old.stage # 0 /\ s # old.stage
    BY <1>2, <1>5, <2>1, <2>2, <2>5 DEF Tells
  <2>6. QED
    BY <2>3, <2>4, <2>5
<1>11. QED
  BY <1>9, <1>10

LEMMA ProgressWrites ==
  ASSUME Typed, RowsMatch, NEW r \in DOMAIN runs, Progress(r)
  PROVE  \E row, e : Writes(r, row, e) /\ Tells(r, row, e)
<1> DEFINE old == runs[r]
           e == stageProgress(r, old.stage, old.report + 1)
           row == [drive |-> old.drive, status |-> old.status, stage |-> old.stage,
                   report |-> old.report + 1,
                   held |-> old.held, redone |-> FALSE]
<1>1. /\ runs \in Seq(Rows) /\ r \in Nat /\ old \in Rows
      /\ old.stage \in 0..Stages /\ old.report \in 0..MaxReports
      /\ old.held \in BOOLEAN /\ old.redone \in BOOLEAN /\ old.drive \in Drives
  BY RowFacts DEF Typed, Rows
<1>2. /\ old.status = "PENDING" => old.stage = 0
      /\ old.status = "RUNNING" /\ old.held => old.stage # 0
      /\ old.report # 0 => old.stage \in Reporting
      /\ restarts = 0 => old.held /\ ~old.redone
  BY DEF RowsMatch
<1>3. row \in Rows /\ e \in Events
  BY <1>1, <1>2, ConsoleAssumption DEF Progress, Rows, Events, runUpdate, stageProgress, Terminal
<1>4. runs' = [runs EXCEPT ![r] = row]
  <2>1. DOMAIN runs' = DOMAIN runs /\ \A q \in DOMAIN runs : q # r => runs'[q] = runs[q]
    BY <1>1 DEF Progress
  <2>2. runs'[r] = [old EXCEPT !.report = @ + 1, !.redone = FALSE]
    BY <1>1 DEF Progress
  <2>3. runs'[r] = row
    BY <1>1, <1>2, <2>2 DEF Progress, Rows
  <2>4. runs' = [runs EXCEPT ![r] = runs'[r]]
    BY <1>1, <2>1 DEF Progress
  <2>5. QED
    BY <2>3, <2>4
<1>5. /\ row.drive = old.drive /\ row.status = old.status /\ row.stage = old.stage
      /\ row.report = old.report + 1
      /\ row.held = old.held /\ ~row.redone
      /\ e.run = r /\ e.status = "RUNNING" /\ e.stage = old.stage
      /\ e.name = "stage:progress"
      /\ e.report = old.report + 1
  BY DEF runUpdate, stageProgress
<1>6. /\ Active(r)
      /\ queue' = IF link = "up" THEN Append(queue, e) ELSE queue
      /\ missed' = IF row.status \in Terminal /\ link # "up"
                   THEN missed \union {r} ELSE missed
      /\ UNCHANGED <<link, restarts, live, latest, loaded, gets, call, overtaken>>
  BY <1>5, ConsoleAssumption DEF Progress, Emit, Active, Terminal, linkVars, pageVars
<1> HIDE DEF e, row
<1>7. /\ 0 \notin Reporting /\ Stages \in Nat /\ MaxReports \in Nat
      /\ Endings \subseteq Terminal
  BY ConsoleAssumption
<1>8. /\ row.report # 0 => row.stage \in Reporting
      /\ restarts = 0 => row.held /\ ~row.redone
      /\ row.status = "RUNNING" => e.stage = row.stage /\ row.stage # 0
      /\ row.status \in Terminal => e.name = "run:update" /\ e.stage = 0
  BY <1>1, <1>2, <1>5, <1>7 DEF Progress, Terminal
<1>9. Writes(r, row, e)
  BY <1>3, <1>4, <1>5, <1>6, <1>7, <1>8 DEF Progress, Writes, Terminal
<1>10. Tells(r, row, e)
  BY <1>1, <1>2, <1>5, <1>7 DEF Progress, Tells, Active, Terminal
<1>11. QED
  BY <1>9, <1>10

LEMMA EndWrites ==
  ASSUME Typed, RowsMatch, NEW r \in DOMAIN runs, NEW status \in Endings, End(r, status)
  PROVE  \E row, e : Writes(r, row, e) /\ Tells(r, row, e)
<1> DEFINE old == runs[r]
           e == runUpdate(r, status, 0)
           row == [drive |-> old.drive, status |-> status, stage |-> old.stage,
                   report |-> old.report,
                   held |-> old.held, redone |-> old.redone]
<1>1. /\ runs \in Seq(Rows) /\ r \in Nat /\ old \in Rows
      /\ old.stage \in 0..Stages /\ old.report \in 0..MaxReports
      /\ old.held \in BOOLEAN /\ old.redone \in BOOLEAN /\ old.drive \in Drives
  BY RowFacts DEF Typed, Rows
<1>2. /\ old.status = "PENDING" => old.stage = 0
      /\ old.status = "RUNNING" /\ old.held => old.stage # 0
      /\ old.report # 0 => old.stage \in Reporting
      /\ restarts = 0 => old.held /\ ~old.redone
  BY DEF RowsMatch
<1>3. row \in Rows /\ e \in Events
  BY <1>1, <1>2, ConsoleAssumption DEF End, Rows, Events, runUpdate, stageProgress, Terminal
<1>4. runs' = [runs EXCEPT ![r] = row]
  <2>1. DOMAIN runs' = DOMAIN runs /\ \A q \in DOMAIN runs : q # r => runs'[q] = runs[q]
    BY <1>1 DEF End
  <2>2. runs'[r] = [old EXCEPT !.status = status]
    BY <1>1 DEF End
  <2>3. runs'[r] = row
    BY <1>1, <1>2, <2>2 DEF End, Rows
  <2>4. runs' = [runs EXCEPT ![r] = runs'[r]]
    BY <1>1, <2>1 DEF End
  <2>5. QED
    BY <2>3, <2>4
<1>5. /\ row.drive = old.drive /\ row.status = status /\ row.stage = old.stage
      /\ row.report = old.report
      /\ row.held = old.held /\ row.redone = old.redone
      /\ e.run = r /\ e.status = status /\ e.stage = 0
      /\ e.name = "run:update"
      /\ e.report = 0
  BY DEF runUpdate, stageProgress
<1>6. /\ Active(r)
      /\ queue' = IF link = "up" THEN Append(queue, e) ELSE queue
      /\ missed' = IF row.status \in Terminal /\ link # "up"
                   THEN missed \union {r} ELSE missed
      /\ UNCHANGED <<link, restarts, live, latest, loaded, gets, call, overtaken>>
  BY <1>5, ConsoleAssumption DEF End, Emit, Active, Terminal, linkVars, pageVars
<1> HIDE DEF e, row
<1>7. /\ 0 \notin Reporting /\ Stages \in Nat /\ MaxReports \in Nat
      /\ Endings \subseteq Terminal
  BY ConsoleAssumption
<1>8. /\ row.report # 0 => row.stage \in Reporting
      /\ restarts = 0 => row.held /\ ~row.redone
      /\ row.status = "RUNNING" => e.stage = row.stage /\ row.stage # 0
      /\ row.status \in Terminal => e.name = "run:update" /\ e.stage = 0
  BY <1>1, <1>2, <1>5, <1>7 DEF End, Terminal
<1>9. Writes(r, row, e)
  BY <1>3, <1>4, <1>5, <1>6, <1>7, <1>8 DEF End, Writes, Terminal
<1>10. Tells(r, row, e)
  BY <1>1, <1>2, <1>5, <1>7 DEF End, Tells, Active, Terminal
<1>11. QED
  BY <1>9, <1>10

LEMMA InitOwned == Init => OwnedInv
<1> SUFFICES ASSUME Init PROVE OwnedInv
  OBVIOUS
<1>1. /\ 0 \in Nat /\ 0 \in 0..Stages /\ 0 \in 0..MaxReports
      /\ "NONE" \in {"NONE", "PENDING", "RUNNING"} \union Terminal
  BY ConsoleAssumption
<1>2. Nobody \in Entries /\ NoRun \in Listings
  BY <1>1 DEF Nobody, NoRun, Entries, Listings
<1>3. NoGet \in [phase : {"idle", "sent", "answered"}, view : [Drives -> Listings]]
  BY <1>2 DEF NoGet
<1>4. Typed
  <2>1. runs \in Seq(Rows) /\ queue \in Seq(Events)
    BY DEF Init
  <2>2. /\ live \in [Drives -> Entries] /\ latest \in [Drives -> Listings]
        /\ gets \in [1..MaxGets -> [phase : {"idle", "sent", "answered"},
                                    view : [Drives -> Listings]]]
    BY <1>2, <1>3 DEF Init
  <2>3. call.kind # "start" /\ link = "down" /\ restarts = 0 /\ loaded = FALSE
    BY DEF Init, NoCall
  <2>4. QED
    BY <2>1, <2>2, <2>3 DEF Typed
<1>5. RowsMatch /\ OneActive /\ Queued
  BY DEF Init, RowsMatch, OneActive, Queued
<1>6. LiveKnown
  BY DEF Init, LiveKnown, Nobody
<1>7. ListKnown
  BY DEF Init, ListKnown, Listed, NoRun, NoGet
<1>8. QED
  BY <1>4, <1>5, <1>6, <1>7 DEF OwnedInv

(* Lists and entries stay right if every run they name stays accounted for. *)
LEMMA KnownKept ==
  ASSUME LiveKnown, ListKnown,
         \A r \in DOMAIN runs :
           /\ r \in DOMAIN runs' /\ runs'[r].drive = runs[r].drive
           /\ runs[r].status # "PENDING" => runs'[r].status # "PENDING"
           /\ Accounted(runs, queue, missed, 0, r)
                => Accounted(runs', queue', missed', 0, r),
         overtaken \subseteq overtaken'
  PROVE  /\ live' = live => LiveKnown'
         /\ \A entry, d : Listed(entry, d) =>
              (entry.status \in {"RUNNING", "PENDING"} =>
                 /\ entry.id \in DOMAIN runs' /\ runs'[entry.id].drive = d
                 /\ \/ Accounted(runs', queue', missed', 0, entry.id)
                    \/ entry.id \in overtaken')
         /\ UNCHANGED <<latest, loaded, gets>> => ListKnown'
<1>1. live' = live => LiveKnown'
  BY DEF LiveKnown
<1>2. \A entry, d : Listed(entry, d) =>
              (entry.status \in {"RUNNING", "PENDING"} =>
                 /\ entry.id \in DOMAIN runs' /\ runs'[entry.id].drive = d
                 /\ \/ Accounted(runs', queue', missed', 0, entry.id)
                    \/ entry.id \in overtaken')
  BY DEF Listed
<1>3. UNCHANGED <<latest, loaded, gets>> => ListKnown'
  BY <1>2 DEF ListKnown, Listed
<1>4. QED
  BY <1>1, <1>2, <1>3

LEMMA WritesKeepOwned ==
  ASSUME OwnedInv, NEW r, NEW row, NEW e, Writes(r, row, e)
  PROVE  OwnedInv'
<1>1. /\ runs \in Seq(Rows) /\ queue \in Seq(Events)
      /\ link = "down" => queue = << >>
      /\ link \in {"up", "down"}
  BY DEF OwnedInv, Typed, Queued
<1>2. /\ r \in DOMAIN runs /\ runs[r].status \notin Terminal /\ row \in Rows /\ e \in Events
      /\ runs' = [runs EXCEPT ![r] = row]
      /\ queue' = IF link = "up" THEN Append(queue, e) ELSE queue
      /\ missed' = IF row.status \in Terminal /\ link # "up" THEN missed \union {r} ELSE missed
      /\ UNCHANGED <<link, restarts, live, latest, loaded, gets, call, overtaken>>
      /\ row.drive = runs[r].drive /\ row.status # "PENDING"
      /\ e.run = r /\ e.status = row.status
  BY DEF Writes, Active
<1>3. /\ runs' \in Seq(Rows) /\ DOMAIN runs' = DOMAIN runs /\ runs'[r] = row
      /\ \A q \in DOMAIN runs : q # r => runs'[q] = runs[q]
  BY <1>1, <1>2
<1>4. /\ queue' \in Seq(Events) /\ Len(queue) \in Nat
      /\ DOMAIN queue = 1..Len(queue)
      /\ \A i \in DOMAIN queue : i \in DOMAIN queue' /\ queue'[i] = queue[i]
      /\ link = "up" => /\ DOMAIN queue' = 1..(Len(queue) + 1)
                        /\ queue'[Len(queue) + 1] = e
      /\ link # "up" => queue' = queue
  BY <1>1, <1>2
<1>5. Typed'
  BY <1>2, <1>3, <1>4 DEF OwnedInv, Typed
<1>6. RowsMatch'
  BY <1>2, <1>3 DEF OwnedInv, RowsMatch, Writes
<1>7. OneActive'
  BY <1>2, <1>3 DEF OwnedInv, OneActive, Active
<1>8. ASSUME NEW q \in DOMAIN runs, NEW n \in 0..Len(queue),
             Accounted(runs, queue, missed, n, q)
      PROVE  Accounted(runs', queue', missed', n, q)
  <2>1. CASE q = r /\ row.status \in Terminal /\ link = "up"
    <3>1. Len(queue) + 1 \in DOMAIN queue' /\ Len(queue) + 1 > n
      BY <1>4, <2>1
    <3>2. QED
      BY <1>2, <1>4, <2>1, <3>1 DEF Accounted, EndsAfter
  <2>2. CASE q = r /\ row.status \in Terminal /\ link # "up"
    BY <1>2, <2>2 DEF Accounted
  <2>3. CASE q = r /\ row.status \notin Terminal
    BY <1>3, <2>3 DEF Accounted
  <2>4. CASE q # r
    BY <1>2, <1>3, <1>4, <1>8, <2>4 DEF Accounted, EndsAfter
  <2>5. QED
    BY <2>1, <2>2, <2>3, <2>4
<1>9. Queued'
  <2>1. link' = "down" => queue' = << >>
    BY <1>1, <1>2
  <2>2. ASSUME NEW i \in DOMAIN queue'
        PROVE  /\ queue'[i].run \in DOMAIN runs' /\ runs'[queue'[i].run].status # "PENDING"
               /\ queue'[i].status \in Terminal => queue'[i].name = "run:update"
               /\ queue'[i].status \notin Terminal
                    => Accounted(runs', queue', missed', i, queue'[i].run)
    <3>1. CASE i \in DOMAIN queue
      <4>1. /\ queue'[i] = queue[i] /\ i \in 0..Len(queue)
        BY <1>4, <3>1
      <4>2. /\ queue[i].run \in DOMAIN runs /\ runs[queue[i].run].status # "PENDING"
            /\ queue[i].status \in Terminal => queue[i].name = "run:update"
            /\ queue[i].status \notin Terminal
                 => Accounted(runs, queue, missed, i, queue[i].run)
        BY <3>1 DEF OwnedInv, Queued
      <4>3. QED
        BY <1>2, <1>3, <1>8, <4>1, <4>2
    <3>2. CASE i \notin DOMAIN queue
      <4>1. queue'[i] = e
        BY <1>4, <2>2, <3>2
      <4>2. QED
        BY <1>2, <1>3, <4>1 DEF Accounted, Writes
    <3>3. QED
      BY <3>1, <3>2
  <2>3. QED
    BY <2>1, <2>2 DEF Queued
<1>10. LiveKnown' /\ ListKnown'
  <2>1. \A q \in DOMAIN runs : /\ q \in DOMAIN runs' /\ runs'[q].drive = runs[q].drive
                               /\ runs[q].status # "PENDING" => runs'[q].status # "PENDING"
    BY <1>2, <1>3
  <2>2. 0 \in 0..Len(queue)
    BY <1>4
  <2>3. QED
    BY <1>2, <1>8, <2>1, <2>2, KnownKept DEF OwnedInv
<1>11. QED
  BY <1>5, <1>6, <1>7, <1>9, <1>10 DEF OwnedInv

(* A step that adds a row at most, and touches neither the queue nor the rest. *)
LEMMA GrowthKeepsOwned ==
  ASSUME OwnedInv,
         UNCHANGED runs \/ \E d \in Drives : Created(d),
         UNCHANGED <<queue, missed, link, restarts, overtaken>>
  PROVE  /\ runs' \in Seq(Rows) /\ RowsMatch' /\ OneActive' /\ Queued'
         /\ \A r \in DOMAIN runs :
              /\ r \in DOMAIN runs' /\ runs'[r].drive = runs[r].drive
              /\ runs[r].status # "PENDING" => runs'[r].status # "PENDING"
              /\ Accounted(runs, queue, missed, 0, r)
                   => Accounted(runs', queue', missed', 0, r)
<1>1. CASE UNCHANGED runs
  BY <1>1 DEF OwnedInv, Typed, RowsMatch, OneActive, Active, Queued
<1>2. ASSUME NEW d \in Drives, Created(d)
      PROVE  /\ runs' \in Seq(Rows) /\ RowsMatch' /\ OneActive' /\ Queued'
             /\ \A r \in DOMAIN runs :
                  /\ r \in DOMAIN runs' /\ runs'[r].drive = runs[r].drive
                  /\ runs[r].status # "PENDING" => runs'[r].status # "PENDING"
                  /\ Accounted(runs, queue, missed, 0, r)
                       => Accounted(runs', queue', missed', 0, r)
  <2> DEFINE new == [drive |-> d, status |-> "PENDING", stage |-> 0,
                     report |-> 0, held |-> TRUE, redone |-> FALSE]
             n == Len(runs) + 1
  <2>1. /\ runs \in Seq(Rows) /\ runs' = Append(runs, new)
        /\ \A r \in DOMAIN runs : runs[r].drive = d => runs[r].status \in Terminal
    BY <1>2 DEF OwnedInv, Typed, Created, RunsOf, Active
  <2>2. new \in Rows
    <3>1. 0 \in 0..Stages /\ 0 \in 0..MaxReports
      BY ConsoleAssumption
    <3>2. QED
      BY <3>1 DEF Rows
  <2>3. new.drive = d /\ new.status = "PENDING" /\ new.stage = 0 /\ new.report = 0
        /\ new.held /\ ~new.redone
    OBVIOUS
  <2> HIDE DEF new
  <2>4. /\ runs' \in Seq(Rows) /\ DOMAIN runs = 1..Len(runs) /\ Len(runs) \in Nat
        /\ DOMAIN runs' = 1..n /\ runs'[n] = new
        /\ \A r \in DOMAIN runs : r \in DOMAIN runs' /\ runs'[r] = runs[r]
        /\ \A r \in DOMAIN runs' : r # n => r \in DOMAIN runs
    BY <2>1, <2>2
  <2>5. RowsMatch'
    BY <2>3, <2>4 DEF OwnedInv, RowsMatch
  <2>6. OneActive'
    <3> SUFFICES ASSUME NEW r \in DOMAIN runs', NEW q \in DOMAIN runs',
                        runs'[r].status \notin Terminal, runs'[q].status \notin Terminal,
                        runs'[r].drive = runs'[q].drive
                 PROVE  r = q
      BY DEF OneActive, Active
    <3>1. CASE r \in DOMAIN runs /\ q \in DOMAIN runs
      BY <2>4, <3>1 DEF OwnedInv, OneActive, Active
    <3>2. CASE r = n \/ q = n
      BY <2>1, <2>3, <2>4, <3>2
    <3>3. QED
      BY <2>4, <3>1, <3>2
  <2>7. \A r \in DOMAIN runs : \A k : Accounted(runs, queue, missed, k, r)
                                      => Accounted(runs', queue', missed', k, r)
    BY <2>4 DEF Accounted
  <2>8. Queued'
    BY <2>4, <2>7 DEF OwnedInv, Queued
  <2>9. QED
    BY <2>4, <2>5, <2>6, <2>7, <2>8
<1>3. QED
  BY <1>1, <1>2

(* The newest run of a drive is one of its own. *)
LEMMA NewestIs ==
  ASSUME Typed, NEW d \in Drives
  PROVE  /\ latestRunFor(d) \in Listings
         /\ latestRunFor(d).status \in {"RUNNING", "PENDING"}
              => /\ latestRunFor(d).id \in RunsOf(d)
                 /\ runs[latestRunFor(d).id].status \notin Terminal
<1>1. CASE RunsOf(d) = {}
  BY <1>1 DEF latestRunFor, NoRun, Listings
<1>2. CASE RunsOf(d) # {}
  <2> DEFINE newest == Max(RunsOf(d))
             T == {Len(runs) - r : r \in RunsOf(d)}
             R == OpToRel(<, Nat)
  <2>1. RunsOf(d) \subseteq 1..Len(runs) /\ Len(runs) \in Nat
    BY RowFacts DEF RunsOf
  <2>2. T \subseteq Nat /\ T # {}
    BY <1>2, <2>1
  <2>3. PICK x \in T : \A y \in T : ~ (<<y, x>> \in R)
    <3>1. IsWellFoundedOn(R, Nat)
      BY NatLessThanWellFounded
    <3> HIDE DEF R, T
    <3>2. QED
      BY <2>2, <3>1, WFMin
  <2>4. PICK r \in RunsOf(d) : x = Len(runs) - r
    BY <2>3
  <2>5. ASSUME NEW q \in RunsOf(d)
        PROVE  r >= q
    <3>1. Len(runs) - q \in T
      OBVIOUS
    <3>2. ~ (Len(runs) - q < x)
      BY <2>2, <2>3, <3>1 DEF OpToRel
    <3>3. QED
      BY <2>1, <2>4, <3>2
  <2>6. newest \in RunsOf(d)
    BY <2>5 DEF Max
  <2> HIDE DEF newest
  <2>7. latestRunFor(d) = [id |-> newest, status |-> runs[newest].status]
    BY <1>2 DEF latestRunFor, newest
  <2>8. newest \in Nat /\ runs[newest] \in Rows
    BY <2>6, RowFacts DEF RunsOf
  <2>9. QED
    BY <2>6, <2>7, <2>8 DEF Listings, Rows, Terminal
<1>3. QED
  BY <1>1, <1>2

LEMMA PageKeepsOwned ==
  ASSUME OwnedInv, Page
  PROVE  OwnedInv'
<1>1. /\ UNCHANGED runs \/ \E d \in Drives : Created(d)
      /\ UNCHANGED <<queue, missed, link, restarts, overtaken, live>>
  BY DEF OwnedInv, Typed, Page, refreshDrives, CallSucceeds, CallRefused, GetDrives, GotDrives,
         GetFails, startTest, abort, serverVars, linkVars
<1>2. /\ runs' \in Seq(Rows) /\ RowsMatch' /\ OneActive' /\ Queued'
      /\ \A r \in DOMAIN runs :
           /\ r \in DOMAIN runs' /\ runs'[r].drive = runs[r].drive
           /\ runs[r].status # "PENDING" => runs'[r].status # "PENDING"
           /\ Accounted(runs, queue, missed, 0, r)
                => Accounted(runs', queue', missed', 0, r)
  BY <1>1, GrowthKeepsOwned
<1>3. /\ LiveKnown'
      /\ \A entry, d : Listed(entry, d) =>
           (entry.status \in {"RUNNING", "PENDING"} =>
              /\ entry.id \in DOMAIN runs' /\ runs'[entry.id].drive = d
              /\ \/ Accounted(runs', queue', missed', 0, entry.id)
                 \/ entry.id \in overtaken')
      /\ UNCHANGED <<latest, loaded, gets>> => ListKnown'
  BY <1>1, <1>2, KnownKept DEF OwnedInv
<1> DEFINE Gets == [phase : {"idle", "sent", "answered"}, view : [Drives -> Listings]]
           Fits(entry, d) ==
             entry.status \in {"RUNNING", "PENDING"} =>
               /\ entry.id \in DOMAIN runs' /\ runs'[entry.id].drive = d
               /\ \/ Accounted(runs', queue', missed', 0, entry.id)
                  \/ entry.id \in overtaken'
           Goal ==
             /\ latest' \in [Drives -> Listings] /\ gets' \in [1..MaxGets -> Gets]
             /\ loaded' \in BOOLEAN
             /\ ~loaded' => \A d \in Drives : latest'[d] = NoRun
             /\ \A d \in Drives : Fits(latest'[d], d)
             /\ \A i \in 1..MaxGets, d \in Drives : Fits(gets'[i].view[d], d)
<1>4. /\ NoRun \in Listings /\ NoGet \in Gets /\ \A d \in Drives : NoGet.view[d] = NoRun
      /\ NoRun.status \notin {"RUNNING", "PENDING"}
  <2>1. NoRun \in Listings
    BY DEF NoRun, Listings
  <2>2. QED
    BY <2>1 DEF NoRun, NoGet
<1>5. /\ latest \in [Drives -> Listings] /\ gets \in [1..MaxGets -> Gets] /\ loaded \in BOOLEAN
      /\ ~loaded => \A d \in Drives : latest[d] = NoRun
      /\ \A d \in Drives : Fits(latest[d], d)
      /\ \A i \in 1..MaxGets, d \in Drives : Fits(gets[i].view[d], d)
  BY <1>3 DEF OwnedInv, Typed, ListKnown
<1>6. Goal
  <2>1. CASE SendGet /\ UNCHANGED <<latest, loaded>>
    <3>1. PICK j \in 1..MaxGets : gets' = [gets EXCEPT ![j].phase = "sent"]
      BY <1>5, <2>1 DEF SendGet
    <3>2. gets' \in [1..MaxGets -> Gets] /\ \A i \in 1..MaxGets : gets'[i].view = gets[i].view
      BY <1>5, <3>1
    <3>3. QED
      BY <1>5, <2>1, <3>2
  <2>2. ASSUME NEW j \in 1..MaxGets, GetDrives(j)
        PROVE  Goal
    <3> DEFINE seen == [d \in Drives |-> latestRunFor(d)]
    <3>1. gets' = [gets EXCEPT ![j] = [phase |-> "answered", view |-> seen]]
          /\ UNCHANGED <<latest, loaded, runs, queue, missed>>
      BY <2>2 DEF GetDrives, serverVars
    <3>2. seen \in [Drives -> Listings] /\ \A d \in Drives : Fits(seen[d], d)
      BY <3>1, NewestIs DEF OwnedInv, RunsOf, Accounted
    <3> HIDE DEF seen
    <3>3. /\ gets' \in [1..MaxGets -> Gets]
          /\ \A i \in 1..MaxGets : gets'[i].view = IF i = j THEN seen ELSE gets[i].view
      BY <1>5, <3>1, <3>2
    <3>4. QED
      BY <1>5, <3>1, <3>2, <3>3
  <2>3. ASSUME NEW j \in 1..MaxGets, GotDrives(j)
        PROVE  Goal
    <3>1. /\ latest' = gets[j].view /\ loaded' = TRUE /\ gets' = [gets EXCEPT ![j] = NoGet]
      BY <2>3 DEF GotDrives
    <3>2. gets[j].view \in [Drives -> Listings]
      BY <1>5
    <3> HIDE DEF Fits
    <3>3. \A d \in Drives : Fits(NoRun, d)
      BY <1>4 DEF Fits
    <3>4. QED
      BY <1>4, <1>5, <3>1, <3>2, <3>3
  <2>4. ASSUME NEW j \in 1..MaxGets, GetFails(j)
        PROVE  Goal
    <3>1. UNCHANGED <<latest, loaded>> /\ gets' = [gets EXCEPT ![j] = NoGet]
      BY <2>4 DEF GetFails
    <3> HIDE DEF Fits
    <3>2. \A d \in Drives : Fits(NoRun, d)
      BY <1>4 DEF Fits
    <3>3. QED
      BY <1>4, <1>5, <3>1, <3>2
  <2>5. CASE UNCHANGED <<latest, loaded, gets>>
    BY <1>5, <2>5
  <2>6. QED
    BY <1>5, <2>1, <2>2, <2>3, <2>4, <2>5
    DEF Page, refreshDrives, CallSucceeds, CallRefused, startTest, abort
<1>7. ListKnown'
  BY <1>6 DEF ListKnown, Listed
<1>8. call'.kind = "start" => call'.drive \in Drives
  BY DEF Page, refreshDrives, CallSucceeds, CallRefused, GetDrives, GotDrives, GetFails,
         startTest, abort, NoCall, OwnedInv, Typed
<1>9. Typed'
  BY <1>1, <1>2, <1>6, <1>8 DEF OwnedInv, Typed
<1>10. QED
  BY <1>2, <1>3, <1>7, <1>9 DEF OwnedInv

(* Induction on the natural numbers up to n, for a set. *)
LEMMA UpTo ==
  ASSUME NEW n \in Nat, NEW S, 0 \in S, \A k \in 1..n : k - 1 \in S => k \in S
  PROVE  \A k \in 0..n : k \in S
<1> DEFINE Missing == {k \in 0..n : k \notin S}
           R == OpToRel(<, Nat)
<1>1. Missing \subseteq Nat
  OBVIOUS
<1>2. ASSUME Missing # {} PROVE FALSE
  <2>1. PICK k \in Missing : \A j \in Missing : ~ (<<j, k>> \in R)
    <3>1. IsWellFoundedOn(R, Nat)
      BY NatLessThanWellFounded
    <3> HIDE DEF R, Missing
    <3>2. QED
      BY <1>1, <1>2, <3>1, WFMin
  <2>2. k # 0 /\ k \in 1..n /\ k - 1 \in 0..n
    <3>1. k \in 0..n /\ k \notin S
      BY <2>1
    <3>2. k # 0
      BY <3>1
    <3>3. QED
      BY <3>1, <3>2
  <2>3. k - 1 \in S
    <3>1. k - 1 \in Missing => ~ (k - 1 < k)
      BY <1>1, <2>1 DEF OpToRel
    <3>2. QED
      BY <2>2, <3>1
  <2>4. QED
    BY <2>1, <2>2, <2>3
<1>3. QED
  BY <1>2

(* The snapshot, run by run. *)
LEMMA SnapshotGrows ==
  ASSUME Len(runs) \in Nat
  PROVE  \E f : /\ f[0] = << >>
                /\ \A r \in 1..Len(runs) : f[r] = eventsOf(r) \o f[r - 1]
                /\ snapshotEvents = f[Len(runs)]
<1> DEFINE Next1(f, r) == IF r = 0 THEN << >> ELSE eventsOf(r) \o f[r - 1]
           Grows(f, n) == f = [r \in 0..n |-> Next1(f, r)]
           S == {n \in Nat : \E f : Grows(f, n)}
           g == CHOOSE f : f = [r \in 0..Len(runs) |->
                                  IF r = 0 THEN << >> ELSE eventsOf(r) \o f[r - 1]]
<1>1. 0 \in S
  <2>1. Grows([r \in 0..0 |-> << >>], 0)
    OBVIOUS
  <2>2. QED
    BY <2>1
<1>2. ASSUME NEW n \in 1..Len(runs), n - 1 \in S
      PROVE  n \in S
  <2>0. n \in Nat /\ n # 0
    OBVIOUS
  <2>1. PICK f : Grows(f, n - 1)
    BY <1>2
  <2> DEFINE h == [r \in 0..n |-> IF r = n THEN eventsOf(n) \o f[n - 1] ELSE f[r]]
  <2>2. \A r \in 0..n : h[r] = Next1(h, r)
    <3>1. CASE n = 0
      BY <3>1
    <3>2. ASSUME NEW r \in 0..n, r # n
          PROVE  h[r] = Next1(h, r)
      <4>0. r \in 0..(n - 1) /\ h[r] = f[r]
        BY <2>0, <3>2
      <4>1. f[r] = Next1(f, r)
        BY <2>1, <4>0 DEF Grows
      <4>2. r # 0 => r - 1 \in 0..n /\ r - 1 # n /\ h[r - 1] = f[r - 1]
        BY <3>2
      <4>3. QED
        BY <4>1, <4>2
    <3>3. h[n] = Next1(h, n)
      BY <1>2
    <3>4. QED
      BY <3>2, <3>3
  <2>3. Grows(h, n)
    BY <2>2
  <2> HIDE DEF Grows
  <2>4. QED
    BY <2>0, <2>3
<1>3. Len(runs) \in S
  <2> HIDE DEF S
  <2>1. \A k \in 0..Len(runs) : k \in S
    BY <1>1, <1>2, UpTo
  <2>2. QED
    BY <2>1
<1>4. g = [r \in 0..Len(runs) |-> IF r = 0 THEN << >> ELSE eventsOf(r) \o g[r - 1]]
  BY <1>3
<1>5. snapshotEvents = g[Len(runs)]
  BY DEF snapshotEvents
<1> HIDE DEF g
<1>6. /\ g[0] = << >>
      /\ \A r \in 1..Len(runs) : g[r] = eventsOf(r) \o g[r - 1]
  <2>1. \A r \in 0..Len(runs) : g[r] = Next1(g, r)
    BY <1>4
  <2>2. /\ 0 \in 0..Len(runs)
        /\ \A r \in 1..Len(runs) : r \in 0..Len(runs) /\ r # 0
    OBVIOUS
  <2>3. QED
    BY <2>1, <2>2
<1>7. QED
  BY <1>5, <1>6
(* The events of a snapshot: each is about a running run. *)
Reports == {e \in Events : /\ e.run \in DOMAIN runs /\ runs[e.run].status = "RUNNING"
                           /\ e.status = "RUNNING"}

LEMMA RunReports ==
  ASSUME Typed, NEW r \in DOMAIN runs, runs[r].status = "RUNNING"
  PROVE  /\ runUpdate(r, "RUNNING", runs[r].stage) \in Reports
         /\ stageProgress(r, runs[r].stage, runs[r].report) \in Reports
<1>1. /\ r \in Nat /\ runs[r] \in Rows
      /\ runs[r].stage \in 0..Stages /\ runs[r].report \in 0..MaxReports /\ 0 \in 0..MaxReports
  BY RowFacts, ConsoleAssumption DEF Rows
<1>2. QED
  BY <1>1 DEF Reports, Events, runUpdate, stageProgress

LEMMA SnapshotReports ==
  ASSUME Typed
  PROVE  snapshotEvents \in Seq(Reports)
<1>1. Len(runs) \in Nat /\ DOMAIN runs = 1..Len(runs)
  BY RowFacts
<1>2. PICK f : /\ f[0] = << >>
               /\ \A r \in 1..Len(runs) : f[r] = eventsOf(r) \o f[r - 1]
               /\ snapshotEvents = f[Len(runs)]
  BY <1>1, SnapshotGrows
<1> DEFINE S == {n \in Nat : f[n] \in Seq(Reports)}
<1>3. 0 \in S
  <2>1. f[0] \in Seq(Reports)
    BY <1>2, EmptySeq
  <2>2. QED
    BY <2>1
<1>4. ASSUME NEW r \in 1..Len(runs), r - 1 \in S
      PROVE  r \in S
  <2>1. eventsOf(r) \in Seq(Reports)
    BY <1>1, RunReports DEF eventsOf
  <2>2. f[r] \in Seq(Reports)
    BY <1>2, <1>4, <2>1, ConcatProperties
  <2>3. QED
    BY <1>4, <2>2
<1>5. Len(runs) \in S
  <2> HIDE DEF S
  <2>1. \A k \in 0..Len(runs) : k \in S
    BY <1>1, <1>3, <1>4, UpTo
  <2>2. QED
    BY <1>1, <2>1
<1>6. QED
  BY <1>2, <1>5

(* A connection that is lost, by itself or with the process. *)
LEMMA LostKeepsOwned ==
  ASSUME OwnedInv, Drop \/ Restart
  PROVE  OwnedInv'
<1>1. /\ runs \in Seq(Rows) /\ DOMAIN runs = 1..Len(runs) /\ Len(runs) \in Nat
      /\ restarts \in Nat
  BY RowFacts DEF OwnedInv, Typed
<1>2. /\ link' = "down" /\ queue' = << >> /\ missed' = missed \union Undelivered
      /\ UNCHANGED pageVars
      /\ restarts' \in Nat /\ (restarts' = 0 => UNCHANGED <<runs, restarts>>)
  <2>1. CASE Drop
    BY <1>1, <2>1 DEF Drop
  <2>2. CASE Restart
    <3>1. restarts' = restarts + 1
      BY <2>2 DEF Restart
    <3>2. restarts' \in Nat /\ restarts' # 0
      BY <1>1, <3>1
    <3>3. QED
      BY <2>2, <3>2 DEF Restart
  <2>3. QED
    BY <2>1, <2>2
<1>3. /\ runs' \in Seq(Rows) /\ DOMAIN runs' = DOMAIN runs
      /\ \A r \in DOMAIN runs :
           /\ runs'[r].drive = runs[r].drive
           /\ runs'[r].status \in Terminal <=> runs[r].status \in Terminal
           /\ runs[r].status # "PENDING" => runs'[r].status = runs[r].status
           /\ runs'[r].stage = runs[r].stage /\ runs'[r].report = runs[r].report
           /\ runs'[r].status = "PENDING" => runs[r].status = "PENDING"
           /\ runs'[r] = runs[r] \/ ~runs'[r].held
  <2>1. CASE Drop
    BY <1>1, <2>1 DEF Drop
  <2>2. CASE Restart
    <3>1. PICK begun \in SUBSET {r \in DOMAIN runs : runs[r].status = "PENDING"} :
            runs' = [r \in DOMAIN runs |->
                       [runs[r] EXCEPT !.held = FALSE,
                                       !.status = IF r \in begun THEN "RUNNING" ELSE @]]
      BY <2>2 DEF Restart
    <3>2. ASSUME NEW r \in DOMAIN runs
          PROVE  /\ runs'[r] \in Rows /\ ~runs'[r].held
                 /\ runs'[r].drive = runs[r].drive
                 /\ runs'[r].stage = runs[r].stage /\ runs'[r].report = runs[r].report
                 /\ r \in begun => /\ runs[r].status = "PENDING"
                                   /\ runs'[r].status = "RUNNING"
                 /\ r \notin begun => runs'[r].status = runs[r].status
      <4>0. runs[r] \in Rows
        BY <1>1
      <4>1. runs'[r] = [runs[r] EXCEPT !.held = FALSE,
                                       !.status = IF r \in begun THEN "RUNNING" ELSE @]
        BY <3>1, Zenon
      <4>2. r \in begun => runs[r].status = "PENDING"
        BY <3>1
      <4>3. /\ runs'[r].held = FALSE
            /\ runs'[r].status = IF r \in begun THEN "RUNNING" ELSE runs[r].status
            /\ runs'[r] = [runs[r] EXCEPT !.held = FALSE, !.status = runs'[r].status]
        BY <4>0, <4>1 DEF Rows
      <4>4. runs'[r] \in Rows
        BY <4>0, <4>3 DEF Rows
      <4>5. QED
        BY <4>0, <4>2, <4>3, <4>4 DEF Rows
    <3>3. DOMAIN runs' = 1..Len(runs) /\ runs' \in [1..Len(runs) -> Rows]
      BY <1>1, <3>1, <3>2
    <3>4. runs' \in Seq(Rows)
      BY <1>1, <3>3, SeqDef
    <3>5. QED
      BY <1>1, <3>2, <3>3, <3>4 DEF Terminal
  <2>3. QED
    BY <2>1, <2>2
<1>4. Typed'
  BY <1>2, <1>3 DEF OwnedInv, Typed, pageVars
<1>5. RowsMatch'
  BY <1>2, <1>3 DEF OwnedInv, RowsMatch
<1>6. OneActive'
  BY <1>3 DEF OwnedInv, OneActive, Active
<1>7. Queued'
  BY <1>2 DEF Queued
<1>8. \A r \in DOMAIN runs : Accounted(runs, queue, missed, 0, r)
                               => Accounted(runs', queue', missed', 0, r)
  BY <1>2, <1>3 DEF Accounted, EndsAfter, Undelivered
<1>9. LiveKnown' /\ ListKnown'
  BY <1>2, <1>3, <1>8, KnownKept DEF OwnedInv, pageVars
<1>10. QED
  BY <1>4, <1>5, <1>6, <1>7, <1>9 DEF OwnedInv

LEMMA ConnectKeepsOwned ==
  ASSUME OwnedInv, Connect
  PROVE  OwnedInv'
<1>1. /\ link' = "up" /\ queue = << >> /\ queue' \in Seq(Reports)
      /\ UNCHANGED <<runs, restarts, missed, live, latest, loaded, gets, call, overtaken>>
  BY SnapshotReports DEF OwnedInv, Queued, Connect, pageVars
<1>2. Reports \subseteq Events
  BY DEF Reports
<1>3. Typed' /\ RowsMatch' /\ OneActive'
  BY <1>1, <1>2 DEF OwnedInv, Typed, RowsMatch, OneActive, Active
<1>4. Queued'
  <2>1. \A i \in DOMAIN queue' : queue'[i] \in Reports
    BY <1>1
  <2>2. \A e \in Reports : /\ e.run \in DOMAIN runs /\ runs[e.run].status = "RUNNING"
                           /\ e.status \notin Terminal /\ "RUNNING" \notin Terminal
    BY DEF Reports, Terminal
  <2>3. QED
    BY <1>1, <2>1, <2>2 DEF Queued, Accounted
<1>5. \A r \in DOMAIN runs : Accounted(runs, queue, missed, 0, r)
                               => Accounted(runs', queue', missed', 0, r)
  BY <1>1 DEF Accounted, EndsAfter
<1>6. LiveKnown' /\ ListKnown'
  BY <1>1, <1>5, KnownKept DEF OwnedInv
<1>7. QED
  BY <1>3, <1>4, <1>6 DEF OwnedInv

(* What an event makes of the live entries l, for the rows of the runs. *)
Becomes(x, e) ==
  LET stage == IF e.stage # 0 THEN e.stage ELSE x.stage
  IN IF e.name = "stage:progress"
     THEN [run |-> e.run, stage |-> e.stage, report |-> e.report]
     ELSE IF e.status \in Terminal THEN Nobody
     ELSE [run |-> e.run, stage |-> stage,
           report |-> IF stage # x.stage THEN 0 ELSE x.report]

After(rows, l, e) ==
  [l EXCEPT ![rows[e.run].drive] = Becomes(l[rows[e.run].drive], e)]

LEMMA BecomesTyped ==
  ASSUME NEW x \in Entries, NEW e \in Events
  PROVE  Becomes(x, e) \in Entries
<1>1. 0 \in Nat /\ 0 \in 0..Stages /\ 0 \in 0..MaxReports
  BY ConsoleAssumption
<1>2. /\ x.stage \in 0..Stages /\ x.report \in 0..MaxReports
      /\ e.run \in Nat /\ e.stage \in 0..Stages /\ e.report \in 0..MaxReports
  BY DEF Entries, Events
<1>3. QED
  BY <1>1, <1>2 DEF Becomes, Entries, Nobody

LEMMA AfterIs ==
  ASSUME NEW rows, NEW l \in [Drives -> Entries], NEW e \in Events, rows[e.run].drive \in Drives
  PROVE  /\ After(rows, l, e) \in [Drives -> Entries]
         /\ \A d \in Drives : After(rows, l, e)[d] =
              IF d = rows[e.run].drive THEN Becomes(l[d], e) ELSE l[d]
  BY BecomesTyped DEF After

(* What the page does with the first event of the queue. *)
LEMMA DeliverEffect ==
  ASSUME OwnedInv, Deliver
  PROVE  /\ queue[1] \in Events /\ queue[1].run \in DOMAIN runs
         /\ runs[queue[1].run].drive \in Drives
         /\ queue' \in Seq(Events) /\ Len(queue) \in Nat /\ Len(queue) > 0
         /\ Len(queue') = Len(queue) - 1
         /\ \A i \in 1..(Len(queue) - 1) : queue'[i] = queue[i + 1]
         /\ link = "up" /\ live' = After(runs, live, queue[1])
         /\ UNCHANGED <<runs, link, drops, restarts, loaded, gets, call, missed>>
<1>1. queue \in Seq(Events) /\ queue # << >> /\ queue' = Tail(queue) /\ link = "up"
  BY DEF OwnedInv, Typed, Deliver
<1>2. /\ queue[1] \in Events /\ Head(queue) = queue[1]
      /\ queue' \in Seq(Events) /\ Len(queue) \in Nat /\ Len(queue) > 0
      /\ Len(queue') = Len(queue) - 1 /\ 1 \in DOMAIN queue
      /\ \A i \in 1..(Len(queue) - 1) : queue'[i] = queue[i + 1]
  BY <1>1, HeadTailProperties
<1> DEFINE e == queue[1]
<1>3. e.run \in DOMAIN runs /\ runs[e.run].drive \in Drives
  <2>1. e.run \in DOMAIN runs
    BY <1>2 DEF OwnedInv, Queued
  <2>2. QED
    BY <2>1, RowFacts DEF OwnedInv, Rows
<1>4. /\ e.name \in {"run:update", "stage:progress"}
      /\ e.status \in Terminal => e.name = "run:update"
  BY <1>2 DEF OwnedInv, Queued, Events
<1>5. \/ e.name = "stage:progress" /\ handleStageProgress(e)
      \/ e.name = "run:update" /\ handleRunUpdate(e)
  BY <1>2 DEF Deliver
<1>6. live' = After(runs, live, e)
  <2>1. CASE e.name = "stage:progress" /\ handleStageProgress(e)
    BY <2>1 DEF handleStageProgress, After, Becomes
  <2>2. CASE e.name = "run:update" /\ handleRunUpdate(e)
    BY <2>2 DEF handleRunUpdate, After, Becomes
  <2>3. QED
    BY <1>5, <2>1, <2>2
<1>7. QED
  BY <1>1, <1>2, <1>3, <1>6 DEF Deliver, linkVars

(* ... and with the list of drives. *)
LEMMA DeliverLists ==
  ASSUME OwnedInv, Deliver
  PROVE  LET e == queue[1]
             d == runs[e.run].drive
         IN /\ overtaken \subseteq overtaken'
            /\ e.status \notin Terminal => latest' = latest
            /\ e.status \in Terminal =>
                 /\ latest' = IF loaded
                              THEN [latest EXCEPT ![d] = [id |-> e.run, status |-> e.status]]
                              ELSE latest
                 /\ (\E i \in 1..MaxGets : gets[i].view[d].id = e.run) => e.run \in overtaken'
<1> DEFINE e == queue[1]
           older == {i \in DOMAIN gets : gets[i].view[runs[e.run].drive].id = e.run}
<1>1. queue \in Seq(Events) /\ queue # << >> /\ Head(queue) = e
  BY DEF OwnedInv, Typed, Deliver
<1>2. 1 \in DOMAIN queue
  BY <1>1
<1>3. e.status \in Terminal => e.name = "run:update"
  BY <1>2 DEF OwnedInv, Queued
<1>4. /\ \/ e.name = "stage:progress" /\ handleStageProgress(e)
         \/ e.name = "run:update" /\ handleRunUpdate(e)
      /\ overtaken' = IF e.status \in Terminal /\ older # {}
                      THEN overtaken \union {e.run} ELSE overtaken
  BY <1>1 DEF Deliver
<1>5. DOMAIN gets = 1..MaxGets
  BY DEF OwnedInv, Typed
<1>6. e.name = "run:update" \/ e.name = "stage:progress"
  BY <1>4
<1>7. QED
  BY <1>3, <1>4, <1>5 DEF handleStageProgress, handleRunUpdate

LEMMA DeliverKeepsOwned ==
  ASSUME OwnedInv, Deliver
  PROVE  OwnedInv'
<1> DEFINE e == queue[1]
           d == runs[e.run].drive
<1>1. /\ e \in Events /\ e.run \in DOMAIN runs /\ d \in Drives
      /\ queue' \in Seq(Events) /\ Len(queue) \in Nat /\ Len(queue) > 0
      /\ DOMAIN queue = 1..Len(queue) /\ DOMAIN queue' = 1..(Len(queue) - 1)
      /\ \A i \in 1..(Len(queue) - 1) : queue'[i] = queue[i + 1]
      /\ link = "up" /\ live' = After(runs, live, e)
      /\ UNCHANGED <<runs, link, drops, restarts, loaded, gets, call, missed>>
  <2>1. queue' \in Seq(Events) /\ queue \in Seq(Events)
    BY DeliverEffect DEF OwnedInv, Typed
  <2>2. DOMAIN queue = 1..Len(queue) /\ DOMAIN queue' = 1..Len(queue')
    BY <2>1
  <2>3. QED
    BY <2>2, DeliverEffect
<1>2. /\ live' \in [Drives -> Entries]
      /\ \A c \in Drives : live'[c] = IF c = d THEN Becomes(live[c], e) ELSE live[c]
  BY <1>1, AfterIs DEF OwnedInv, Typed
<1>3. /\ overtaken \subseteq overtaken'
      /\ e.status \notin Terminal => latest' = latest
      /\ e.status \in Terminal =>
           /\ latest' = IF loaded
                        THEN [latest EXCEPT ![d] = [id |-> e.run, status |-> e.status]]
                        ELSE latest
           /\ (\E i \in 1..MaxGets : gets[i].view[d].id = e.run) => e.run \in overtaken'
  BY DeliverLists
<1> HIDE DEF e, d
<1>4. latest' \in [Drives -> Listings]
  <2>1. latest \in [Drives -> Listings] /\ (e.status \in Terminal => e.run \in Nat)
    BY <1>1 DEF OwnedInv, Typed, Events
  <2>2. e.status \in Terminal => [id |-> e.run, status |-> e.status] \in Listings
    BY <2>1 DEF Listings
  <2>3. QED
    BY <1>1, <1>3, <2>1, <2>2
<1>5. Typed'
  BY <1>1, <1>2, <1>4 DEF OwnedInv, Typed
<1>6. RowsMatch' /\ OneActive'
  BY <1>1 DEF OwnedInv, RowsMatch, OneActive, Active
(* Whatever was accounted for stays so, save for the end that arrived. *)
<1>7. ASSUME NEW r \in DOMAIN runs, NEW n \in 0..(Len(queue) - 1),
             \/ Accounted(runs, queue, missed, n + 1, r)
             \/ n = 0 /\ Accounted(runs, queue, missed, 0, r) /\ ~ (e.run = r /\ e.status \in Terminal)
      PROVE  Accounted(runs', queue', missed', n, r)
  <2>1. CASE runs[r].status \notin Terminal \/ r \in missed
    BY <1>1, <2>1 DEF Accounted
  <2>2. CASE ~ (runs[r].status \notin Terminal \/ r \in missed)
    <3>1. PICK j \in DOMAIN queue : /\ j > n + 1 \/ (n = 0 /\ j > 1)
                                    /\ queue[j].run = r /\ queue[j].status \in Terminal
      <4>1. EndsAfter(queue, n + 1, r) \/ (n = 0 /\ EndsAfter(queue, 0, r) /\ ~ (e.run = r /\ e.status \in Terminal))
        BY <1>7, <2>2 DEF Accounted
      <4>2. QED
        BY <1>1, <4>1 DEF EndsAfter, e
    <3>2. j - 1 \in DOMAIN queue' /\ queue'[j - 1] = queue[j] /\ j - 1 > n
      BY <1>1, <3>1
    <3>3. QED
      BY <3>1, <3>2 DEF Accounted, EndsAfter
  <2>3. QED
    BY <2>1, <2>2
<1>8. Queued'
  <2>1. ASSUME NEW i \in DOMAIN queue'
        PROVE  /\ queue'[i].run \in DOMAIN runs' /\ runs'[queue'[i].run].status # "PENDING"
               /\ queue'[i].status \in Terminal => queue'[i].name = "run:update"
               /\ queue'[i].status \notin Terminal
                    => Accounted(runs', queue', missed', i, queue'[i].run)
    <3>1. queue'[i] = queue[i + 1] /\ i + 1 \in DOMAIN queue /\ i \in 0..(Len(queue) - 1)
      BY <1>1, <2>1
    <3>2. /\ queue[i + 1].run \in DOMAIN runs /\ runs[queue[i + 1].run].status # "PENDING"
          /\ queue[i + 1].status \in Terminal => queue[i + 1].name = "run:update"
          /\ queue[i + 1].status \notin Terminal
               => Accounted(runs, queue, missed, i + 1, queue[i + 1].run)
      BY <3>1 DEF OwnedInv, Queued
    <3>3. QED
      BY <1>1, <1>7, <3>1, <3>2
  <2>2. QED
    BY <1>1, <2>1 DEF Queued
<1>9. 0 \in 0..(Len(queue) - 1) /\ 1 \in DOMAIN queue
  BY <1>1
<1>10. LiveKnown'
  <2> SUFFICES ASSUME NEW c \in Drives, live'[c].run # 0
               PROVE  /\ live'[c].run \in DOMAIN runs' /\ runs'[live'[c].run].drive = c
                      /\ runs'[live'[c].run].status # "PENDING"
                      /\ Accounted(runs', queue', missed', 0, live'[c].run)
    BY DEF LiveKnown
  <2>1. CASE c = d
    <3>1. e.status \notin Terminal /\ live'[c].run = e.run
      <4>1. live'[c] = Becomes(live[c], e)
        BY <1>2, <2>1
      <4>2. e.status \in Terminal => e.name # "stage:progress"
        BY <1>9 DEF OwnedInv, Queued, e
      <4>3. QED
        BY <4>1, <4>2 DEF Becomes, Nobody
    <3>2. runs[e.run].status # "PENDING" /\ Accounted(runs, queue, missed, 1, e.run)
      BY <1>9, <3>1 DEF OwnedInv, Queued, e
    <3>3. Accounted(runs', queue', missed', 0, e.run)
      BY <1>1, <1>7, <1>9, <3>2
    <3>4. QED
      BY <1>1, <2>1, <3>1, <3>2, <3>3 DEF d
  <2>2. CASE c # d
    <3>1. /\ live'[c] = live[c] /\ live[c].run \in DOMAIN runs /\ runs[live[c].run].drive = c
          /\ runs[live[c].run].status # "PENDING"
          /\ Accounted(runs, queue, missed, 0, live[c].run)
      BY <1>2, <2>2 DEF OwnedInv, LiveKnown
    <3>2. e.run # live[c].run
      BY <2>2, <3>1 DEF d
    <3>3. QED
      BY <1>1, <1>7, <1>9, <3>1, <3>2
  <2>3. QED
    BY <2>1, <2>2
<1> DEFINE Fits(entry, c) ==
             entry.status \in {"RUNNING", "PENDING"} =>
               /\ entry.id \in DOMAIN runs' /\ runs'[entry.id].drive = c
               /\ Accounted(runs', queue', missed', 0, entry.id) \/ entry.id \in overtaken'
<1>11. ASSUME NEW entry, NEW c \in Drives, Listed(entry, c),
              entry.id = e.run /\ e.status \in Terminal /\ entry.status \in {"RUNNING", "PENDING"}
                => e.run \in overtaken'
       PROVE  Fits(entry, c)
  BY <1>1, <1>3, <1>7, <1>9, <1>11 DEF Listed
<1>12. ListKnown'
  <2>1. ~loaded' => \A c \in Drives : latest'[c] = NoRun
    BY <1>1, <1>3 DEF OwnedInv, ListKnown
  <2>2. ASSUME NEW c \in Drives
        PROVE  Fits(latest'[c], c)
    <3>1. CASE latest'[c] = latest[c] /\ ~ (latest[c].id = e.run /\ e.status \in Terminal)
      <4>1. Listed(latest[c], c)
        BY DEF OwnedInv, ListKnown
      <4>2. QED
        BY <1>11, <3>1, <4>1
    <3>2. CASE latest'[c].status \notin {"RUNNING", "PENDING"}
      BY <3>2
    <3>3. CASE latest'[c] = latest[c] /\ latest[c].id = e.run /\ e.status \in Terminal
               /\ latest'[c].status \in {"RUNNING", "PENDING"}
      <4>1. loaded
        BY <3>3 DEF OwnedInv, ListKnown, NoRun
      <4>2. runs[e.run].drive = c
        BY <3>3 DEF OwnedInv, ListKnown, Listed
      <4>3. latest'[c].status = e.status
        BY <1>3, <3>3, <4>1, <4>2 DEF OwnedInv, Typed, d
      <4>4. QED
        BY <3>3, <4>3 DEF Terminal
    <3>4. CASE latest'[c] # latest[c]
      <4>1. latest'[c].status = e.status /\ e.status \in Terminal
        BY <1>3, <3>4 DEF OwnedInv, Typed
      <4>2. QED
        BY <3>2, <4>1 DEF Terminal
    <3>5. QED
      BY <3>1, <3>2, <3>3, <3>4
  <2>3. ASSUME NEW i \in 1..MaxGets, NEW c \in Drives
        PROVE  Fits(gets[i].view[c], c)
    <3>1. Listed(gets[i].view[c], c)
      BY DEF OwnedInv, ListKnown
    <3>2. gets[i].view[c].id = e.run /\ e.status \in Terminal
            /\ gets[i].view[c].status \in {"RUNNING", "PENDING"} => e.run \in overtaken'
      BY <1>3, <3>1 DEF Listed, d
    <3>3. QED
      BY <1>11, <3>1, <3>2
  <2>4. QED
    BY <1>1, <2>1, <2>2, <2>3 DEF ListKnown, Listed
<1>13. QED
  BY <1>5, <1>6, <1>8, <1>10, <1>12 DEF OwnedInv

LEMMA OwnedStep == OwnedInv /\ [Next]_vars => OwnedInv'
<1> SUFFICES ASSUME OwnedInv, [Next]_vars PROVE OwnedInv'
  OBVIOUS
<1>1. ASSUME NEW d \in Drives, CreatedElsewhere(d)
      PROVE  OwnedInv'
  <2>1. UNCHANGED <<queue, missed, link, restarts, overtaken, live, latest, loaded, gets, call>>
    BY <1>1 DEF CreatedElsewhere, linkVars, pageVars
  <2>2. /\ runs' \in Seq(Rows) /\ RowsMatch' /\ OneActive' /\ Queued'
        /\ \A r \in DOMAIN runs :
             /\ r \in DOMAIN runs' /\ runs'[r].drive = runs[r].drive
             /\ runs[r].status # "PENDING" => runs'[r].status # "PENDING"
             /\ Accounted(runs, queue, missed, 0, r)
                  => Accounted(runs', queue', missed', 0, r)
    BY <1>1, <2>1, GrowthKeepsOwned DEF CreatedElsewhere
  <2>3. LiveKnown' /\ ListKnown'
    BY <2>1, <2>2, KnownKept DEF OwnedInv
  <2>4. QED
    BY <2>1, <2>2, <2>3 DEF OwnedInv, Typed
<1>2. ASSUME NEW r \in DOMAIN runs,
             \/ Begin(r) \/ Progress(r)
             \/ \E s \in 1..Stages :
                  EnterStage(r, s) \/ \E fresh \in BOOLEAN : Resume(r, s, fresh)
             \/ \E status \in Endings : End(r, status)
      PROVE  OwnedInv'
  BY <1>2, BeginWrites, ProgressWrites, EnterStageWrites, ResumeWrites, EndWrites,
     WritesKeepOwned DEF OwnedInv
<1>3. CASE Page
  BY <1>3, PageKeepsOwned
<1>4. CASE UNCHANGED vars
  BY <1>4 DEF vars, OwnedInv, Typed, RowsMatch, OneActive, Active, Queued, LiveKnown,
              ListKnown, Listed
<1>5. QED
  BY <1>1, <1>2, <1>3, <1>4, LostKeepsOwned, ConnectKeepsOwned, DeliverKeepsOwned
  DEF Next, Engine

LEMMA OwnedKept == Spec => []OwnedInv
  BY InitOwned, OwnedStep, PTL DEF Spec

(* What a row offers to stop is a run the engine still has, or one whose end *)
(* the page could not learn: StopOffersOwnedRun, for any number of drives,   *)
(* runs, requests, drops and restarts (DriveTable.vue:54).                   *)
THEOREM StopIsOwned == Spec => []StopOffersOwnedRun
<1>1. OwnedInv => StopOffersOwnedRun
  <2> SUFFICES ASSUME OwnedInv, AllDelivered, NEW d \in Drives, activeRunId(d) # 0
               PROVE  Active(activeRunId(d)) \/ activeRunId(d) \in missed \union overtaken
    BY DEF StopOffersOwnedRun
  <2>1. \A r : Accounted(runs, queue, missed, 0, r) => Active(r) \/ r \in missed
    BY DEF AllDelivered, Accounted, EndsAfter, Active
  <2>2. CASE live[d].run # 0
    BY <2>1, <2>2 DEF OwnedInv, LiveKnown, activeRunId
  <2>3. CASE live[d].run = 0
    BY <2>1, <2>3 DEF OwnedInv, ListKnown, Listed, activeRunId
  <2>4. QED
    BY <2>2, <2>3
<1>2. QED
  BY <1>1, OwnedKept, PTL

-----------------------------------------------------------------------------
(* y is not behind x: two entries, or an entry and a row. *)
Forward(x, y) ==
  y.stage > x.stage \/ (y.stage = x.stage /\ y.report >= x.report)

(* Neither a restart nor an end the page missed. *)
Steady == restarts = 0 /\ missed = {}

(* An entry a drive may show: of a run of its own, and not ahead of the row. *)
Sound(rows, s, x, d) ==
  /\ x.report # 0 => x.stage \in Reporting
  /\ x.run = 0 => x.stage = 0
  /\ x.run # 0 =>
       /\ x.run \in DOMAIN rows /\ rows[x.run].drive = d /\ rows[x.run].status # "PENDING"
       /\ s => Forward(x, rows[x.run])

(* Entry y follows x: it does not fall back while the run is the same. *)
Follows(x, y) == x.run # 0 /\ y.run = x.run => Forward(x, y)

(* h is what the page shows as it takes the events q one by one. *)
Faithful(rows, s, h, q, l) ==
  /\ h \in [0..Len(q) -> [Drives -> Entries]] /\ h[0] = l
  /\ \A i \in 1..Len(q) : h[i] = After(rows, h[i - 1], q[i])
  /\ \A i \in 0..Len(q), d \in Drives : Sound(rows, s, h[i][d], d)
  /\ s => \A i \in 1..Len(q), d \in Drives : Follows(h[i - 1][d], h[i][d])

(* The entries l show every running run as its row has it. *)
Shows(x, r, row) ==
  x.run = r /\ x.stage = row.stage /\ (x.report = row.report \/ (row.redone /\ row.held))

ShowsAll(rows, l) ==
  \A r \in DOMAIN rows :
    rows[r].status = "RUNNING" /\ rows[r].stage # 0 => Shows(l[rows[r].drive], r, rows[r])

(* Once everything on its way has arrived, every running run is shown. *)
Pictured ==
  /\ \A d \in Drives : Sound(runs, Steady, live[d], d)
  /\ link = "up" =>
       \E h : /\ Faithful(runs, Steady, h, queue, live)
              /\ ShowsAll(runs, h[Len(queue)])

LEMMA FirstStages ==
  /\ 0 \notin Reporting /\ 1 \notin Reporting /\ Stages \in Nat /\ MaxReports \in Nat
  /\ 0 \in 0..Stages /\ 0 \in 0..MaxReports
  BY ConsoleAssumption

(* One event before, or after, those that are replayed. *)
LEMMA PrependFaithful ==
  ASSUME NEW rows, NEW s, NEW q \in Seq(Events), NEW e \in Events, NEW h,
         rows[e.run].drive \in Drives,
         NEW l \in [Drives -> Entries], \A d \in Drives : Sound(rows, s, l[d], d),
         Faithful(rows, s, h, q, After(rows, l, e)),
         s => \A d \in Drives : Follows(l[d], After(rows, l, e)[d])
  PROVE  \E g : /\ Faithful(rows, s, g, <<e>> \o q, l)
                /\ g[Len(<<e>> \o q)] = h[Len(q)]
<1> DEFINE p == <<e>> \o q
           n == Len(q)
           g == [i \in 0..(n + 1) |-> IF i = 0 THEN l ELSE h[i - 1]]
<1>1. /\ n \in Nat /\ Len(p) = n + 1 /\ p[1] = e
      /\ \A i \in 1..n : p[i + 1] = q[i]
  OBVIOUS
<1>2. /\ h \in [0..n -> [Drives -> Entries]] /\ h[0] = After(rows, l, e)
      /\ \A i \in 1..n : h[i] = After(rows, h[i - 1], q[i])
      /\ \A i \in 0..n, d \in Drives : Sound(rows, s, h[i][d], d)
      /\ s => \A i \in 1..n, d \in Drives : Follows(h[i - 1][d], h[i][d])
  BY DEF Faithful
<1> HIDE DEF p, n
<1>3. g \in [0..(n + 1) -> [Drives -> Entries]]
  BY <1>1, <1>2
<1>4. /\ g[0] = l /\ \A i \in 0..n : g[i + 1] = h[i]
  BY <1>1
<1>5. ASSUME NEW i \in 1..(n + 1)
      PROVE  /\ g[i] = After(rows, g[i - 1], p[i])
             /\ s => \A d \in Drives : Follows(g[i - 1][d], g[i][d])
  <2>1. CASE i = 1
    BY <1>1, <1>2, <1>4, <2>1
  <2>2. CASE i # 1
    <3> DEFINE j == i - 1
    <3>1. j \in 1..n /\ j \in 0..n /\ j - 1 \in 0..n /\ i = j + 1
      BY <1>1, <2>2
    <3> HIDE DEF j
    <3>2. g[i] = h[j] /\ g[i - 1] = h[j - 1] /\ p[i] = q[j]
      <4>1. g[j + 1] = h[j] /\ g[(j - 1) + 1] = h[j - 1] /\ p[j + 1] = q[j]
        BY <1>1, <1>4, <3>1
      <4>2. (j - 1) + 1 = i - 1
        BY <1>1, <3>1
      <4>3. QED
        BY <3>1, <4>1, <4>2
    <3>3. QED
      BY <1>2, <3>1, <3>2
  <2>3. QED
    BY <2>1, <2>2
<1>6. ASSUME NEW i \in 0..(n + 1), NEW d \in Drives
      PROVE  Sound(rows, s, g[i][d], d)
  <2>1. CASE i = 0
    BY <1>4, <2>1
  <2>2. CASE i # 0
    <3>1. i - 1 \in 0..n /\ g[i] = h[i - 1]
      BY <1>1, <2>2
    <3>2. QED
      BY <1>2, <3>1
  <2>3. QED
    BY <2>1, <2>2
<1>7. g[n + 1] = h[n]
  BY <1>1, <1>4
<1> HIDE DEF g
<1>8. Faithful(rows, s, g, p, l)
  BY <1>1, <1>3, <1>4, <1>5, <1>6 DEF Faithful
<1>9. QED
  BY <1>1, <1>7, <1>8 DEF p, n

LEMMA AppendFaithful ==
  ASSUME NEW rows, NEW s, NEW q \in Seq(Events), NEW e \in Events, NEW h, NEW l,
         rows[e.run].drive \in Drives,
         Faithful(rows, s, h, q, l),
         \A d \in Drives : Sound(rows, s, After(rows, h[Len(q)], e)[d], d),
         s => \A d \in Drives : Follows(h[Len(q)][d], After(rows, h[Len(q)], e)[d])
  PROVE  \E g : /\ Faithful(rows, s, g, Append(q, e), l)
                /\ g[Len(Append(q, e))] = After(rows, h[Len(q)], e)
<1> DEFINE p == Append(q, e)
           n == Len(q)
           last == After(rows, h[n], e)
           g == [i \in 0..(n + 1) |-> IF i = n + 1 THEN last ELSE h[i]]
<1>1. /\ n \in Nat /\ Len(p) = n + 1 /\ p[n + 1] = e
      /\ \A i \in 1..n : p[i] = q[i]
  OBVIOUS
<1>2. /\ h \in [0..n -> [Drives -> Entries]] /\ h[0] = l
      /\ \A i \in 1..n : h[i] = After(rows, h[i - 1], q[i])
      /\ \A i \in 0..n, d \in Drives : Sound(rows, s, h[i][d], d)
      /\ s => \A i \in 1..n, d \in Drives : Follows(h[i - 1][d], h[i][d])
  BY DEF Faithful
<1>3. last \in [Drives -> Entries]
  <2>1. h[n] \in [Drives -> Entries]
    BY <1>1, <1>2
  <2>2. QED
    BY <2>1, AfterIs
<1>4. /\ last = After(rows, h[n], e)
      /\ \A d \in Drives : Sound(rows, s, last[d], d)
      /\ s => \A d \in Drives : Follows(h[n][d], last[d])
  OBVIOUS
<1> HIDE DEF p, n, last
<1>5. g \in [0..(n + 1) -> [Drives -> Entries]]
  BY <1>1, <1>2, <1>3
<1>6. g[n + 1] = last /\ \A i \in 0..n : g[i] = h[i]
  BY <1>1
<1>7. ASSUME NEW i \in 1..(n + 1)
      PROVE  /\ g[i] = After(rows, g[i - 1], p[i])
             /\ s => \A d \in Drives : Follows(g[i - 1][d], g[i][d])
  <2>1. CASE i = n + 1
    <3>1. i - 1 = n /\ n \in 0..n
      BY <1>1, <2>1
    <3>2. QED
      BY <1>1, <1>4, <1>6, <2>1, <3>1
  <2>2. CASE i # n + 1
    <3>1. i \in 1..n /\ i \in 0..n /\ i - 1 \in 0..n
      BY <1>1, <2>2
    <3>2. QED
      BY <1>1, <1>2, <1>6, <3>1
  <2>3. QED
    BY <2>1, <2>2
<1>8. ASSUME NEW i \in 0..(n + 1), NEW d \in Drives
      PROVE  Sound(rows, s, g[i][d], d)
  <2>1. i \in 0..n \/ i = n + 1
    BY <1>1
  <2>2. QED
    BY <1>2, <1>4, <1>6, <2>1
<1>9. g[0] = l
  BY <1>1, <1>2, <1>6
<1> HIDE DEF g
<1>10. Faithful(rows, s, g, p, l)
  BY <1>1, <1>5, <1>7, <1>8, <1>9 DEF Faithful
<1>11. QED
  BY <1>1, <1>6, <1>10 DEF p, n, last

(* The first event has arrived. *)
LEMMA TailFaithful ==
  ASSUME NEW rows, NEW s, NEW q, NEW p, NEW h, NEW l,
         Len(q) \in Nat, Len(q) > 0, Len(p) = Len(q) - 1,
         \A i \in 1..(Len(q) - 1) : p[i] = q[i + 1],
         Faithful(rows, s, h, q, l)
  PROVE  /\ h[1] = After(rows, l, q[1])
         /\ \E g : Faithful(rows, s, g, p, h[1]) /\ g[Len(p)] = h[Len(q)]
<1> DEFINE n == Len(q)
           g == [i \in 0..(n - 1) |-> h[i + 1]]
<1>1. n \in Nat /\ n > 0 /\ Len(p) = n - 1 /\ (\A i \in 1..(n - 1) : p[i] = q[i + 1])
  OBVIOUS
<1>2. /\ h \in [0..n -> [Drives -> Entries]] /\ h[0] = l
      /\ \A i \in 1..n : h[i] = After(rows, h[i - 1], q[i])
      /\ \A i \in 0..n, d \in Drives : Sound(rows, s, h[i][d], d)
      /\ s => \A i \in 1..n, d \in Drives : Follows(h[i - 1][d], h[i][d])
  BY DEF Faithful
<1> HIDE DEF n
<1>3. h[1] = After(rows, l, q[1])
  <2>1. 1 \in 1..n /\ 1 - 1 = 0
    BY <1>1
  <2>2. QED
    BY <1>2, <2>1
<1>4. g \in [0..(n - 1) -> [Drives -> Entries]] /\ g[0] = h[1] /\ g[n - 1] = h[n]
  BY <1>1, <1>2
<1>5. ASSUME NEW i \in 1..(n - 1)
      PROVE  /\ g[i] = After(rows, g[i - 1], p[i])
             /\ s => \A d \in Drives : Follows(g[i - 1][d], g[i][d])
  <2> DEFINE j == i + 1
  <2>1. j \in 1..n /\ i = j - 1 /\ p[i] = q[j] /\ g[i] = h[j] /\ g[i - 1] = h[j - 1]
    BY <1>1
  <2> HIDE DEF j, g
  <2>2. QED
    BY <1>2, <2>1
<1>6. \A i \in 0..(n - 1), d \in Drives : Sound(rows, s, g[i][d], d)
  <2>1. \A i \in 0..(n - 1) : i + 1 \in 0..n /\ g[i] = h[i + 1]
    BY <1>1
  <2> HIDE DEF g
  <2>2. QED
    BY <1>2, <2>1
<1> HIDE DEF g
<1>7. Faithful(rows, s, g, p, h[1])
  BY <1>1, <1>4, <1>5, <1>6 DEF Faithful
<1>8. QED
  BY <1>1, <1>3, <1>4, <1>7 DEF n

(* A step that takes no row back leaves what is to be shown as it is. *)
Onward(rows, next, s) ==
  \A r \in DOMAIN rows :
    /\ r \in DOMAIN next /\ next[r].drive = rows[r].drive
    /\ rows[r].status # "PENDING" => next[r].status # "PENDING"
    /\ s => Forward(rows[r], next[r])

LEMMA SoundKept ==
  ASSUME NEW rows, NEW next, NEW s, NEW t, NEW x \in Entries, NEW d, t => s,
         Onward(rows, next, t), Sound(rows, s, x, d),
         \A r \in DOMAIN rows : /\ rows[r].stage \in Nat /\ rows[r].report \in Nat
                                /\ next[r].stage \in Nat /\ next[r].report \in Nat
  PROVE  Sound(next, t, x, d)
<1>1. x.stage \in Nat /\ x.report \in Nat
  BY FirstStages DEF Entries
<1>2. CASE x.run = 0
  BY <1>2 DEF Sound
<1>3. CASE x.run # 0
  <2>1. /\ x.run \in DOMAIN rows /\ rows[x.run].drive = d /\ rows[x.run].status # "PENDING"
        /\ t => Forward(x, rows[x.run]) /\ Forward(rows[x.run], next[x.run])
        /\ x.run \in DOMAIN next /\ next[x.run].drive = d /\ next[x.run].status # "PENDING"
    BY <1>3 DEF Sound, Onward
  <2>2. t => Forward(x, next[x.run])
    BY <1>1, <2>1 DEF Forward
  <2>3. QED
    BY <1>3, <2>1, <2>2 DEF Sound
<1>4. QED
  BY <1>2, <1>3

LEMMA FaithfulKept ==
  ASSUME NEW rows, NEW next, NEW s, NEW t, NEW h, NEW q, NEW l, t => s,
         Onward(rows, next, t), Faithful(rows, s, h, q, l),
         \A i \in 1..Len(q) : q[i].run \in DOMAIN rows,
         \A r \in DOMAIN rows : /\ rows[r].stage \in Nat /\ rows[r].report \in Nat
                                /\ next[r].stage \in Nat /\ next[r].report \in Nat
  PROVE  Faithful(next, t, h, q, l)
<1>1. \A i \in 1..Len(q) : After(next, h[i - 1], q[i]) = After(rows, h[i - 1], q[i])
  BY DEF After, Onward
<1>2. \A i \in 0..Len(q), d \in Drives : Sound(next, t, h[i][d], d)
  <2>1. \A i \in 0..Len(q), d \in Drives : h[i][d] \in Entries /\ Sound(rows, s, h[i][d], d)
    BY DEF Faithful
  <2>2. QED
    BY <2>1, SoundKept
<1>3. QED
  BY <1>1, <1>2 DEF Faithful

-----------------------------------------------------------------------------
(* The event of an engine step brings the entry to the row it wrote. *)
LEMMA EventShows ==
  ASSUME OwnedInv, NEW r, NEW row, NEW e, Writes(r, row, e), Tells(r, row, e),
         NEW t \in BOOLEAN, t => Steady, NEW x \in Entries, NEW y, y = Becomes(x, e),
         Sound(runs, t, x, runs[r].drive),
         runs[r].status = "RUNNING" /\ runs[r].stage # 0 => Shows(x, r, runs[r])
  PROVE  /\ y.report # 0 => y.stage \in Reporting
         /\ y.run = 0 => y.stage = 0
         /\ y.run # 0 => y.run = r /\ (t => Forward(y, row))
         /\ t => Follows(x, y)
         /\ row.status = "RUNNING" /\ row.stage # 0 => Shows(y, r, row)
<1>1. /\ r \in Nat \ {0} /\ r \in DOMAIN runs /\ row \in Rows /\ runs[r] \in Rows
      /\ e.run = r /\ e.status = row.status
      /\ row.status \in {"RUNNING"} \union Terminal
  BY RowFacts DEF OwnedInv, Writes, Rows
<1>2. /\ x.stage \in Nat /\ x.report \in Nat /\ row.stage \in Nat /\ row.report \in Nat
      /\ runs[r].stage \in Nat /\ runs[r].report \in Nat
  BY <1>1, FirstStages DEF Entries, Rows
<1>3. CASE row.status \in Terminal
  <2>1. y = Nobody
    BY <1>1, <1>3 DEF Writes, Becomes
  <2>2. row.status # "RUNNING"
    BY <1>3 DEF Terminal
  <2>3. QED
    BY <1>1, <2>1, <2>2 DEF Nobody, Follows
<1>4. CASE row.status = "RUNNING"
  <2>0. /\ e.status = "RUNNING" /\ e.status \notin Terminal
        /\ e.stage = row.stage /\ row.stage # 0 /\ y.run = r
        /\ row.report # 0 => row.stage \in Reporting
        /\ x.report # 0 => x.stage \in Reporting
    BY <1>1, <1>4 DEF Writes, Becomes, Terminal, Sound
  <2>1. /\ x.run = r => (t => Forward(x, runs[r]))
        /\ t => ~ runs[r].redone /\ runs[r].held
    BY <1>1 DEF Sound, OwnedInv, RowsMatch, Steady
  <2>2. CASE e.name = "stage:progress" /\ e.report = row.report
             /\ runs[r].status = "RUNNING"
             /\ row.stage = runs[r].stage /\ row.report > runs[r].report
    <3>1. y.stage = row.stage /\ y.report = row.report
      BY <2>0, <2>2 DEF Becomes
    <3>2. x.stage = row.stage /\ (t => x.report = runs[r].report)
      BY <2>0, <2>1, <2>2 DEF Shows
    <3>3. QED
      BY <1>1, <1>2, <2>0, <2>2, <3>1, <3>2 DEF Forward, Follows, Shows
  <2>3. CASE e.name = "run:update" /\ row.report = 0 /\ runs[r].stage = 0 /\ row.stage = 1
    <3>1. y.stage = 1 /\ y.report = 0
      BY <2>0, <2>3, FirstStages DEF Becomes
    <3>2. t /\ x.run = r => x.stage = 0
      BY <1>2, <2>1, <2>3 DEF Forward
    <3>3. QED
      BY <1>1, <1>2, <2>0, <2>3, <3>1, <3>2 DEF Forward, Follows, Shows
  <2>4. CASE e.name = "run:update" /\ row.report = 0 /\ runs[r].stage # 0
             /\ runs[r].status = "RUNNING" /\ row.stage > runs[r].stage
    <3>1. x.stage = runs[r].stage
      BY <2>4 DEF Shows
    <3>2. y.stage = row.stage /\ y.report = 0
      BY <1>2, <2>0, <2>4, <3>1 DEF Becomes
    <3>3. QED
      BY <1>1, <1>2, <2>0, <2>4, <3>1, <3>2 DEF Forward, Follows, Shows
  <2>5. CASE e.name = "run:update" /\ runs[r].status = "RUNNING" /\ ~runs[r].held /\ row.held
             /\ row.stage = runs[r].stage
             /\ (row.report = runs[r].report \/ row.redone)
    <3>1. ~t
      BY <2>1, <2>5
    <3>2. x.stage = row.stage /\ x.report = runs[r].report
      BY <2>0, <2>5 DEF Shows
    <3>3. y.stage = row.stage /\ y.report = x.report
      BY <2>0, <2>5, <3>2 DEF Becomes
    <3>4. QED
      BY <1>1, <2>0, <2>5, <3>1, <3>2, <3>3 DEF Shows
  <2>6. QED
    BY <1>4, <2>2, <2>3, <2>4, <2>5 DEF Tells, Terminal
<1>5. QED
  BY <1>1, <1>3, <1>4

(* The event of an engine step is the last of the queue. *)
LEMMA WritesKeepPictured ==
  ASSUME OwnedInv, OwnedInv', Pictured, NEW r, NEW row, NEW e,
         Writes(r, row, e), Tells(r, row, e)
  PROVE  Pictured'
<1> DEFINE t == Steady'
<1>1. /\ runs \in Seq(Rows) /\ queue \in Seq(Events) /\ live \in [Drives -> Entries]
      /\ runs' \in Seq(Rows)
  BY DEF OwnedInv, Typed
<1>2. /\ r \in DOMAIN runs /\ runs[r].status \notin Terminal /\ row \in Rows /\ e \in Events
      /\ runs' = [runs EXCEPT ![r] = row]
      /\ queue' = IF link = "up" THEN Append(queue, e) ELSE queue
      /\ UNCHANGED <<link, restarts, live>> /\ missed \subseteq missed'
      /\ row.drive = runs[r].drive /\ row.status # "PENDING" /\ e.run = r
  BY DEF Writes, Active
<1>3. /\ DOMAIN runs' = DOMAIN runs /\ runs'[r] = row
      /\ \A q \in DOMAIN runs : q # r => runs'[q] = runs[q]
  BY <1>1, <1>2
<1>4. t \in BOOLEAN /\ (t => Steady) /\ (t => restarts = 0)
  BY <1>2 DEF Steady
<1> HIDE DEF t
<1>5. /\ \A q \in DOMAIN runs : runs[q] \in Rows /\ q # 0 /\ q \in Nat
      /\ \A q \in DOMAIN runs : /\ runs[q].stage \in Nat /\ runs[q].report \in Nat
                                /\ runs'[q].stage \in Nat /\ runs'[q].report \in Nat
      /\ runs[r].drive \in Drives
  <2>1. \A q \in DOMAIN runs : runs[q] \in Rows /\ runs'[q] \in Rows
    BY <1>1, <1>3
  <2>2. QED
    BY <1>1, <1>2, <2>1, FirstStages DEF Rows
<1>6. Onward(runs, runs', t)
  <2>1. t => Forward(runs[r], row)
    <3>1. t => runs[r].held
      BY <1>2, <1>4 DEF OwnedInv, RowsMatch
    <3>2. row.stage \in Nat /\ row.report \in Nat
      BY <1>2, <1>3, <1>5
    <3>3. QED
      BY <1>2, <1>5, <3>1, <3>2 DEF Tells, Forward
  <2>2. \A q \in DOMAIN runs : Forward(runs[q], runs[q])
    BY <1>5 DEF Forward
  <2>3. QED
    BY <1>2, <1>3, <2>1, <2>2 DEF Onward
<1>7. \A d \in Drives : Sound(runs', t, live[d], d)
  <2>1. \A d \in Drives : live[d] \in Entries /\ Sound(runs, Steady, live[d], d)
    BY <1>1 DEF Pictured
  <2>2. QED
    BY <1>4, <1>5, <1>6, <2>1, SoundKept
<1>8. ASSUME link = "up"
      PROVE  \E g : Faithful(runs', t, g, queue', live) /\ ShowsAll(runs', g[Len(queue')])
  <2>1. PICK h : Faithful(runs, Steady, h, queue, live) /\ ShowsAll(runs, h[Len(queue)])
    BY <1>8 DEF Pictured
  <2>2. Faithful(runs', t, h, queue, live)
    <3>1. \A i \in 1..Len(queue) : queue[i].run \in DOMAIN runs
      BY <1>1 DEF OwnedInv, Queued
    <3>2. QED
      BY <1>4, <1>5, <1>6, <2>1, <3>1, FaithfulKept
  <2> DEFINE l == h[Len(queue)]
             after == After(runs', l, e)
             c == runs[r].drive
             x == l[c]
             y == Becomes(x, e)
  <2>3. /\ l \in [Drives -> Entries] /\ x \in Entries
        /\ \A d \in Drives : Sound(runs', t, l[d], d)
        /\ Sound(runs, Steady, x, c)
    <3>1. Len(queue) \in 0..Len(queue)
      BY <1>1
    <3>2. QED
      BY <1>5, <2>1, <2>2, <3>1 DEF Faithful
  <2>4. runs'[e.run].drive = c /\ c \in Drives
    BY <1>2, <1>3, <1>5
  <2>5. /\ after \in [Drives -> Entries] /\ y \in Entries
        /\ \A d \in Drives : after[d] = IF d = c THEN y ELSE l[d]
    <3>1. e \in Events
      BY <1>2
    <3> HIDE DEF l, c
    <3>2. /\ After(runs', l, e) \in [Drives -> Entries]
          /\ \A d \in Drives : After(runs', l, e)[d] =
               IF d = runs'[e.run].drive THEN Becomes(l[d], e) ELSE l[d]
      BY <2>3, <2>4, <3>1, AfterIs
    <3>3. QED
      BY <2>3, <2>4, <3>1, <3>2, BecomesTyped
  <2>6. /\ y.report # 0 => y.stage \in Reporting
        /\ y.run = 0 => y.stage = 0
        /\ y.run # 0 => y.run = r /\ (t => Forward(y, row))
        /\ t => Follows(x, y)
        /\ row.status = "RUNNING" /\ row.stage # 0 => Shows(y, r, row)
    <3>1. runs[r].status = "RUNNING" /\ runs[r].stage # 0 => Shows(x, r, runs[r])
      BY <1>2, <2>1 DEF ShowsAll
    <3>2. Sound(runs, t, x, c)
      BY <1>4, <2>3 DEF Sound
    <3> HIDE DEF x
    <3>3. QED
      BY <1>4, <2>3, <3>1, <3>2, EventShows
  <2>7. \A d \in Drives : Sound(runs', t, after[d], d)
    <3>1. Sound(runs', t, y, c)
      BY <1>2, <1>3, <2>6 DEF Sound
    <3>2. QED
      BY <2>3, <2>5, <3>1
  <2>8. t => \A d \in Drives : Follows(l[d], after[d])
    <3>1. \A d \in Drives : Forward(l[d], l[d])
      BY <2>3, FirstStages DEF Forward, Entries
    <3>2. QED
      BY <2>5, <2>6, <3>1 DEF Follows
  <2>9. ShowsAll(runs', after)
    <3> SUFFICES ASSUME NEW q \in DOMAIN runs', runs'[q].status = "RUNNING", runs'[q].stage # 0
                 PROVE  Shows(after[runs'[q].drive], q, runs'[q])
      BY DEF ShowsAll
    <3>1. CASE q = r
      BY <1>3, <2>4, <2>5, <2>6, <3>1, <1>2
    <3>2. CASE q # r
      <4>1. runs'[q] = runs[q] /\ q \in DOMAIN runs /\ runs[q].drive \in Drives
        BY <1>3, <1>5, <3>2 DEF Rows
      <4>2. runs[q].drive # c
        BY <1>2, <3>2, <4>1 DEF OwnedInv, OneActive, Active, Terminal
      <4>3. Shows(l[runs[q].drive], q, runs[q])
        BY <2>1, <4>1 DEF ShowsAll
      <4>4. QED
        BY <2>5, <4>1, <4>2, <4>3
    <3>3. QED
      BY <3>1, <3>2
  <2>10. queue' = Append(queue, e)
    BY <1>2, <1>8
  <2> HIDE DEF l, after, c, x, y
  <2>11. l = h[Len(queue)] /\ after = After(runs', h[Len(queue)], e)
    BY DEF l, after
  <2>12. PICK g : Faithful(runs', t, g, Append(queue, e), live)
                  /\ g[Len(Append(queue, e))] = After(runs', h[Len(queue)], e)
    <3>1. /\ \A d \in Drives : Sound(runs', t, After(runs', h[Len(queue)], e)[d], d)
          /\ t => \A d \in Drives :
                    Follows(h[Len(queue)][d], After(runs', h[Len(queue)], e)[d])
      BY <2>7, <2>8, <2>11
    <3>2. runs'[e.run].drive \in Drives /\ e \in Events
      BY <1>2, <2>4
    <3>3. QED
      BY <1>1, <2>2, <3>1, <3>2, AppendFaithful, SMTT(60)
  <2>13. QED
    BY <2>9, <2>10, <2>11, <2>12
<1>9. QED
  BY <1>2, <1>7, <1>8 DEF Pictured, t

(* A new run is pending: no page shows it yet. *)
LEMMA GrowthKeepsPictured ==
  ASSUME OwnedInv, OwnedInv', Pictured,
         UNCHANGED runs \/ \E d \in Drives : Created(d),
         UNCHANGED <<queue, missed, link, restarts, live>>
  PROVE  Pictured'
<1>1. /\ runs \in Seq(Rows) /\ queue \in Seq(Events) /\ live \in [Drives -> Entries]
      /\ runs' \in Seq(Rows)
  BY DEF OwnedInv, Typed
<1>2. /\ \A q \in DOMAIN runs : q \in DOMAIN runs' /\ runs'[q] = runs[q]
      /\ \A q \in DOMAIN runs' : q \notin DOMAIN runs => runs'[q].status = "PENDING"
  <2>1. CASE UNCHANGED runs
    BY <2>1
  <2>2. ASSUME NEW d \in Drives, Created(d)
        PROVE  /\ \A q \in DOMAIN runs : q \in DOMAIN runs' /\ runs'[q] = runs[q]
               /\ \A q \in DOMAIN runs' : q \notin DOMAIN runs => runs'[q].status = "PENDING"
    <3> DEFINE new == [drive |-> d, status |-> "PENDING", stage |-> 0,
                       report |-> 0, held |-> TRUE, redone |-> FALSE]
    <3>1. runs' = Append(runs, new) /\ new.status = "PENDING"
      BY <2>2 DEF Created
    <3> HIDE DEF new
    <3>2. QED
      BY <1>1, <3>1
  <2>3. QED
    BY <2>1, <2>2
<1>3. \A q \in DOMAIN runs : /\ runs[q].stage \in Nat /\ runs[q].report \in Nat
                             /\ runs'[q].stage \in Nat /\ runs'[q].report \in Nat
  <2>1. \A q \in DOMAIN runs : runs[q] \in Rows
    BY <1>1
  <2>2. QED
    BY <1>2, <2>1, FirstStages DEF Rows
<1>4. Onward(runs, runs', Steady)
  BY <1>2, <1>3 DEF Onward, Forward
<1>5. Steady' <=> Steady
  BY DEF Steady
<1>6. \A d \in Drives : Sound(runs', Steady, live[d], d)
  <2>1. \A d \in Drives : live[d] \in Entries /\ Sound(runs, Steady, live[d], d)
    BY <1>1 DEF Pictured
  <2>2. QED
    BY <1>3, <1>4, <2>1, SoundKept
<1>7. ASSUME link = "up"
      PROVE  \E h : Faithful(runs', Steady, h, queue, live) /\ ShowsAll(runs', h[Len(queue)])
  <2>1. PICK h : Faithful(runs, Steady, h, queue, live) /\ ShowsAll(runs, h[Len(queue)])
    BY <1>7 DEF Pictured
  <2>2. \A i \in 1..Len(queue) : queue[i].run \in DOMAIN runs
    BY <1>1 DEF OwnedInv, Queued
  <2>3. Faithful(runs', Steady, h, queue, live)
    BY <1>3, <1>4, <2>1, <2>2, FaithfulKept
  <2>4. ShowsAll(runs', h[Len(queue)])
    BY <1>2, <2>1 DEF ShowsAll
  <2>5. QED
    BY <2>3, <2>4
<1>8. Steady' = Steady
  BY DEF Steady
<1>9. QED
  BY <1>6, <1>7, <1>8 DEF Pictured

(* Without a connection only what the page already shows is left to keep. *)
LEMMA LostKeepsPictured ==
  ASSUME OwnedInv, OwnedInv', Pictured, Drop \/ Restart
  PROVE  Pictured'
<1>1. /\ runs \in Seq(Rows) /\ live \in [Drives -> Entries] /\ restarts \in Nat
      /\ runs' \in Seq(Rows)
  BY DEF OwnedInv, Typed
<1>2. /\ link' # "up" /\ live' = live /\ missed \subseteq missed'
      /\ DOMAIN runs' = DOMAIN runs
      /\ \A q \in DOMAIN runs :
           /\ runs'[q].drive = runs[q].drive /\ runs'[q].stage = runs[q].stage
           /\ runs'[q].report = runs[q].report
           /\ runs[q].status # "PENDING" => runs'[q].status # "PENDING"
      /\ restarts' = 0 => restarts = 0
  <2>1. CASE Drop
    BY <2>1 DEF Drop, pageVars
  <2>2. CASE Restart
    <3>1. PICK begun \in SUBSET {q \in DOMAIN runs : runs[q].status = "PENDING"} :
            runs' = [q \in DOMAIN runs |->
                       [runs[q] EXCEPT !.held = FALSE,
                                       !.status = IF q \in begun THEN "RUNNING" ELSE @]]
      BY <2>2 DEF Restart
    <3>2. /\ link' = "down" /\ restarts' = restarts + 1 /\ missed \subseteq missed'
          /\ live' = live
      BY <2>2 DEF Restart, pageVars
    <3>3. \A q \in DOMAIN runs : runs[q] \in Rows
      BY <1>1
    <3>4. \A q \in DOMAIN runs :
           /\ runs'[q].drive = runs[q].drive /\ runs'[q].stage = runs[q].stage
           /\ runs'[q].report = runs[q].report
           /\ runs[q].status # "PENDING" => runs'[q].status # "PENDING"
      BY <3>1, <3>3 DEF Rows
    <3>5. QED
      <4>1. DOMAIN runs' = DOMAIN runs
        BY <3>1
      <4>2. link' # "up" /\ restarts' # 0
        BY <1>1, <3>2
      <4>3. QED
        BY <3>2, <3>4, <4>1, <4>2
  <2>3. QED
    BY <2>1, <2>2
<1>3. \A q \in DOMAIN runs : /\ runs[q].stage \in Nat /\ runs[q].report \in Nat
                             /\ runs'[q].stage \in Nat /\ runs'[q].report \in Nat
  <2>1. \A q \in DOMAIN runs : runs[q] \in Rows
    BY <1>1
  <2>2. QED
    BY <1>2, <2>1, FirstStages DEF Rows
<1> DEFINE t == Steady'
<1>4. t => Steady
  BY <1>2 DEF Steady
<1> HIDE DEF t
<1>5. Onward(runs, runs', t)
  BY <1>2, <1>3 DEF Onward, Forward
<1>6. \A d \in Drives : Sound(runs', t, live[d], d)
  <2>1. \A d \in Drives : live[d] \in Entries /\ Sound(runs, Steady, live[d], d)
    BY <1>1 DEF Pictured
  <2>2. QED
    BY <1>3, <1>4, <1>5, <2>1, SoundKept
<1>7. QED
  BY <1>2, <1>6 DEF Pictured, t

(* The page has taken the first event, and nothing else has changed. *)
LEMMA DeliverKeepsPictured ==
  ASSUME OwnedInv, Pictured, Deliver
  PROVE  /\ Pictured'
         /\ Steady => \A d \in Drives : Follows(live[d], live'[d])
<1>1. /\ Len(queue) \in Nat /\ Len(queue) > 0 /\ Len(queue') = Len(queue) - 1
      /\ \A i \in 1..(Len(queue) - 1) : queue'[i] = queue[i + 1]
      /\ link = "up" /\ live' = After(runs, live, queue[1])
      /\ UNCHANGED <<runs, link, missed, restarts>>
  <2>1. restarts' = restarts
    BY DEF Deliver, linkVars
  <2>2. QED
    BY <2>1, DeliverEffect
<1>2. Steady' = Steady
  BY <1>1 DEF Steady
<1>3. PICK h : Faithful(runs, Steady, h, queue, live) /\ ShowsAll(runs, h[Len(queue)])
  BY <1>1 DEF Pictured
<1>4. live' = h[1] /\ \E g : Faithful(runs, Steady, g, queue', h[1]) /\ g[Len(queue')] = h[Len(queue)]
  <2>1. /\ h[1] = After(runs, live, queue[1])
        /\ \E g : Faithful(runs, Steady, g, queue', h[1]) /\ g[Len(queue')] = h[Len(queue)]
    BY <1>1, <1>3, TailFaithful
  <2>2. QED
    BY <1>1, <2>1
<1>5. PICK g : Faithful(runs, Steady, g, queue', live') /\ g[Len(queue')] = h[Len(queue)]
  BY <1>4
<1>6. \A d \in Drives : Sound(runs, Steady, live'[d], d)
  <2>1. 1 \in 0..Len(queue)
    BY <1>1
  <2>2. QED
    BY <1>3, <1>4, <2>1 DEF Faithful
<1>7. Pictured'
  BY <1>1, <1>2, <1>3, <1>5, <1>6 DEF Pictured
<1>8. Steady => \A d \in Drives : Follows(live[d], live'[d])
  <2>1. 1 \in 1..Len(queue) /\ 1 - 1 = 0
    BY <1>1
  <2>2. Steady => \A d \in Drives : Follows(h[1 - 1][d], h[1][d])
    BY <1>3, <2>1 DEF Faithful
  <2>3. h[0] = live
    BY <1>3 DEF Faithful
  <2>4. QED
    BY <1>4, <2>1, <2>2, <2>3
<1>9. QED
  BY <1>7, <1>8

(***************************************************************************)
(* A new connection: the snapshot, replayed over whatever the page shows.  *)
(***************************************************************************)
(* What the page may show as the snapshot begins, and after each event of it. *)
Recent(l) ==
  /\ l \in [Drives -> Entries]
  /\ \A d \in Drives :
       /\ Sound(runs, Steady, l[d], d)
       /\ Steady /\ l[d].run # 0 => Active(l[d].run)

(* The events q bring the running ones of the first n runs onto l. *)
Replays(q, n, l) ==
  \E h : /\ Faithful(runs, Steady, h, q, l)
         /\ \A r \in 1..n : runs[r].status = "RUNNING" /\ runs[r].stage # 0
              => Shows(h[Len(q)][runs[r].drive], r, runs[r])
         /\ \A d \in Drives :
              (\A r \in 1..n : runs[r].status = "RUNNING" => runs[r].drive # d)
                => h[Len(q)][d] = l[d]

(* One event of the snapshot. *)
LEMMA ReportShows ==
  ASSUME OwnedInv, NEW r \in DOMAIN runs, runs[r].status = "RUNNING",
         NEW e \in Events, e.run = r, e.status = "RUNNING", e.stage = runs[r].stage,
         \/ e.name = "run:update"
         \/ e.name = "stage:progress" /\ e.stage # 0 /\ e.report = runs[r].report,
         NEW l, Recent(l)
  PROVE  /\ Recent(After(runs, l, e))
         /\ \A d \in Drives : After(runs, l, e)[d] =
              IF d = runs[r].drive THEN Becomes(l[d], e) ELSE l[d]
         /\ Steady => \A d \in Drives : Follows(l[d], After(runs, l, e)[d])
         /\ e.name = "stage:progress" =>
              Shows(After(runs, l, e)[runs[r].drive], r, runs[r])
<1> DEFINE c == runs[r].drive
           x == l[c]
           y == Becomes(x, e)
<1>1. /\ r \in Nat \ {0} /\ runs[r] \in Rows /\ c \in Drives
      /\ runs[r].stage \in Nat /\ runs[r].report \in Nat
  BY RowFacts, FirstStages DEF OwnedInv, Rows
<1>2. /\ l \in [Drives -> Entries] /\ x \in Entries /\ x.stage \in Nat /\ x.report \in Nat
  BY <1>1, FirstStages DEF Recent, Entries
<1>3. /\ After(runs, l, e) \in [Drives -> Entries] /\ y \in Entries
      /\ \A d \in Drives : After(runs, l, e)[d] = IF d = c THEN y ELSE l[d]
  <2>1. /\ After(runs, l, e) \in [Drives -> Entries]
        /\ \A d \in Drives : After(runs, l, e)[d] =
             IF d = runs[e.run].drive THEN Becomes(l[d], e) ELSE l[d]
    BY <1>1, <1>2, AfterIs
  <2>2. y \in Entries
    BY <1>2, BecomesTyped
  <2>3. QED
    BY <2>1, <2>2
<1>4. /\ Sound(runs, Steady, x, c) /\ (Steady /\ x.run # 0 => Active(x.run))
  BY <1>1 DEF Recent
<1>5. Steady => runs[r].held /\ runs[r].stage # 0
  BY DEF OwnedInv, RowsMatch, Steady
<1>6. Active(r)
  BY DEF Active, Terminal
<1>7. Steady /\ x.run # 0 => x.run = r
  BY <1>4, <1>6 DEF Sound, OwnedInv, OneActive
<1>8. Steady => \/ x.run = 0 /\ x.stage = 0
                \/ x.run = r /\ Forward(x, runs[r])
  BY <1>4, <1>7 DEF Sound
<1>9. e.status \notin Terminal /\ y.run = r
  BY DEF Terminal, Becomes
<1>10. /\ y.report # 0 => y.stage \in Reporting
       /\ Steady => Forward(y, runs[r]) /\ Follows(x, y)
       /\ e.name = "stage:progress" => Shows(y, r, runs[r])
  <2>1. CASE e.name = "run:update"
    <3>1. /\ y.stage = IF e.stage # 0 THEN e.stage ELSE x.stage
          /\ y.report = IF y.stage # x.stage THEN 0 ELSE x.report
      BY <1>9, <2>1 DEF Becomes
    <3>2. y.report # 0 => y.stage \in Reporting
      BY <1>4, <3>1 DEF Sound
    <3>3. Steady => Forward(y, runs[r]) /\ Follows(x, y)
      BY <1>1, <1>2, <1>5, <1>8, <3>1 DEF Forward, Follows
    <3>4. QED
      BY <2>1, <3>2, <3>3
  <2>2. CASE e.name = "stage:progress" /\ e.stage # 0 /\ e.report = runs[r].report
    <3>1. y.stage = runs[r].stage /\ y.report = runs[r].report
      BY <2>2 DEF Becomes
    <3>2. y.report # 0 => y.stage \in Reporting
      BY <3>1 DEF OwnedInv, RowsMatch
    <3>3. Steady => Forward(y, runs[r]) /\ Follows(x, y)
      BY <1>1, <1>2, <1>8, <3>1 DEF Forward, Follows
    <3>4. QED
      BY <1>9, <3>1, <3>2, <3>3 DEF Shows
  <2>3. QED
    BY <2>1, <2>2
<1>11. Sound(runs, Steady, y, c)
  BY <1>1, <1>9, <1>10 DEF Sound
<1>12. \A d \in Drives : Forward(l[d], l[d])
  BY <1>2, FirstStages DEF Forward, Entries
<1> HIDE DEF c, y
<1>13. Recent(After(runs, l, e))
  BY <1>3, <1>6, <1>9, <1>11 DEF Recent
<1>14. Steady => \A d \in Drives : Follows(l[d], After(runs, l, e)[d])
  BY <1>3, <1>10, <1>12 DEF Follows
<1>15. QED
  BY <1>1, <1>3, <1>10, <1>13, <1>14 DEF c, y

(* The same, before the events that follow it. *)
LEMMA ReportPrepended ==
  ASSUME NEW q \in Seq(Events), NEW e \in Events, runs[e.run].drive \in Drives,
         NEW l, Recent(l), NEW h, Faithful(runs, Steady, h, q, After(runs, l, e)),
         Steady => \A d \in Drives : Follows(l[d], After(runs, l, e)[d])
  PROVE  \E g : /\ Faithful(runs, Steady, g, <<e>> \o q, l)
                /\ g[Len(<<e>> \o q)] = h[Len(q)]
<1> DEFINE s == Steady
<1>1. s \in BOOLEAN
  BY DEF Steady
<1>2. /\ l \in [Drives -> Entries] /\ \A d \in Drives : Sound(runs, s, l[d], d)
      /\ Faithful(runs, s, h, q, After(runs, l, e))
      /\ s => \A d \in Drives : Follows(l[d], After(runs, l, e)[d])
  BY DEF Recent
<1> HIDE DEF s
<1>3. \E g : /\ Faithful(runs, s, g, <<e>> \o q, l)
             /\ g[Len(<<e>> \o q)] = h[Len(q)]
  BY <1>1, <1>2, PrependFaithful, SMTT(60)
<1>4. QED
  BY <1>3 DEF s

(* One more run, newer than the n - 1 whose events are q. *)
LEMMA ReplaysOneMore ==
  ASSUME OwnedInv, NEW n \in DOMAIN runs, NEW q \in Seq(Events),
         \A l : Recent(l) => Replays(q, n - 1, l),
         NEW l, Recent(l)
  PROVE  Replays(eventsOf(n) \o q, n, l)
<1> DEFINE row == runs[n]
           c == row.drive
           u == runUpdate(n, "RUNNING", row.stage)
           p == stageProgress(n, row.stage, row.report)
           Ends(h, m, k) ==
             /\ \A r \in 1..k : runs[r].status = "RUNNING" /\ runs[r].stage # 0
                  => Shows(h[runs[r].drive], r, runs[r])
             /\ \A d \in Drives :
                  (\A r \in 1..k : runs[r].status = "RUNNING" => runs[r].drive # d)
                    => h[d] = m[d]
<1>1. /\ n \in Nat \ {0} /\ row \in Rows /\ c \in Drives
      /\ DOMAIN runs = 1..Len(runs) /\ Len(runs) \in Nat
      /\ 1..n = (1..(n - 1)) \union {n} /\ n \notin 1..(n - 1)
      /\ 1..n \subseteq DOMAIN runs
      /\ \A r \in DOMAIN runs : runs[r].drive \in Drives
  BY RowFacts DEF OwnedInv, Rows
<1>2. \A m : Recent(m) => \E h : Faithful(runs, Steady, h, q, m) /\ Ends(h[Len(q)], m, n - 1)
  BY DEF Replays
<1>3. CASE row.status # "RUNNING"
  <2>1. eventsOf(n) \o q = q
    <3>1. eventsOf(n) = << >>
      BY <1>3 DEF eventsOf
    <3>2. QED
      BY <3>1
  <2>2. PICK h : Faithful(runs, Steady, h, q, l) /\ Ends(h[Len(q)], l, n - 1)
    BY <1>2
  <2>3. Ends(h[Len(q)], l, n)
    BY <1>1, <1>3, <2>2
  <2>4. QED
    BY <2>1, <2>2, <2>3 DEF Replays
<1>4. CASE row.status = "RUNNING"
  <2>1. /\ u \in Events /\ u.run = n /\ u.status = "RUNNING" /\ u.stage = row.stage
        /\ u.name = "run:update"
        /\ p \in Events /\ p.run = n /\ p.status = "RUNNING" /\ p.stage = row.stage
        /\ p.name = "stage:progress" /\ p.report = row.report
    BY <1>4, RunReports DEF OwnedInv, Reports, runUpdate, stageProgress
  <2>2. \A r \in 1..(n - 1) : runs[r].status = "RUNNING" => runs[r].drive # c
    BY <1>1, <1>4 DEF OwnedInv, OneActive, Active, Terminal
  <2>3. eventsOf(n) = IF row.stage = 0 THEN <<u>> ELSE <<u, p>>
    BY <1>4 DEF eventsOf
  <2> DEFINE m == After(runs, l, u)
             k == After(runs, m, p)
  <2> HIDE DEF u, p
  <2>4. /\ Recent(m) /\ (Steady => \A d \in Drives : Follows(l[d], m[d]))
        /\ \A d \in Drives : d # c => m[d] = l[d]
    BY <1>4, <2>1, ReportShows
  <2>5. CASE row.stage = 0
    <3>1. PICK h : Faithful(runs, Steady, h, q, m) /\ Ends(h[Len(q)], m, n - 1)
      BY <1>2, <2>4
    <3>2. Ends(h[Len(q)], l, n)
      BY <1>1, <1>4, <2>4, <2>5, <3>1
    <3>3. PICK g : Faithful(runs, Steady, g, <<u>> \o q, l) /\ g[Len(<<u>> \o q)] = h[Len(q)]
      <4>1. runs[u.run].drive \in Drives
        BY <1>1, <2>1
      <4>2. QED
        BY <2>1, <2>4, <3>1, <4>1, ReportPrepended
    <3>4. QED
      BY <2>3, <2>5, <3>2, <3>3 DEF Replays
  <2>6. CASE row.stage # 0
    <3>0. p.stage # 0 /\ p.stage = row.stage
      BY <2>1, <2>6
    <3>1. /\ Recent(k) /\ (Steady => \A d \in Drives : Follows(m[d], k[d]))
          /\ \A d \in Drives : d # c => k[d] = m[d]
          /\ Shows(k[c], n, row)
      <4> HIDE DEF m
      <4>1. QED
        BY <1>4, <2>1, <2>4, <3>0, ReportShows
    <3>2. PICK h : Faithful(runs, Steady, h, q, k) /\ Ends(h[Len(q)], k, n - 1)
      BY <1>2, <3>1
    <3>3. Ends(h[Len(q)], l, n)
      <4>1. h[Len(q)][c] = k[c]
        BY <1>1, <2>2, <3>2
      <4>2. \A d \in Drives : d # c => k[d] = l[d]
        BY <2>4, <3>1
      <4> HIDE DEF k, m, c
      <4>3. \A r \in 1..n : runs[r].status = "RUNNING" /\ runs[r].stage # 0
              => Shows(h[Len(q)][runs[r].drive], r, runs[r])
        BY <1>1, <3>1, <3>2, <4>1 DEF c
      <4>4. ASSUME NEW d \in Drives,
                   \A r \in 1..n : runs[r].status = "RUNNING" => runs[r].drive # d
            PROVE  h[Len(q)][d] = l[d]
        <5>1. d # c
          BY <1>1, <1>4, <4>4 DEF c
        <5>2. h[Len(q)][d] = k[d]
          BY <1>1, <3>2, <4>4
        <5>3. QED
          BY <4>2, <5>1, <5>2
      <4>5. QED
        BY <4>3, <4>4
    <3>4. PICK f : Faithful(runs, Steady, f, <<p>> \o q, m) /\ f[Len(<<p>> \o q)] = h[Len(q)]
      <4>1. runs[p.run].drive \in Drives
        BY <1>1, <2>1
      <4> HIDE DEF m
      <4>2. QED
        BY <2>1, <2>4, <3>1, <3>2, <4>1, ReportPrepended DEF k
    <3>5. PICK g : /\ Faithful(runs, Steady, g, <<u>> \o (<<p>> \o q), l)
                   /\ g[Len(<<u>> \o (<<p>> \o q))] = f[Len(<<p>> \o q)]
      <4>1. runs[u.run].drive \in Drives /\ <<p>> \o q \in Seq(Events)
        BY <1>1, <2>1
      <4> HIDE DEF m
      <4>2. Faithful(runs, Steady, f, <<p>> \o q, After(runs, l, u))
        BY <3>4 DEF m
      <4>3. Steady => \A d \in Drives : Follows(l[d], After(runs, l, u)[d])
        BY <2>4 DEF m
      <4>4. QED
        BY <2>1, <4>1, <4>2, <4>3, ReportPrepended, Zenon
    <3>6. <<u>> \o (<<p>> \o q) = <<u, p>> \o q
      <4> DEFINE one == <<u>>
                 two == <<p>>
                 both == <<u, p>>
      <4>1. /\ one \in Seq(Events) /\ two \in Seq(Events) /\ both \in Seq(Events)
            /\ Len(one) = 1 /\ one[1] = u /\ Len(two) = 1 /\ two[1] = p
            /\ Len(both) = 2 /\ both[1] = u /\ both[2] = p
        BY <2>1
      <4> HIDE DEF one, two, both
      <4>2. one \o two = both
        <5>1. /\ one \o two \in Seq(Events) /\ Len(one \o two) = 2
              /\ (one \o two)[1] = u /\ (one \o two)[2] = p
          <6>1. /\ one \o two \in Seq(Events) /\ Len(one \o two) = 2
                /\ \A i \in 1..2 : (one \o two)[i] = IF i <= 1 THEN one[i] ELSE two[i - 1]
            BY <4>1, ConcatProperties
          <6>2. 1 \in 1..2 /\ 2 \in 1..2 /\ 1 <= 1 /\ ~ (2 <= 1) /\ 2 - 1 = 1
            OBVIOUS
          <6>3. (one \o two)[1] = u
            BY <4>1, <6>1, <6>2
          <6>4. (one \o two)[2] = p
            BY <4>1, <6>1, <6>2
          <6>5. QED
            BY <6>1, <6>3, <6>4
        <5>2. \A i \in 1..2 : (one \o two)[i] = both[i]
          BY <4>1, <5>1
        <5>3. QED
          BY <4>1, <5>1, <5>2, SeqEqual
      <4>3. (one \o two) \o q = one \o (two \o q)
        BY <4>1, ConcatAssociative
      <4>4. one \o (two \o q) = both \o q
        BY <4>2, <4>3
      <4>5. QED
        BY <4>4 DEF one, two, both
    <3>7. eventsOf(n) \o q = <<u>> \o (<<p>> \o q)
      BY <2>3, <2>6, <3>6
    <3>8. g[Len(<<u>> \o (<<p>> \o q))] = h[Len(q)]
      BY <3>4, <3>5
    <3> HIDE DEF k, m
    <3>9. QED
      BY <3>3, <3>5, <3>7, <3>8 DEF Replays
  <2>7. QED
    BY <2>5, <2>6
<1>5. QED
  BY <1>3, <1>4

LEMMA ConnectKeepsPictured ==
  ASSUME OwnedInv, Pictured, Connect
  PROVE  Pictured'
<1>1. /\ link = "down" /\ link' = "up" /\ queue' = snapshotEvents /\ queue = << >>
      /\ UNCHANGED <<runs, restarts, missed, live>>
  BY DEF Connect, OwnedInv, Queued, pageVars
<1>2. /\ DOMAIN runs = 1..Len(runs) /\ Len(runs) \in Nat /\ live \in [Drives -> Entries]
  BY RowFacts DEF OwnedInv, Typed
<1>3. Recent(live)
  <2>1. \A d \in Drives : Sound(runs, Steady, live[d], d)
    BY DEF Pictured
  <2>2. ASSUME NEW d \in Drives, Steady, live[d].run # 0
        PROVE  Active(live[d].run)
    BY <1>1, <2>2 DEF OwnedInv, LiveKnown, Accounted, EndsAfter, Active, Steady
  <2>3. QED
    BY <1>2, <2>1, <2>2 DEF Recent
<1>4. PICK f : /\ f[0] = << >>
               /\ \A r \in 1..Len(runs) : f[r] = eventsOf(r) \o f[r - 1]
               /\ snapshotEvents = f[Len(runs)]
  BY <1>2, SnapshotGrows
<1> DEFINE S == {n \in Nat : /\ f[n] \in Seq(Events)
                             /\ \A l : Recent(l) => Replays(f[n], n, l)}
<1>5. 0 \in S
  <2>1. f[0] = << >> /\ f[0] \in Seq(Events) /\ Len(f[0]) = 0
    BY <1>4
  <2>2. ASSUME NEW l, Recent(l)
        PROVE  Replays(f[0], 0, l)
    <3> DEFINE h == [i \in 0..0 |-> l]
    <3>1. h[0] = l /\ h \in [0..0 -> [Drives -> Entries]]
      BY <2>2 DEF Recent
    <3>2. Faithful(runs, Steady, h, f[0], l)
      <4>1. \A d \in Drives : Sound(runs, Steady, l[d], d)
        BY <2>2 DEF Recent
      <4> HIDE DEF h
      <4>2. \A i \in 0..Len(f[0]) : i = 0
        BY <2>1
      <4>3. \A i \in 1..Len(f[0]) : FALSE
        BY <2>1
      <4>4. QED
        BY <2>1, <3>1, <4>1, <4>2, <4>3 DEF Faithful
    <3> HIDE DEF h
    <3>3. QED
      BY <2>1, <3>1, <3>2 DEF Replays
  <2>3. QED
    BY <2>1, <2>2
<1>6. ASSUME NEW n \in 1..Len(runs), n - 1 \in S
      PROVE  n \in S
  <2>1. /\ n \in DOMAIN runs /\ n \in Nat /\ f[n - 1] \in Seq(Events)
        /\ \A l : Recent(l) => Replays(f[n - 1], n - 1, l)
        /\ f[n] = eventsOf(n) \o f[n - 1]
    BY <1>2, <1>4, <1>6
  <2>2. \A l : Recent(l) => Replays(f[n], n, l)
    BY <2>1, ReplaysOneMore
  <2>3. f[n] \in Seq(Events)
    <3>1. eventsOf(n) \in Seq(Events)
      <4>1. runs[n].status = "RUNNING" =>
              /\ runUpdate(n, "RUNNING", runs[n].stage) \in Events
              /\ stageProgress(n, runs[n].stage, runs[n].report) \in Events
        BY <2>1, RunReports DEF OwnedInv, Reports
      <4>2. QED
        BY <4>1 DEF eventsOf
    <3>2. QED
      BY <2>1, <3>1
  <2>4. QED
    BY <2>1, <2>2, <2>3
<1>7. Len(runs) \in S
  <2> HIDE DEF S
  <2>1. \A k \in 0..Len(runs) : k \in S
    BY <1>2, <1>5, <1>6, UpTo
  <2>2. QED
    BY <1>2, <2>1
<1>8. Replays(queue', Len(runs), live)
  BY <1>1, <1>3, <1>4, <1>7
<1>9. \E h : Faithful(runs, Steady, h, queue', live) /\ ShowsAll(runs, h[Len(queue')])
  BY <1>2, <1>8 DEF Replays, ShowsAll
<1>10. Steady' = Steady
  BY <1>1 DEF Steady
<1>11. QED
  BY <1>1, <1>9, <1>10 DEF Pictured

LEMMA PageKeepsAll ==
  ASSUME OwnedInv, Page
  PROVE  /\ UNCHANGED runs \/ \E d \in Drives : Created(d)
         /\ UNCHANGED <<queue, missed, link, restarts, live>>
  BY DEF OwnedInv, Typed, Page, refreshDrives, CallSucceeds, CallRefused, GetDrives,
     GotDrives, GetFails, startTest, abort, serverVars, linkVars

LEMMA InitPictured == Init => Pictured
<1> SUFFICES ASSUME Init PROVE Pictured
  OBVIOUS
<1>1. link # "up" /\ \A d \in Drives : live[d] = Nobody
  BY DEF Init
<1>2. QED
  BY <1>1 DEF Pictured, Sound, Nobody

LEMMA PicturedStep == OwnedInv /\ Pictured /\ [Next]_vars => Pictured'
<1> SUFFICES ASSUME OwnedInv, Pictured, [Next]_vars PROVE Pictured'
  OBVIOUS
<1>1. OwnedInv'
  BY OwnedStep
<1>2. ASSUME NEW d \in Drives, CreatedElsewhere(d)
      PROVE  Pictured'
  BY <1>1, <1>2, GrowthKeepsPictured DEF CreatedElsewhere, linkVars, pageVars
<1>3. ASSUME NEW r \in DOMAIN runs,
             \/ Begin(r) \/ Progress(r)
             \/ \E s \in 1..Stages :
                  EnterStage(r, s) \/ \E fresh \in BOOLEAN : Resume(r, s, fresh)
             \/ \E status \in Endings : End(r, status)
      PROVE  Pictured'
  BY <1>1, <1>3, BeginWrites, ProgressWrites, EnterStageWrites, ResumeWrites, EndWrites,
     WritesKeepPictured DEF OwnedInv
<1>4. CASE Page
  BY <1>1, <1>4, PageKeepsAll, GrowthKeepsPictured
<1>5. CASE UNCHANGED vars
  BY <1>1, <1>5, GrowthKeepsPictured DEF vars
<1>6. QED
  BY <1>1, <1>2, <1>3, <1>4, <1>5, LostKeepsPictured, ConnectKeepsPictured,
     DeliverKeepsPictured
  DEF Next, Engine

LEMMA PicturedKept == Spec => [](OwnedInv /\ Pictured)
<1>1. Spec => []OwnedInv
  BY OwnedKept
<1>2. QED
  BY <1>1, InitPictured, PicturedStep, PTL DEF Spec

(* A page that has everything the server sent it shows every running run at  *)
(* its own stage and with its newest percentage: RunningShown, whatever was  *)
(* lost before and however many runs a snapshot replays                      *)
(* (useConsoleStore.ts:155,168, realtime.ts:67).                             *)
THEOREM RunningIsShown == Spec => []RunningShown
<1>1. OwnedInv /\ Pictured => RunningShown
  <2> SUFFICES ASSUME Pictured, AllDelivered PROVE RunningShown
    BY DEF RunningShown
  <2>1. link = "up" /\ Len(queue) = 0
    BY DEF AllDelivered
  <2>2. PICK h : Faithful(runs, Steady, h, queue, live) /\ ShowsAll(runs, h[Len(queue)])
    BY <2>1 DEF Pictured
  <2>3. h[0] = live
    BY <2>2 DEF Faithful
  <2>4. ShowsAll(runs, live)
    BY <2>1, <2>2, <2>3
  <2>5. QED
    BY <2>4 DEF RunningShown, ShowsAll, Shows
<1>2. QED
  BY <1>1, PicturedKept, PTL

(* What the page shows of one run never goes back to an earlier stage, nor   *)
(* to the percentage of an older report of its stage: ShownNeverGoesBack,    *)
(* across any number of lost connections and snapshots                       *)
(* (useConsoleStore.ts:190).  The percentages themselves may fall.           *)
THEOREM NeverGoesBack == Spec => ShownNeverGoesBack
<1> DEFINE Goal == \A d \in Drives :
             /\ restarts = 0 /\ missed = {}
             /\ live[d].run # 0 /\ live'[d].run = live[d].run
             => \/ live'[d].stage > live[d].stage
                \/ /\ live'[d].stage = live[d].stage
                   /\ live'[d].report >= live[d].report
<1>1. ASSUME OwnedInv, Pictured, [Next]_vars
      PROVE  Goal \/ UNCHANGED vars
  <2>1. CASE Deliver
    BY <2>1, <1>1, DeliverKeepsPictured DEF Steady, Follows, Forward
  <2>2. CASE live' = live
    <3>1. \A d \in Drives : live[d].stage \in Nat /\ live[d].report \in Nat
      BY <1>1, FirstStages DEF OwnedInv, Typed, Entries
    <3>2. QED
      BY <2>2, <3>1
  <2>3. Deliver \/ live' = live
    <3>1. Engine => live' = live
      <4>1. \A d : CreatedElsewhere(d) => live' = live
        BY DEF CreatedElsewhere, pageVars
      <4>2. \A r : Begin(r) \/ Progress(r) => live' = live
        BY DEF Begin, Progress, pageVars
      <4>3. \A r, s : EnterStage(r, s) \/ End(r, s) => live' = live
        BY DEF EnterStage, End, pageVars
      <4>4. \A r, s, fresh : Resume(r, s, fresh) => live' = live
        BY DEF Resume, pageVars
      <4>5. QED
        BY <4>1, <4>2, <4>3, <4>4 DEF Engine
    <3>2. Drop \/ Restart \/ Connect => live' = live
      BY DEF Drop, Restart, Connect, pageVars
    <3>3. Page => live' = live
      BY DEF Page, refreshDrives, GetDrives, GotDrives, GetFails, startTest, abort,
             CallSucceeds, CallRefused
    <3>4. UNCHANGED vars => live' = live
      BY DEF vars
    <3>5. QED
      BY <1>1, <3>1, <3>2, <3>3, <3>4 DEF Next
  <2>4. QED
    BY <2>1, <2>2, <2>3
<1>2. QED
  BY <1>1, PicturedKept, PTL DEF Spec, ShownNeverGoesBack
====
