---------------------------- MODULE SurfaceProcess ----------------------------
(***************************************************************************)
(* The badblocks process behind a surface stage: RealDeviceApi's           *)
(* runSurfaceTest (device/realDeviceApi.ts) with the progress tracker of   *)
(* badblocksParser.ts and the block size of surfaceArgs.ts.  The scans of  *)
(* one device path follow each other, as one run per drive makes them; the *)
(* process of an earlier one may outlive it.                               *)
(***************************************************************************)
EXTENDS Integers, Sequences, FiniteSetsExt

CONSTANTS MaxScans,                    \* bound: scans of the path
          WritePhases,                 \* 8 in the code: four patterns, written and verified
          Percents,                    \* bound: readings badblocks may print within a phase
          PHASE_RESET_DROP_PCT,        \* 25 in the code
          Sizes,                       \* bound: sizes of the drive, in bytes
          BlockFloor,                  \* 4096 in the code
          BADBLOCKS_BLOCK_CEILING,     \* 2^32 in the code
          MaxDoublings,                \* bound: doublings of the block size that Sizes need
          MaxChunk                     \* bound: readings in a chunk of output

ASSUME SurfaceAssumption ==
  /\ MaxScans \in Nat
  /\ WritePhases \in Nat \ {0}
  /\ Percents \subseteq 1..100
  /\ {PHASE_RESET_DROP_PCT, MaxDoublings, MaxChunk} \subseteq Nat
  /\ Sizes \subseteq Nat
  /\ {BlockFloor, BADBLOCKS_BLOCK_CEILING} \subseteq Nat \ {0}

Null == -1
Scans == 1..MaxScans
Modes == {"destructive", "readonly"}

VARIABLES
  call,               \* scan -> "idle", "cleared", "open", "finishing", "resolved"
  mode, size,         \* of the scan, of the drive
  aborted,            \* scan -> the run's AbortController fired
  child,              \* scan -> "none", "failed", "alive", "stuck", "exited", "closed"
  code,               \* scan -> exit code of the child, Null: none
  signals,            \* scan -> signals sent to the child
  timers,             \* scan -> timers armed
  abandonedWriters,   \* the scan whose pid is remembered for the path, Null: none
  truth,              \* scan -> where badblocks is: phase, pct, phases missed (history)
  tracker,            \* scan -> BadblocksProgressTracker
  sawProgress,        \* scan -> a percentage was read
  result              \* scan -> what the promise resolved to

vars == <<call, mode, size, aborted, child, code, signals, timers, abandonedWriters,
          truth, tracker, sawProgress, result>>

process == <<child, code, signals>>
progress == <<truth, tracker, sawProgress>>

Pending == [completed |-> FALSE, startFailed |-> FALSE, final |-> FALSE]
-----------------------------------------------------------------------------
(* surfaceArgs.ts *)

(* The block size, doubled k times. *)
BlockSize[k \in 0..MaxDoublings] ==
  IF k = 0 THEN BlockFloor ELSE 2 * BlockSize[k - 1]

ASSUME SizesAssumption ==
  \A s \in Sizes : s < BADBLOCKS_BLOCK_CEILING * BlockSize[MaxDoublings]

(* Seeded fault: a count of exactly 2^32 is let through. *)
surfaceBlockSizeStrict(sizeBytes) ==
  BlockSize[Min({k \in 0..MaxDoublings :
                   sizeBytes <= BADBLOCKS_BLOCK_CEILING * BlockSize[k]})]

(* The floor, doubled until the block count fits 32 bits; a size of 0 gets the floor. *)
surfaceBlockSize(sizeBytes) ==
  BlockSize[Min({k \in 0..MaxDoublings :
                   sizeBytes < BADBLOCKS_BLOCK_CEILING * BlockSize[k]})]

(* badblocksParser.ts *)
badblocksPhaseCount(m) == IF m = "destructive" THEN WritePhases ELSE 1

FreshTracker == [completedPhases |-> 0, lastPercent |-> Null]

TrackerUpdate(t, percent, totalPhases) ==
  [completedPhases |->
     IF t.lastPercent # Null /\ percent < t.lastPercent - PHASE_RESET_DROP_PCT
     THEN Min({t.completedPhases + 1, totalPhases - 1})
     ELSE t.completedPhases,
   lastPercent |-> percent]

(* The overall percentage times the number of phases; readings are within 0..100. *)
Overall(t) == 100 * t.completedPhases + t.lastPercent

(* Seeded fault (issue #90): only the last reading of a chunk is looked at. *)
ReadChunkLast(t, chunk, totalPhases) ==
  TrackerUpdate(t, chunk[Len(chunk)].pct, totalPhases)

(* parseBadblocksPercents: every reading of the chunk, in order. *)
ReadChunk(t, chunk, totalPhases) ==
  LET read[n \in 0..Len(chunk)] ==
        IF n = 0 THEN t ELSE TrackerUpdate(read[n - 1], chunk[n].pct, totalPhases)
  IN  read[Len(chunk)]
-----------------------------------------------------------------------------
Init ==
  /\ call = [i \in Scans |-> "idle"]
  /\ mode \in Modes
  /\ size \in Sizes
  /\ aborted = [i \in Scans |-> FALSE]
  /\ child = [i \in Scans |-> "none"]
  /\ code = [i \in Scans |-> Null]
  /\ signals = [i \in Scans |-> {}]
  /\ timers = [i \in Scans |-> {}]
  /\ abandonedWriters = Null
  /\ truth = [i \in Scans |-> [phase |-> 0, pct |-> 0, missed |-> 0]]
  /\ tracker = [i \in Scans |-> FreshTracker]
  /\ sawProgress = [i \in Scans |-> FALSE]
  /\ result = [i \in Scans |-> Pending]

(* isProcessAlive, of the pid of the child. *)
Living(i) == child[i] \in {"alive", "stuck"}

(* listDevices on the way to a scan: hasAbandonedWriter drops the record of a *)
(* process that is gone; while it is there, the guard refuses the drive.      *)
Recheck(i) ==
  /\ call[i] = "idle"
  /\ \A j \in 1..i-1 : call[j] = "resolved"
  /\ abandonedWriters # Null => ~Living(abandonedWriters)
  /\ call' = [call EXCEPT ![i] = "cleared"]
  /\ abandonedWriters' = Null
  /\ UNCHANGED <<mode, size, aborted, timers, process, progress, result>>

(* runSurfaceTest, up to the listeners: no await in between. *)
RunSurfaceTest(i) ==
  /\ call[i] = "cleared"
  /\ \/ /\ aborted[i]
        /\ call' = [call EXCEPT ![i] = "resolved"]
        /\ result' = [result EXCEPT ![i].final = TRUE]
        /\ UNCHANGED child
     \/ /\ ~aborted[i]
        /\ call' = [call EXCEPT ![i] = "open"]
        /\ \E outcome \in {"alive", "failed"} : child' = [child EXCEPT ![i] = outcome]
        /\ UNCHANGED result
  /\ UNCHANGED <<mode, size, aborted, code, signals, timers, abandonedWriters, progress>>

(* Seeded fault: finish leaves the timers armed. *)
FinishTimed(i, exitCode) ==
  IF call[i] = "open"
  THEN /\ call' = [call EXCEPT ![i] = "finishing"]
       /\ result' = [result EXCEPT ![i].completed = (exitCode = 0)]
       /\ UNCHANGED timers
  ELSE UNCHANGED <<call, result, timers>>

(* finish, up to readFile: only the first termination event acts. *)
Finish(i, exitCode) ==
  IF call[i] = "open"
  THEN /\ call' = [call EXCEPT ![i] = "finishing"]
       /\ result' = [result EXCEPT ![i].completed = (exitCode = 0)]
       /\ timers' = [timers EXCEPT ![i] = {}]
  ELSE UNCHANGED <<call, result, timers>>

(* finish, behind readFile: startFailed reads the signal as it is by then. *)
Resolve(i) ==
  /\ call[i] = "finishing"
  /\ call' = [call EXCEPT ![i] = "resolved"]
  /\ result' = [result EXCEPT ![i].final = TRUE,
                               ![i].startFailed = /\ ~result[i].completed
                                                  /\ ~sawProgress[i]
                                                  /\ ~aborted[i]]
  /\ UNCHANGED <<mode, size, aborted, timers, process, abandonedWriters, progress>>

(* The run's AbortController fires; onAbort runs if its listener is there. *)
Abort(i) ==
  /\ ~aborted[i]
  /\ call[i] # "resolved"
  /\ aborted' = [aborted EXCEPT ![i] = TRUE]
  /\ \/ /\ call[i] = "open"
        /\ signals' = [signals EXCEPT ![i] = @ \cup {"SIGTERM"}]
        /\ timers' = [timers EXCEPT ![i] = {"kill", "abandon"}]
     \/ /\ call[i] # "open"
        /\ UNCHANGED <<signals, timers>>
  /\ UNCHANGED <<call, mode, size, child, code, abandonedWriters, progress, result>>

(* Seeded fault: SIGKILL is not followed by a deadline. *)
KillFiresLast(i) ==
  /\ "kill" \in timers[i]
  /\ timers' = [timers EXCEPT ![i] = {}]
  /\ signals' = [signals EXCEPT ![i] = @ \cup {"SIGKILL"}]
  /\ UNCHANGED <<call, mode, size, aborted, child, code, abandonedWriters, progress, result>>

(* killTimer: the grace period is over. *)
KillFires(i) ==
  /\ "kill" \in timers[i]
  /\ timers' = [timers EXCEPT ![i] = @ \ {"kill"}]
  /\ signals' = [signals EXCEPT ![i] = @ \cup {"SIGKILL"}]
  /\ UNCHANGED <<call, mode, size, aborted, child, code, abandonedWriters, progress, result>>

(* The abandon deadline is three grace periods: behind the kill timer, and     *)
(* behind the events of every process that has ended, which take a turn of the *)
(* event loop.                                                                 *)
AbandonDue(i) ==
  /\ timers[i] = {"abandon"}
  /\ \A j \in Scans : child[j] \notin {"failed", "exited"}

(* Seeded fault (issue #105): the process is given up on and forgotten. *)
AbandonFiresForgetful(i) ==
  /\ AbandonDue(i)
  /\ Finish(i, Null)
  /\ UNCHANGED <<mode, size, aborted, process, abandonedWriters, progress>>

(* abandonTimer *)
AbandonFires(i) ==
  /\ AbandonDue(i)
  /\ abandonedWriters' = i
  /\ Finish(i, Null)
  /\ UNCHANGED <<mode, size, aborted, process, progress>>

(* child.on("error"): the process could not be spawned; "close" follows. *)
SpawnError(i) ==
  /\ child[i] = "failed"
  /\ child' = [child EXCEPT ![i] = "exited"]
  /\ code' = [code EXCEPT ![i] = 1]
  /\ Finish(i, Null)
  /\ UNCHANGED <<mode, size, aborted, signals, abandonedWriters, progress>>

(* Seeded fault: an exit after the deadline leaves the record. *)
CloseKeepingRecord(i) ==
  /\ child[i] = "exited"
  /\ child' = [child EXCEPT ![i] = "closed"]
  /\ Finish(i, code[i])
  /\ UNCHANGED <<mode, size, aborted, code, signals, abandonedWriters, progress>>

(* child.on("close"): the record of the path is dropped, whoever made it. *)
Close(i) ==
  /\ child[i] = "exited"
  /\ child' = [child EXCEPT ![i] = "closed"]
  /\ abandonedWriters' = Null
  /\ Finish(i, code[i])
  /\ UNCHANGED <<mode, size, aborted, code, signals, progress>>
-----------------------------------------------------------------------------
(* What badblocks prints next: more of its phase, or 0 percent of the next. *)
Readings(t) ==
  {[t EXCEPT !.pct = p] : p \in {q \in Percents : t.phase > 0 /\ q > t.pct}}
    \cup {u \in {[phase |-> t.phase + 1, pct |-> 0,
                  missed |-> IF t.phase > 0 /\ t.pct <= PHASE_RESET_DROP_PCT
                             THEN t.missed + 1 ELSE t.missed]} :
            u.phase <= badblocksPhaseCount(mode)}

(* What it has printed by the time the pipe is read: one reading or more, each *)
(* behind the one before it.                                                   *)
Chunks(t) ==
  LET places == [phase : 1..badblocksPhaseCount(mode), pct : Percents \cup {0},
                 missed : 0..badblocksPhaseCount(mode)]
  IN  {chunk \in UNION {[1..n -> places] : n \in 1..MaxChunk} :
         \A k \in DOMAIN chunk :
           chunk[k] \in Readings(IF k = 1 THEN t ELSE chunk[k - 1])}

(* child.stderr.on("data") *)
StderrData(i) ==
  /\ child[i] = "alive"
  /\ \E chunk \in Chunks(truth[i]) :
       /\ truth' = [truth EXCEPT ![i] = chunk[Len(chunk)]]
       /\ tracker' = [tracker EXCEPT
            ![i] = IF aborted[i] THEN @ ELSE ReadChunk(@, chunk, badblocksPhaseCount(mode))]
       /\ sawProgress' = [sawProgress EXCEPT ![i] = @ \/ ~aborted[i]]
  /\ UNCHANGED <<call, mode, size, aborted, timers, process, abandonedWriters, result>>

(* The process blocks in the kernel, where no signal reaches it, and may return. *)
ProcessSticks(i) ==
  /\ child[i] \in {"alive", "stuck"}
  /\ child' = [child EXCEPT ![i] = IF @ = "alive" THEN "stuck" ELSE "alive"]
  /\ UNCHANGED <<call, mode, size, aborted, code, signals, timers, abandonedWriters,
                 progress, result>>

(* It ends: 0 behind the last phase, anything else at any time, killed or not. *)
ProcessExits(i) ==
  /\ child[i] = "alive"
  /\ \E exitCode \in {0, 1} :
       /\ exitCode = 0 => truth[i].phase = badblocksPhaseCount(mode)
       /\ code' = [code EXCEPT ![i] = exitCode]
  /\ child' = [child EXCEPT ![i] = "exited"]
  /\ UNCHANGED <<call, mode, size, aborted, signals, timers, abandonedWriters, progress, result>>

Next ==
  \E i \in Scans :
    \/ Recheck(i) \/ RunSurfaceTest(i) \/ Resolve(i) \/ Abort(i)
    \/ KillFires(i) \/ AbandonFires(i) \/ SpawnError(i) \/ Close(i)
    \/ StderrData(i) \/ ProcessSticks(i) \/ ProcessExits(i)

Spec == Init /\ [][Next]_vars

(* Node's timers, file reads and events are delivered; nothing is asked of badblocks. *)
Fairness ==
  \A i \in Scans :
    WF_vars(Resolve(i)) /\ WF_vars(KillFires(i)) /\ WF_vars(AbandonFires(i))
      /\ WF_vars(SpawnError(i)) /\ WF_vars(Close(i))

FairSpec == Spec /\ Fairness
-----------------------------------------------------------------------------
(***************************************************************************)
(* Two badblocks never write one drive: what outlives its scan is either   *)
(* remembered or gone before the next scan spawns (realDeviceApi.ts:141-   *)
(* 184, 440-448, issue #105).                                              *)
(***************************************************************************)
OneWriter == \A i, j \in Scans : Living(i) /\ Living(j) => i = j

(***************************************************************************)
(* A pid is signalled only on behalf of a scan still open: no timer of a   *)
(* settled scan reaches a pid the system may have given to somebody else   *)
(* (realDeviceApi.ts:481-484).                                             *)
(***************************************************************************)
NoStraySignal ==
  [][\A i \in Scans : signals'[i] # signals[i] => call[i] = "open" /\ child[i] # "closed"]_vars

(***************************************************************************)
(* The overall figure is the true one less the phases whose last reading   *)
(* was no higher than the reset threshold; it counts no phase twice and    *)
(* exceeds 100 never (badblocksParser.ts:22-80, issue #90).                *)
(***************************************************************************)
ProgressAccountsForPhases ==
  \A i \in Scans : sawProgress[i] /\ ~aborted[i] =>
    Overall(tracker[i]) = 100 * (truth[i].phase - 1 - truth[i].missed) + truth[i].pct

(***************************************************************************)
(* badblocks can number the blocks of every drive: their count fits 32     *)
(* bits, and the block is the floor or the smallest that makes it fit      *)
(* (surfaceArgs.ts:8-34, issue #84).                                       *)
(***************************************************************************)
BlocksFitCeiling ==
  LET block == surfaceBlockSize(size) IN
    /\ size \div block < BADBLOCKS_BLOCK_CEILING
    /\ block > BlockFloor => size \div (block \div 2) >= BADBLOCKS_BLOCK_CEILING

(***************************************************************************)
(* An aborted scan resolves, though the process takes no notice of any     *)
(* signal (realDeviceApi.ts:426-450, issue #86).                           *)
(***************************************************************************)
AbortSettles == \A i \in Scans : aborted[i] /\ call[i] = "open" ~> call[i] = "resolved"

(***************************************************************************)
(* A drive is not kept from use longer than the process lives              *)
(* (realDeviceApi.ts:152-154, 510-515).                                    *)
(***************************************************************************)
QuarantineEnds ==
  \A i \in Scans : abandonedWriters = i /\ ~Living(i) ~> abandonedWriters # i
=============================================================================
