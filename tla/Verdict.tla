------------------------------- MODULE Verdict -------------------------------
(***************************************************************************)
(* How a drive is graded: verdict/evaluate.ts, and verdict/baselineGate.ts *)
(* that asks the same rules whether the baseline alone condemns it.  One   *)
(* behaviour is one run: baseline, gate, regime or skip, verdict.          *)
(***************************************************************************)
EXTENDS Integers

CONSTANTS reallocatedWarnMax, commandTimeoutWarnMax,       \* thresholds
          ssdPercentageUsedWarn, ssdPercentageUsedFail,
          MaxCount                                         \* bound on a counter

ASSUME ThresholdsAssumption ==
  {reallocatedWarnMax, commandTimeoutWarnMax, ssdPercentageUsedWarn,
   ssdPercentageUsedFail, MaxCount} \subseteq Nat

Null == -1      \* not reported

(* The graded SmartKeyMetrics; healthFailing is 0 for smartHealthPassed true, *)
(* 1 for false.                                                              *)
Metrics == {"reallocatedSectors", "currentPending", "offlineUncorrectable", "reportedUncorrect",
            "grownDefects", "healthFailing", "linkErrors", "spinRetryCount", "commandTimeouts",
            "crcErrors", "percentageUsed", "mediaErrors"}

Values(m) == IF m = "healthFailing" THEN {Null, 0, 1} ELSE {Null} \cup 0..MaxCount

DeviceTypes == {"HDD", "SSD", "NVMe"}
SelfTests == {"PASSED", "FAILED", "ABORTED", "UNKNOWN", "UNSUPPORTED"}
Surfaces == [badBlocks : 0..1, completed : BOOLEAN]
NoSurface == [badBlocks |-> 0, completed |-> TRUE, none |-> TRUE]
-----------------------------------------------------------------------------
(***************************************************************************)
(* The rules.  Each yields the set of reasons it pushes.                   *)
(***************************************************************************)
Rule(code, severity, holds) == {r \in {[code |-> code, severity |-> severity]} : holds}

Counted(v) == v # Null /\ v > 0

grew(b, a) == b # Null /\ a # Null /\ a > b

SelfTestReasons(selfTest) ==
  Rule("SELFTEST_FAILED", "fail", selfTest = "FAILED")
    \cup Rule("SELFTEST_SKIPPED", "info", selfTest = "SKIPPED")
    \cup Rule("SELFTEST_UNSUPPORTED", "info", selfTest = "UNSUPPORTED")
    \cup Rule("SELFTEST_INCOMPLETE", "warn", selfTest \in {"ABORTED", "UNKNOWN"})

(* Seeded fault: a scan that found nothing counts as one that completed. *)
SurfaceReasonsFound(surface) ==
  Rule("BADBLOCKS", "fail", surface.badBlocks > 0)
    \cup Rule("SURFACE_INCOMPLETE", "warn", surface.badBlocks > 0 /\ ~surface.completed)

(* NoSurface pushes nothing, as null does. *)
SurfaceReasons(surface) ==
  Rule("BADBLOCKS", "fail", surface.badBlocks > 0)
    \cup Rule("SURFACE_INCOMPLETE", "warn", ~surface.completed)

HardReasons(after) ==
  Rule("CURRENT_PENDING", "fail", Counted(after["currentPending"]))
    \cup Rule("OFFLINE_UNCORRECTABLE", "fail", Counted(after["offlineUncorrectable"]))
    \cup Rule("REPORTED_UNCORRECT", "fail", Counted(after["reportedUncorrect"]))

GrowthReasons(before, after) ==
  Rule("REALLOCATED_GROWTH", "fail", grew(before["reallocatedSectors"], after["reallocatedSectors"]))
    \cup Rule("PENDING_GROWTH", "fail", grew(before["currentPending"], after["currentPending"]))

ReallocatedReasons(after) ==
  LET n == after["reallocatedSectors"] IN
    Rule("REALLOCATED_HIGH", "fail", n > reallocatedWarnMax)
      \cup Rule("REALLOCATED_PRESENT", "warn", Counted(n) /\ n <= reallocatedWarnMax)

GrownDefectReasons(before, after) ==
  LET grown == grew(before["grownDefects"], after["grownDefects"]) IN
    Rule("GROWN_DEFECT_GROWTH", "fail", grown)
      \cup Rule("GROWN_DEFECTS_PRESENT", "warn", ~grown /\ Counted(after["grownDefects"]))

HealthReasons(before, after) ==
  Rule("SMART_HEALTH_FAILED", "fail",
       Counted(before["healthFailing"]) \/ Counted(after["healthFailing"]))

WiringReasons(after) ==
  Rule("LINK_ERRORS", "warn", Counted(after["linkErrors"]))
    \cup Rule("COMMAND_TIMEOUTS", "warn", after["commandTimeouts"] > commandTimeoutWarnMax)
    \cup Rule("CRC_ERRORS", "warn", Counted(after["crcErrors"]))

SpinReasons(after) == Rule("SPIN_RETRY", "fail", Counted(after["spinRetryCount"]))

(* Seeded fault: at the limit a drive is neither worn nor exhausted. *)
WearReasonsGap(deviceType, after) ==
  LET used == after["percentageUsed"]
      flash == deviceType \in {"SSD", "NVMe"} /\ used # Null
  IN  Rule("WEAR_EXHAUSTED", "fail", flash /\ used > ssdPercentageUsedFail)
        \cup Rule("WEAR_HIGH", "warn", /\ flash
                                       /\ used < ssdPercentageUsedFail
                                       /\ used >= ssdPercentageUsedWarn)
        \cup Rule("MEDIA_ERRORS", "fail",
                  deviceType \in {"SSD", "NVMe"} /\ Counted(after["mediaErrors"]))

WearReasons(deviceType, after) ==
  LET used == after["percentageUsed"]
      flash == deviceType \in {"SSD", "NVMe"} /\ used # Null
  IN  Rule("WEAR_EXHAUSTED", "fail", flash /\ used >= ssdPercentageUsedFail)
        \cup Rule("WEAR_HIGH", "warn", /\ flash
                                       /\ used < ssdPercentageUsedFail
                                       /\ used >= ssdPercentageUsedWarn)
        \cup Rule("MEDIA_ERRORS", "fail",
                  deviceType \in {"SSD", "NVMe"} /\ Counted(after["mediaErrors"]))

evaluateVerdict(before, after, deviceType, selfTest, surface) ==
  SelfTestReasons(selfTest) \cup SurfaceReasons(surface)
    \cup HardReasons(after) \cup GrowthReasons(before, after)
    \cup ReallocatedReasons(after) \cup GrownDefectReasons(before, after)
    \cup HealthReasons(before, after) \cup WiringReasons(after)
    \cup SpinReasons(after) \cup WearReasons(deviceType, after)

VerdictOf(reasons) ==
  LET severities == {r.severity : r \in reasons} IN
    CASE "fail" \in severities -> "FAIL"
      [] "fail" \notin severities /\ "warn" \in severities -> "WARN"
      [] OTHER -> "PASS"

(* Seeded fault: warnings condemn too. *)
condemnedByBaselineWarned(before, deviceType) ==
  {r \in evaluateVerdict(before, before, deviceType, "SKIPPED", NoSurface) :
     r.severity # "info"}

condemnedByBaseline(before, deviceType) ==
  {r \in evaluateVerdict(before, before, deviceType, "SKIPPED", NoSurface) :
     r.severity = "fail"}
-----------------------------------------------------------------------------
VARIABLES phase,                        \* of the run: "baseline", "verdict", "graded"
          before, after, deviceType,    \* what the drive reports
          selfTest, surface,            \* what the tests said
          gateOn,                       \* skipCondemnedDrives, and not forceFullRegime
          reasons                       \* the verdict's

vars == <<phase, before, after, deviceType, selfTest, surface, gateOn, reasons>>

(* Bound on the data: a snapshot sets one metric, a second one sets another. *)
Unreported == [m \in Metrics |-> Null]
Changed(snapshot) == UNION {{[snapshot EXCEPT ![m] = v] : v \in Values(m)} : m \in Metrics}

Init ==
  /\ phase = "baseline"
  /\ before \in Changed(Unreported)
  /\ after = before
  /\ deviceType \in DeviceTypes
  /\ selfTest = "SKIPPED"
  /\ surface = NoSurface
  /\ gateOn \in BOOLEAN
  /\ reasons = {}

Condemned == gateOn /\ condemnedByBaseline(before, deviceType) # {}

(* #gateOnBaseline fires: the tests are skipped, the baseline is graded twice. *)
SkipRegime ==
  /\ phase = "baseline"
  /\ Condemned
  /\ phase' = "verdict"
  /\ UNCHANGED <<before, after, deviceType, selfTest, surface, gateOn, reasons>>

(* The self-test, the scan and the second read. *)
RunRegime ==
  /\ phase = "baseline"
  /\ ~Condemned
  /\ phase' = "verdict"
  /\ after' \in Changed(before)
  /\ selfTest' \in SelfTests
  /\ surface' \in Surfaces
  /\ UNCHANGED <<before, deviceType, gateOn, reasons>>

Grade ==
  /\ phase = "verdict"
  /\ phase' = "graded"
  /\ reasons' = evaluateVerdict(before, after, deviceType, selfTest, surface)
  /\ UNCHANGED <<before, after, deviceType, selfTest, surface, gateOn>>

Next == SkipRegime \/ RunRegime \/ Grade

Spec == Init /\ [][Next]_vars
-----------------------------------------------------------------------------
Graded == phase = "graded"
Skipped == selfTest = "SKIPPED"

VerdictTypeOK ==
  /\ phase \in {"baseline", "verdict", "graded"}
  /\ before \in [Metrics -> Null..MaxCount]
  /\ after \in [Metrics -> Null..MaxCount]
  /\ deviceType \in DeviceTypes
  /\ selfTest \in SelfTests \cup {"SKIPPED"}
  /\ surface \in Surfaces \cup {NoSurface}
  /\ Skipped <=> surface = NoSurface
  /\ gateOn \in BOOLEAN
  /\ \A r \in reasons : r.severity \in {"info", "warn", "fail"}

(***************************************************************************)
(* "the gate can never disagree with the verdict it is anticipating"       *)
(* (baselineGate.ts:18-19): a drive the gate condemns is graded FAIL, when *)
(* the regime was skipped and also, forced to run, whatever its tests say, *)
(* unless a counter fell on the way.                                       *)
(***************************************************************************)
GateAnticipates ==
  Graded /\ condemnedByBaseline(before, deviceType) # {} /\ (\A m \in Metrics : after[m] >= before[m])
    => VerdictOf(reasons) = "FAIL"

(***************************************************************************)
(* The regime is skipped only for a drive that nothing it could have shown *)
(* would have saved: a passed self-test and a clean scan included          *)
(* (baselineGate.ts:29-32).                                                *)
(***************************************************************************)
OnlyTheLostAreSkipped ==
  Graded /\ Skipped =>
    VerdictOf(evaluateVerdict(before, before, deviceType, "PASSED",
                              [badBlocks |-> 0, completed |-> TRUE])) = "FAIL"

(***************************************************************************)
(* A PASS rests on evidence: a scan that completed without a bad block, a  *)
(* self-test that passed or that the drive does not have.  In particular,  *)
(* no run the gate cut short ends in PASS (evaluate.ts:27-53, 66).         *)
(***************************************************************************)
PassHasEvidence ==
  Graded /\ VerdictOf(reasons) = "PASS" =>
    /\ selfTest \in {"PASSED", "UNSUPPORTED"}
    /\ surface = [badBlocks |-> 0, completed |-> TRUE]

(***************************************************************************)
(* A drive that reads worse after the test is never graded better: no rule *)
(* that excludes another (present or grown, high or exhausted) leaves a    *)
(* gap between the two (evaluate.ts:117-175, 264-283).                     *)
(***************************************************************************)
Rank(verdict) == CASE verdict = "PASS" -> 0 [] verdict = "WARN" -> 1 [] verdict = "FAIL" -> 2

WorseNeverBetter ==
  Graded => \A m \in Metrics : \A v \in Values(m) :
    v > after[m] =>
      LET worse == evaluateVerdict(before, [after EXCEPT ![m] = v], deviceType, selfTest, surface)
      IN  Rank(VerdictOf(worse)) >= Rank(VerdictOf(reasons))
=============================================================================
