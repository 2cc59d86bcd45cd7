---------------------------- MODULE VerdictProofs ----------------------------
(***************************************************************************)
(* For all thresholds, counters and test results: the gate never disagrees *)
(* with the verdict it anticipates, no drive passes untested, and a        *)
(* snapshot that reads worse is not graded better.  For every page a drive *)
(* may print: what the attribute table flags by a rule, the verdict grades.*)
(***************************************************************************)
EXTENDS Smart, WellFoundedInduction, TLAPS

(* The snapshots the rules are stated for: every metric a number or Null. *)
Snapshots == [Metrics -> {Null} \cup Nat]

(* What one snapshot alone can condemn a drive for. *)
FailsAlone(s, type) ==
  \/ Counted(s["currentPending"]) \/ Counted(s["offlineUncorrectable"])
  \/ Counted(s["reportedUncorrect"]) \/ s["reallocatedSectors"] > reallocatedWarnMax
  \/ Counted(s["healthFailing"]) \/ Counted(s["spinRetryCount"])
  \/ /\ type \in {"SSD", "NVMe"}
     /\ \/ s["percentageUsed"] # Null /\ s["percentageUsed"] >= ssdPercentageUsedFail
        \/ Counted(s["mediaErrors"])

Fails(rs) == \E r \in rs : r.severity = "fail"

(* A rule yields its reason exactly when its condition holds. *)
LEMMA RuleHolds ==
  ASSUME NEW code, NEW severity, NEW holds \in BOOLEAN, NEW r
  PROVE  r \in Rule(code, severity, holds)
           <=> holds /\ r = [code |-> code, severity |-> severity]
BY DEF Rule

(* Within one snapshot no counter grew. *)
LEMMA NothingGrew ==
  ASSUME NEW v \in {Null} \cup Nat
  PROVE  ~grew(v, v)
BY DEF grew, Null

(* The gate: what condemns a baseline condemns it by itself, since no growth *)
(* rule, and neither the skipped self-test nor the missing scan, can fail it.*)
LEMMA GateFires ==
  ASSUME NEW s \in Snapshots, NEW type, condemnedByBaseline(s, type) # {}
  PROVE  FailsAlone(s, type)
<1>1. PICK r \in evaluateVerdict(s, s, type, "SKIPPED", NoSurface) : r.severity = "fail"
  BY DEF condemnedByBaseline
<1>2. CASE r \in SelfTestReasons("SKIPPED")
  BY <1>1, <1>2 DEF SelfTestReasons, Rule
<1>3. CASE r \in SurfaceReasons(NoSurface)
  BY <1>1, <1>3 DEF SurfaceReasons, Rule, NoSurface
<1>4. CASE r \in HardReasons(s)
  BY <1>4 DEF HardReasons, Rule, FailsAlone
<1>5. CASE r \in GrowthReasons(s, s)
  <2>1. s["reallocatedSectors"] \in {Null} \cup Nat /\ s["currentPending"] \in {Null} \cup Nat
    BY DEF Snapshots, Metrics
  <2> QED BY <1>5, <2>1, NothingGrew DEF GrowthReasons, Rule
<1>6. CASE r \in ReallocatedReasons(s)
  BY <1>1, <1>6 DEF ReallocatedReasons, Rule, FailsAlone
<1>7. CASE r \in GrownDefectReasons(s, s)
  <2>1. s["grownDefects"] \in {Null} \cup Nat
    BY DEF Snapshots, Metrics
  <2> QED BY <1>1, <1>7, <2>1, NothingGrew DEF GrownDefectReasons, Rule
<1>8. CASE r \in HealthReasons(s, s)
  BY <1>8 DEF HealthReasons, Rule, FailsAlone
<1>9. CASE r \in WiringReasons(s)
  BY <1>1, <1>9 DEF WiringReasons, Rule
<1>10. CASE r \in SpinReasons(s)
  BY <1>10 DEF SpinReasons, Rule, FailsAlone
<1>11. CASE r \in WearReasons(type, s)
  BY <1>1, <1>11 DEF WearReasons, Rule, FailsAlone
<1> QED
  BY <1>1, <1>2, <1>3, <1>4, <1>5, <1>6, <1>7, <1>8, <1>9, <1>10, <1>11 DEF evaluateVerdict

(* What fails alone still fails if no metric fell. *)
LEMMA WorseStillFails ==
  ASSUME NEW b \in Snapshots, NEW a \in Snapshots, NEW type,
         \A m \in Metrics : a[m] >= b[m],
         FailsAlone(b, type)
  PROVE  FailsAlone(a, type)
<1>1. \A m \in Metrics : a[m] \in {Null} \cup Nat /\ b[m] \in {Null} \cup Nat /\ a[m] >= b[m]
  BY DEF Snapshots
<1>2. \A m \in Metrics : Counted(b[m]) => Counted(a[m])
  BY <1>1 DEF Counted, Null
<1>3. {"reallocatedSectors", "currentPending", "offlineUncorrectable", "reportedUncorrect",
       "healthFailing", "spinRetryCount", "percentageUsed", "mediaErrors"} \subseteq Metrics
  BY DEF Metrics
<1>4. reallocatedWarnMax \in Nat /\ ssdPercentageUsedFail \in Nat
  BY ThresholdsAssumption
<1> QED BY <1>1, <1>2, <1>3, <1>4 DEF FailsAlone, Null

(* The verdict: what fails alone gives a reason that fails, whatever the *)
(* baseline was and the tests said.                                      *)
LEMMA AloneIsFailed ==
  ASSUME NEW b, NEW a, NEW type, NEW test, NEW scan, FailsAlone(a, type)
  PROVE  Fails(evaluateVerdict(b, a, type, test, scan))
<1> DEFINE Reasons == evaluateVerdict(b, a, type, test, scan)
<1>1. CASE Counted(a["currentPending"])
  <2>1. [code |-> "CURRENT_PENDING", severity |-> "fail"] \in Reasons
    BY <1>1 DEF evaluateVerdict, HardReasons, Rule
  <2> QED BY <2>1 DEF Fails
<1>2. CASE Counted(a["offlineUncorrectable"])
  <2>1. [code |-> "OFFLINE_UNCORRECTABLE", severity |-> "fail"] \in Reasons
    BY <1>2 DEF evaluateVerdict, HardReasons, Rule
  <2> QED BY <2>1 DEF Fails
<1>3. CASE Counted(a["reportedUncorrect"])
  <2>1. [code |-> "REPORTED_UNCORRECT", severity |-> "fail"] \in Reasons
    BY <1>3 DEF evaluateVerdict, HardReasons, Rule
  <2> QED BY <2>1 DEF Fails
<1>4. CASE a["reallocatedSectors"] > reallocatedWarnMax
  <2>1. [code |-> "REALLOCATED_HIGH", severity |-> "fail"] \in Reasons
    BY <1>4 DEF evaluateVerdict, ReallocatedReasons, Rule
  <2> QED BY <2>1 DEF Fails
<1>5. CASE Counted(a["healthFailing"])
  <2>1. [code |-> "SMART_HEALTH_FAILED", severity |-> "fail"] \in Reasons
    BY <1>5 DEF evaluateVerdict, HealthReasons, Rule
  <2> QED BY <2>1 DEF Fails
<1>6. CASE Counted(a["spinRetryCount"])
  <2>1. [code |-> "SPIN_RETRY", severity |-> "fail"] \in Reasons
    BY <1>6 DEF evaluateVerdict, SpinReasons, Rule
  <2> QED BY <2>1 DEF Fails
<1>7. CASE type \in {"SSD", "NVMe"} /\ a["percentageUsed"] # Null
             /\ a["percentageUsed"] >= ssdPercentageUsedFail
  <2>1. [code |-> "WEAR_EXHAUSTED", severity |-> "fail"] \in Reasons
    BY <1>7 DEF evaluateVerdict, WearReasons, Rule
  <2> QED BY <2>1 DEF Fails
<1>8. CASE type \in {"SSD", "NVMe"} /\ Counted(a["mediaErrors"])
  <2>1. [code |-> "MEDIA_ERRORS", severity |-> "fail"] \in Reasons
    BY <1>8 DEF evaluateVerdict, WearReasons, Rule
  <2> QED BY <2>1 DEF Fails
<1> QED
  BY <1>1, <1>2, <1>3, <1>4, <1>5, <1>6, <1>7, <1>8 DEF FailsAlone

LEMMA FailsMeansFAIL ==
  ASSUME NEW rs, Fails(rs)
  PROVE  VerdictOf(rs) = "FAIL"
BY DEF Fails, VerdictOf
-----------------------------------------------------------------------------
(* What the proof needs to know of a run: its snapshots are snapshots, and *)
(* its reasons are what evaluateVerdict gave.                              *)
VInv ==
  /\ before \in Snapshots /\ after \in Snapshots
  /\ Graded => reasons = evaluateVerdict(before, after, deviceType, selfTest, surface)

LEMMA ChangedIsSnapshot ==
  ASSUME NEW s \in Snapshots, NEW t \in Changed(s)
  PROVE  t \in Snapshots
<1>1. PICK m \in Metrics : t \in {[s EXCEPT ![m] = v] : v \in Values(m)}
  BY DEF Changed
<1>2. PICK v \in Values(m) : t = [s EXCEPT ![m] = v]
  BY <1>1
<1>3. v \in {Null} \cup Nat
  BY <1>2, ThresholdsAssumption DEF Values
<1> QED BY <1>2, <1>3 DEF Snapshots

LEMMA VInvHolds == Spec => []VInv
<1>1. Init => VInv
  <2> SUFFICES ASSUME Init PROVE VInv
    OBVIOUS
  <2>1. Unreported \in Snapshots
    BY DEF Unreported, Snapshots
  <2>2. before \in Snapshots
    BY <2>1, ChangedIsSnapshot DEF Init
  <2> QED BY <2>2 DEF Init, VInv, Graded
<1>2. VInv /\ [Next]_vars => VInv'
  <2> SUFFICES ASSUME VInv, [Next]_vars PROVE VInv'
    OBVIOUS
  <2> USE DEF VInv, Graded
  <2>1. CASE SkipRegime
    BY <2>1 DEF SkipRegime
  <2>2. CASE RunRegime
    BY <2>2, ChangedIsSnapshot DEF RunRegime
  <2>3. CASE Grade
    BY <2>3 DEF Grade
  <2>4. CASE UNCHANGED vars
    BY <2>4 DEF vars
  <2> QED BY <2>1, <2>2, <2>3, <2>4 DEF Next
<1> QED BY <1>1, <1>2, PTL DEF Spec

(***************************************************************************)
(* "the gate can never disagree with the verdict it is anticipating"       *)
(* (baselineGate.ts:18-19), whatever the thresholds are set to.            *)
(***************************************************************************)
THEOREM GateNeverDisagrees == Spec => []GateAnticipates
<1>1. VInv => GateAnticipates
  <2> SUFFICES ASSUME VInv, Graded, condemnedByBaseline(before, deviceType) # {},
                      \A m \in Metrics : after[m] >= before[m]
               PROVE  VerdictOf(reasons) = "FAIL"
    BY DEF GateAnticipates
  <2>1. FailsAlone(before, deviceType)
    BY GateFires DEF VInv
  <2>2. FailsAlone(after, deviceType)
    BY <2>1, WorseStillFails DEF VInv
  <2>3. Fails(reasons)
    BY <2>2, AloneIsFailed DEF VInv
  <2> QED BY <2>3, FailsMeansFAIL
<1> QED BY <1>1, VInvHolds, PTL

(***************************************************************************)
(* No drive is spared the regime that a passed self-test and a clean scan  *)
(* would have saved (baselineGate.ts:29-32).                               *)
(***************************************************************************)
SkippedIsCondemned ==
  phase # "baseline" /\ Skipped => condemnedByBaseline(before, deviceType) # {}

THEOREM OnlyCondemnedSkipped == Spec => []OnlyTheLostAreSkipped
<1>1. Init => SkippedIsCondemned
  BY DEF Init, SkippedIsCondemned
<1>2. SkippedIsCondemned /\ [Next]_vars => SkippedIsCondemned'
  <2> SUFFICES ASSUME SkippedIsCondemned, [Next]_vars PROVE SkippedIsCondemned'
    OBVIOUS
  <2> USE DEF SkippedIsCondemned, Skipped
  <2>1. CASE SkipRegime
    BY <2>1 DEF SkipRegime, Condemned
  <2>2. CASE RunRegime
    BY <2>2 DEF RunRegime, SelfTests
  <2>3. CASE Grade
    BY <2>3 DEF Grade
  <2>4. CASE UNCHANGED vars
    BY <2>4 DEF vars
  <2> QED BY <2>1, <2>2, <2>3, <2>4 DEF Next
<1>3. VInv /\ SkippedIsCondemned => OnlyTheLostAreSkipped
  <2> SUFFICES ASSUME VInv, SkippedIsCondemned, Graded, Skipped
               PROVE  VerdictOf(evaluateVerdict(before, before, deviceType, "PASSED",
                                                [badBlocks |-> 0, completed |-> TRUE])) = "FAIL"
    BY DEF OnlyTheLostAreSkipped
  <2>1. condemnedByBaseline(before, deviceType) # {}
    BY DEF SkippedIsCondemned, Graded
  <2>2. FailsAlone(before, deviceType)
    BY <2>1, GateFires DEF VInv
  <2> QED BY <2>2, AloneIsFailed, FailsMeansFAIL
<1> QED BY <1>1, <1>2, <1>3, VInvHolds, PTL DEF Spec
-----------------------------------------------------------------------------
(* A run that was graded had its tests, or was condemned by its baseline. *)
TestsOrGate ==
  phase # "baseline" =>
    \/ selfTest \in SelfTests /\ surface \in Surfaces
    \/ after = before /\ condemnedByBaseline(before, deviceType) # {}

LEMMA TestsOrGateHolds == Spec => []TestsOrGate
<1>1. Init => TestsOrGate
  BY DEF Init, TestsOrGate
<1>2. TestsOrGate /\ [Next]_vars /\ (phase = "baseline" => after = before)
        => TestsOrGate' /\ (phase = "baseline" => after = before)'
  <2> SUFFICES ASSUME TestsOrGate, [Next]_vars, phase = "baseline" => after = before
               PROVE  TestsOrGate' /\ (phase = "baseline" => after = before)'
    OBVIOUS
  <2> USE DEF TestsOrGate
  <2>1. CASE SkipRegime
    BY <2>1 DEF SkipRegime, Condemned
  <2>2. CASE RunRegime
    BY <2>2 DEF RunRegime
  <2>3. CASE Grade
    BY <2>3 DEF Grade
  <2>4. CASE UNCHANGED vars
    BY <2>4 DEF vars
  <2> QED BY <2>1, <2>2, <2>3, <2>4 DEF Next
<1>3. Init => (phase = "baseline" => after = before)
  BY DEF Init
<1> QED BY <1>1, <1>2, <1>3, PTL DEF Spec

(* What a verdict without a failure and a warning says of the tests. *)
LEMMA PassSaysTested ==
  ASSUME NEW b, NEW a, NEW type, NEW test \in SelfTests, NEW scan \in Surfaces,
         VerdictOf(evaluateVerdict(b, a, type, test, scan)) = "PASS"
  PROVE  /\ test \in {"PASSED", "UNSUPPORTED"}
         /\ scan = [badBlocks |-> 0, completed |-> TRUE]
<1> DEFINE Reasons == evaluateVerdict(b, a, type, test, scan)
<1>1. \A r \in Reasons : r.severity \notin {"fail", "warn"}
  BY DEF VerdictOf
<1>2. test # "FAILED"
  <2>1. test = "FAILED" => [code |-> "SELFTEST_FAILED", severity |-> "fail"] \in Reasons
    BY DEF evaluateVerdict, SelfTestReasons, Rule
  <2> QED BY <1>1, <2>1
<1>3. test \notin {"ABORTED", "UNKNOWN"}
  <2>1. test \in {"ABORTED", "UNKNOWN"}
          => [code |-> "SELFTEST_INCOMPLETE", severity |-> "warn"] \in Reasons
    BY DEF evaluateVerdict, SelfTestReasons, Rule
  <2> QED BY <1>1, <2>1
<1>4. ~(scan.badBlocks > 0)
  <2>1. scan.badBlocks > 0 => [code |-> "BADBLOCKS", severity |-> "fail"] \in Reasons
    BY DEF evaluateVerdict, SurfaceReasons, Rule
  <2> QED BY <1>1, <2>1
<1>5. scan.completed
  <2>1. ~scan.completed => [code |-> "SURFACE_INCOMPLETE", severity |-> "warn"] \in Reasons
    BY DEF evaluateVerdict, SurfaceReasons, Rule
  <2> QED BY <1>1, <2>1
<1>6. scan.badBlocks = 0 /\ scan.completed = TRUE
  BY <1>4, <1>5 DEF Surfaces
<1> QED BY <1>2, <1>3, <1>6 DEF SelfTests, Surfaces

(***************************************************************************)
(* No drive passes without a completed clean scan and a self-test that     *)
(* passed, or that it does not have, whatever the thresholds are set to    *)
(* (evaluate.ts:27-53, 66).                                                *)
(***************************************************************************)
THEOREM PassIsEarned == Spec => []PassHasEvidence
<1>1. VInv /\ TestsOrGate => PassHasEvidence
  <2> SUFFICES ASSUME VInv, TestsOrGate, Graded, VerdictOf(reasons) = "PASS"
               PROVE  /\ selfTest \in {"PASSED", "UNSUPPORTED"}
                      /\ surface = [badBlocks |-> 0, completed |-> TRUE]
    BY DEF PassHasEvidence
  <2>1. CASE selfTest \in SelfTests /\ surface \in Surfaces
    BY <2>1, PassSaysTested DEF VInv
  <2>2. CASE after = before /\ condemnedByBaseline(before, deviceType) # {}
    <3>1. FailsAlone(after, deviceType)
      BY <2>2, GateFires DEF VInv
    <3>2. VerdictOf(reasons) = "FAIL"
      BY <3>1, AloneIsFailed, FailsMeansFAIL DEF VInv
    <3> QED BY <3>2
  <2> QED BY <2>1, <2>2 DEF TestsOrGate, Graded
<1> QED BY <1>1, VInvHolds, TestsOrGateHolds, PTL
-----------------------------------------------------------------------------
(* Of two reasons, one at least as severe as the other. *)
AtLeast(q, r) ==
  /\ r.severity = "fail" => q.severity = "fail"
  /\ r.severity = "warn" => q.severity \in {"warn", "fail"}

(* Every reason of a snapshot is answered, in one that reads worse, by one at *)
(* least as severe: the bands of a rule leave no gap.                         *)
LEMMA WorseIsAnswered ==
  ASSUME NEW b \in Snapshots, NEW a \in Snapshots, NEW w \in Snapshots,
         NEW type, NEW test, NEW scan,
         \A m \in Metrics : w[m] >= a[m],
         NEW r \in evaluateVerdict(b, a, type, test, scan)
  PROVE  \E q \in evaluateVerdict(b, w, type, test, scan) : AtLeast(q, r)
<1> DEFINE Worse == evaluateVerdict(b, w, type, test, scan)
<1>1. \A m \in Metrics :
        /\ b[m] \in {Null} \cup Nat /\ a[m] \in {Null} \cup Nat /\ w[m] \in {Null} \cup Nat
        /\ w[m] >= a[m]
        /\ Counted(a[m]) => Counted(w[m])
        /\ grew(b[m], a[m]) => grew(b[m], w[m])
  BY DEF Snapshots, Counted, grew, Null
<1>2. {reallocatedWarnMax, commandTimeoutWarnMax, ssdPercentageUsedWarn, ssdPercentageUsedFail}
        \subseteq Nat
  BY ThresholdsAssumption
<1>3. SUFFICES r \in Worse \/ \E q \in Worse : q.severity = "fail"
  BY DEF AtLeast
<1>4. {"reallocatedSectors", "currentPending", "offlineUncorrectable", "reportedUncorrect",
       "grownDefects", "healthFailing", "linkErrors", "spinRetryCount", "commandTimeouts",
       "crcErrors", "percentageUsed", "mediaErrors"} \subseteq Metrics
  BY DEF Metrics
<1>5. CASE r \in SelfTestReasons(test) \cup SurfaceReasons(scan)
  BY <1>5 DEF evaluateVerdict
<1>6. CASE r \in HardReasons(a)
  <2>1. r \in HardReasons(w)
    BY <1>1, <1>4, <1>6 DEF HardReasons, Rule
  <2> QED BY <2>1 DEF evaluateVerdict
<1>7. CASE r \in GrowthReasons(b, a)
  <2>1. r \in GrowthReasons(b, w)
    BY <1>1, <1>4, <1>7 DEF GrowthReasons, Rule
  <2> QED BY <2>1 DEF evaluateVerdict
<1>8. CASE r \in ReallocatedReasons(a)
  <2> DEFINE High == [code |-> "REALLOCATED_HIGH", severity |-> "fail"]
  <2>1. CASE w["reallocatedSectors"] > reallocatedWarnMax
    <3>1. High \in Worse
      BY <2>1 DEF evaluateVerdict, ReallocatedReasons, Rule
    <3> QED BY <3>1
  <2>2. CASE ~(w["reallocatedSectors"] > reallocatedWarnMax)
    <3>1. r \in ReallocatedReasons(w)
      BY <1>1, <1>2, <1>4, <1>8, <2>2 DEF ReallocatedReasons, Rule, Null
    <3> QED BY <3>1 DEF evaluateVerdict
  <2> QED BY <2>1, <2>2
<1>9. CASE r \in GrownDefectReasons(b, a)
  <2> DEFINE Growth == [code |-> "GROWN_DEFECT_GROWTH", severity |-> "fail"]
  <2>1. CASE grew(b["grownDefects"], w["grownDefects"])
    <3>1. Growth \in Worse
      BY <2>1 DEF evaluateVerdict, GrownDefectReasons, Rule
    <3> QED BY <3>1
  <2>2. CASE ~grew(b["grownDefects"], w["grownDefects"])
    <3>1. r \in GrownDefectReasons(b, w)
      BY <1>1, <1>4, <1>9, <2>2 DEF GrownDefectReasons, Rule
    <3> QED BY <3>1 DEF evaluateVerdict
  <2> QED BY <2>1, <2>2
<1>10. CASE r \in HealthReasons(b, a)
  <2>1. r \in HealthReasons(b, w)
    BY <1>1, <1>4, <1>10 DEF HealthReasons, Rule
  <2> QED BY <2>1 DEF evaluateVerdict
<1>11. CASE r \in WiringReasons(a)
  <2>1. a["commandTimeouts"] > commandTimeoutWarnMax => w["commandTimeouts"] > commandTimeoutWarnMax
    BY <1>1, <1>2, <1>4 DEF Null
  <2>2. r \in WiringReasons(w)
    BY <1>1, <1>4, <1>11, <2>1 DEF WiringReasons, Rule
  <2> QED BY <2>2 DEF evaluateVerdict
<1>12. CASE r \in SpinReasons(a)
  <2>1. r \in SpinReasons(w)
    BY <1>1, <1>4, <1>12 DEF SpinReasons, Rule
  <2> QED BY <2>1 DEF evaluateVerdict
<1>13. CASE r \in WearReasons(type, a)
  <2> DEFINE Exhausted == [code |-> "WEAR_EXHAUSTED", severity |-> "fail"]
             flash(s) == type \in {"SSD", "NVMe"} /\ s["percentageUsed"] # Null
  <2>1. flash(a) => flash(w)
    BY <1>1, <1>4 DEF Null
  <2>2. CASE flash(w) /\ w["percentageUsed"] >= ssdPercentageUsedFail
    <3>1. Exhausted \in Worse
      BY <2>2 DEF evaluateVerdict, WearReasons, Rule
    <3> QED BY <3>1
  <2>3. CASE ~(flash(w) /\ w["percentageUsed"] >= ssdPercentageUsedFail)
    <3>1. r \in WearReasons(type, w)
      BY <1>1, <1>2, <1>4, <1>13, <2>1, <2>3 DEF WearReasons, Rule, Null
    <3> QED BY <3>1 DEF evaluateVerdict
  <2> QED BY <2>2, <2>3
<1> QED
  BY <1>5, <1>6, <1>7, <1>8, <1>9, <1>10, <1>11, <1>12, <1>13 DEF evaluateVerdict

(* So is the verdict. *)
LEMMA AnsweredIsRanked ==
  ASSUME NEW rs, NEW ws, \A r \in rs : \E q \in ws : AtLeast(q, r)
  PROVE  Rank(VerdictOf(ws)) >= Rank(VerdictOf(rs))
<1> DEFINE fails(s) == "fail" \in {r.severity : r \in s}
           warns(s) == "warn" \in {r.severity : r \in s}
<1>1. fails(rs) => fails(ws)
  BY DEF AtLeast
<1>2. warns(rs) => warns(ws) \/ fails(ws)
  BY DEF AtLeast
<1>3. \A s : Rank(VerdictOf(s)) = IF fails(s) THEN 2 ELSE IF warns(s) THEN 1 ELSE 0
  BY DEF VerdictOf, Rank
<1> QED BY <1>1, <1>2, <1>3

(***************************************************************************)
(* A drive that reads worse after the test is never graded better, for any *)
(* thresholds, the warning ones above the failing ones included            *)
(* (evaluate.ts:117-175, 264-283).                                         *)
(***************************************************************************)
THEOREM WorseIsNeverBetter == Spec => []WorseNeverBetter
<1>1. VInv => WorseNeverBetter
  <2> SUFFICES ASSUME VInv, Graded, NEW m \in Metrics, NEW v \in Values(m), v > after[m]
               PROVE  Rank(VerdictOf(evaluateVerdict(before, [after EXCEPT ![m] = v],
                                                     deviceType, selfTest, surface)))
                        >= Rank(VerdictOf(reasons))
    BY DEF WorseNeverBetter
  <2> DEFINE worse == [after EXCEPT ![m] = v]
  <2>1. before \in Snapshots /\ after \in Snapshots
    BY DEF VInv
  <2>2. v \in {Null} \cup Nat
    BY ThresholdsAssumption DEF Values
  <2>3. worse \in Snapshots
    BY <2>1, <2>2 DEF Snapshots
  <2>4. \A n \in Metrics : worse[n] >= after[n]
    BY <2>1, <2>2 DEF Snapshots, Null
  <2>5. \A r \in evaluateVerdict(before, after, deviceType, selfTest, surface) :
          \E q \in evaluateVerdict(before, worse, deviceType, selfTest, surface) : AtLeast(q, r)
    BY <2>1, <2>3, <2>4, WorseIsAnswered
  <2>6. reasons = evaluateVerdict(before, after, deviceType, selfTest, surface)
    BY DEF VInv
  <2> QED BY <2>5, <2>6, AnsweredIsRanked
<1> QED BY <1>1, VInvHolds, PTL
-----------------------------------------------------------------------------
(***************************************************************************)
(* The attribute table and the verdict, of any page a drive prints.        *)
(***************************************************************************)
Counts == {Null} \cup Nat

PageRows == [raw : Counts, value : Int, thresh : Int, whenFailed : BOOLEAN]

PageSet ==
  [transport : Transports, solidState : BOOLEAN,
   failing : {Null, 0, 1}, selfTests : {Null, 0, 1},
   table : [AttributeIds -> PageRows],
   percentage : Counts, media : Counts, spare : Counts, spareThreshold : Counts,
   grown : Counts, uncorrected : [Operations -> Counts],
   phys : [1..Phys -> [PhyCounters -> Counts]]]

LEMMA BlankPages ==
  ASSUME NEW transport \in Transports, NEW solidState \in BOOLEAN
  PROVE  BlankPage(transport, solidState) \in PageSet
  BY DEF BlankPage, PageSet, PageRows, NoRow, Counts, Null

LEMMA MoreIsPage ==
  ASSUME NEW page \in PageSet, NEW more \in OneMore(page)
  PROVE  more \in PageSet
<1>1. MaxCount \in Nat /\ Word \in Nat
  BY ThresholdsAssumption, PageAssumption
<1>2. Readings \subseteq Nat /\ Readings \subseteq Counts
  BY <1>1 DEF Readings, Counts
<1>3. {0, 1} \subseteq Counts
  BY DEF Counts
<1>4. ASSUME NEW id \in AttributeIds, NEW row \in AttributeRows(id)
      PROVE  row \in PageRows
  <2>1. \/ \E n \in Readings : row = [NoRow EXCEPT !.value = 100 - n, !.thresh = 0]
        \/ row = [NoRow EXCEPT !.value = 100, !.thresh = 100]
        \/ \E n \in Readings : row = [NoRow EXCEPT !.raw = n]
        \/ row = [NoRow EXCEPT !.raw = 0, !.whenFailed = TRUE]
        \/ \E n \in Readings : row = [NoRow EXCEPT !.raw = Word + n]
    BY DEF AttributeRows
  <2>2. NoRow = [raw |-> Null, value |-> Null, thresh |-> Null, whenFailed |-> FALSE]
        /\ Null \in Int /\ Null \in Counts
    BY DEF NoRow, Null, Counts
  <2>3. \A n \in Readings : Word + n \in Counts /\ 100 - n \in Int
    BY <1>1, <1>2 DEF Counts
  <2>4. 0 \in Counts /\ {0, 100} \subseteq Int
    BY <1>3
  <2> HIDE DEF Counts
  <2>5. CASE \E n \in Readings : row = [NoRow EXCEPT !.value = 100 - n, !.thresh = 0]
    BY <2>2, <2>3, <2>4, <2>5 DEF PageRows
  <2>6. CASE row = [NoRow EXCEPT !.value = 100, !.thresh = 100]
    BY <2>2, <2>4, <2>6 DEF PageRows
  <2>7. CASE \E n \in Readings : row = [NoRow EXCEPT !.raw = n]
    BY <1>2, <2>2, <2>7 DEF PageRows
  <2>8. CASE row = [NoRow EXCEPT !.raw = 0, !.whenFailed = TRUE]
    BY <2>2, <2>4, <2>8 DEF PageRows
  <2>9. CASE \E n \in Readings : row = [NoRow EXCEPT !.raw = Word + n]
    BY <2>2, <2>3, <2>9 DEF PageRows
  <2>10. QED
    BY <2>1, <2>5, <2>6, <2>7, <2>8, <2>9
<1>5. CASE \/ more = page \/ \E n \in 0..1 : more = [page EXCEPT !.failing = n]
           \/ \E n \in 0..1 : more = [page EXCEPT !.selfTests = n]
  BY <1>5 DEF PageSet
<1>6. ASSUME NEW id \in AttributeIds, NEW row \in AttributeRows(id),
             more = [page EXCEPT !.table[id] = row]
      PROVE  more \in PageSet
  BY <1>4, <1>6 DEF PageSet
<1>7. CASE \/ \E n \in Readings : more = [page EXCEPT !.percentage = n]
           \/ \E n \in Readings : more = [page EXCEPT !.media = n]
           \/ \E n \in Readings : more = [page EXCEPT !.grown = n]
  BY <1>2, <1>7 DEF PageSet
<1>8. ASSUME NEW n \in Readings, NEW t \in 0..1,
             more = WithSpare(page, n, t)
      PROVE  more \in PageSet
  <2>1. 0..1 \subseteq Counts
    BY <1>3
  <2>2. QED
    BY <1>2, <1>8, <2>1 DEF PageSet, WithSpare
<1>9. ASSUME NEW op \in Operations, NEW n \in Readings,
             more = [page EXCEPT !.uncorrected[op] = n]
      PROVE  more \in PageSet
  BY <1>2, <1>9 DEF PageSet
<1>10. ASSUME NEW p \in 1..Phys, NEW c \in PhyCounters, NEW n \in Readings,
              more = [page EXCEPT !.phys[p][c] = n]
       PROVE  more \in PageSet
  BY <1>2, <1>10 DEF PageSet
<1>11. QED
  <2>1. page.transport \in {"ATA", "NVMe", "SCSI"}
    BY DEF PageSet, Transports
  <2>2. ASSUME more \in MoreOfATA(page)
        PROVE  more \in PageSet
    BY <2>2, <1>5, <1>6 DEF MoreOfATA
  <2>3. ASSUME more \in MoreOfNVMe(page)
        PROVE  more \in PageSet
    <3>1. \/ \E n \in 0..1 : more = [page EXCEPT !.selfTests = n]
          \/ \E n \in Readings : more = [page EXCEPT !.percentage = n]
          \/ \E n \in Readings : more = [page EXCEPT !.media = n]
          \/ \E n \in Readings, t \in 0..1 :
               more = WithSpare(page, n, t)
      BY <2>3 DEF MoreOfNVMe
    <3>2. CASE \E n \in Readings, t \in 0..1 :
                 more = WithSpare(page, n, t)
      BY <3>2, <1>8, Zenon
    <3>3. QED
      BY <3>1, <3>2, <1>5, <1>7, Zenon
  <2>4. ASSUME more \in MoreOfSCSI(page)
        PROVE  more \in PageSet
    BY <2>4, <1>5, <1>7, <1>9, <1>10 DEF MoreOfSCSI
  <2> QED
    BY <2>1, <2>2, <2>3, <2>4, <1>5 DEF OneMore

(* Induction on the natural numbers up to n, for a set. *)
LEMMA UpTo ==
  ASSUME NEW n \in Nat, NEW S, 0 \in S, \A k \in 1..n : k - 1 \in S => k \in S
  PROVE  \A k \in 0..n : k \in S
<1> DEFINE Missing == {k \in 0..n : k \notin S}
           R == OpToRel(<, Nat)
<1>1. Missing \subseteq Nat
  OBVIOUS
<1>2. ASSUME Missing # {} PROVE FALSE
  <2>1. PICK k \in Missing : \A j \in Missing : ~ (<<j, k>> \in R)
    <3>1. IsWellFoundedOn(R, Nat)
      BY NatLessThanWellFounded
    <3> HIDE DEF R, Missing
    <3>2. QED
      BY <1>1, <1>2, <3>1, WFMin
  <2>2. k # 0 /\ k \in 1..n /\ k - 1 \in 0..n
    <3>1. k \in 0..n /\ k \notin S
      BY <2>1
    <3>2. k # 0
      BY <3>1
    <3>3. QED
      BY <3>1, <3>2
  <2>3. k - 1 \in S
    <3>1. k - 1 \in Missing => ~ (k - 1 < k)
      BY <1>1, <2>1 DEF OpToRel
    <3>2. QED
      BY <2>2, <3>1
  <2>4. QED
    BY <2>1, <2>2, <2>3
<1>3. QED
  BY <1>2

(* A sum is reported if one of its readings is, and positive if one is. *)
LEMMA Totals ==
  ASSUME NEW readings \in Seq(Counts)
  PROVE  /\ Total(readings) \in Counts
         /\ Total(readings) # Null <=> \E i \in 1..Len(readings) : readings[i] # Null
         /\ Counted(Total(readings)) <=> \E i \in 1..Len(readings) : Counted(readings[i])
<1> DEFINE n == Len(readings)
           Sums(f, k) == /\ DOMAIN f = 0..k /\ f[0] = Null
                         /\ \A j \in 1..k : f[j] = Plus(f[j - 1], readings[j])
           sum == CHOOSE f : f = [k \in 0..n |->
                               IF k = 0 THEN Null ELSE Plus(f[k - 1], readings[k])]
           S == {k \in Nat : \E f : Sums(f, k)}
<1>1. n \in Nat /\ \A k \in 1..n : readings[k] \in Counts
  OBVIOUS
<1> HIDE DEF n
<1>2. 0 \in S
  <2>1. Sums([k \in 0..0 |-> Null], 0)
    OBVIOUS
  <2> HIDE DEF Sums
  <2>2. QED
    BY <2>1
<1>3. ASSUME NEW k \in 1..n, k - 1 \in S
      PROVE  k \in S
  <2>1. PICK f : Sums(f, k - 1)
    BY <1>3
  <2> DEFINE x == Plus(f[k - 1], readings[k])
             g == [j \in 0..k |-> IF j = k THEN x ELSE f[j]]
  <2> HIDE DEF x
  <2>2. /\ DOMAIN g = 0..k /\ g[k] = x
        /\ \A j \in 0..(k - 1) : g[j] = f[j]
    BY <1>1
  <2> HIDE DEF g
  <2>3. ASSUME NEW j \in 1..k
        PROVE  g[j] = Plus(g[j - 1], readings[j])
    <3>1. CASE j = k
      <4>1. k - 1 \in 0..(k - 1) /\ g[k - 1] = f[k - 1]
        BY <1>1, <2>2
      <4>2. QED
        BY <2>2, <3>1, <4>1 DEF x
    <3>2. CASE j # k
      <4>1. j \in 1..(k - 1) /\ j \in 0..(k - 1) /\ j - 1 \in 0..(k - 1)
        BY <3>2
      <4>2. QED
        BY <2>1, <2>2, <4>1
    <3>3. QED
      BY <3>1, <3>2
  <2>4. g[0] = Null
    BY <1>1, <2>1, <2>2
  <2>5. Sums(g, k)
    BY <2>2, <2>3, <2>4
  <2> HIDE DEF Sums
  <2>6. QED
    BY <2>5
<1>4. n \in S
  <2> HIDE DEF S
  <2>1. \A k \in 0..n : k \in S
    BY <1>1, <1>2, <1>3, UpTo
  <2>2. QED
    BY <1>1, <2>1
<1>5. sum = [k \in 0..n |-> IF k = 0 THEN Null ELSE Plus(sum[k - 1], readings[k])]
  <2>1. PICK f : Sums(f, n)
    BY <1>4
  <2>2. [k \in 0..n |-> f[k]] = [k \in 0..n |->
          IF k = 0 THEN Null ELSE Plus([j \in 0..n |-> f[j]][k - 1], readings[k])]
    <3>1. \A k \in 0..n : k # 0 => k \in 1..n /\ k - 1 \in 0..n
      BY <1>1
    <3>2. QED
      BY <2>1, <3>1
  <2>3. QED
    BY <2>2
<1>6. Total(readings) = sum[n]
  BY DEF Total, n
<1> HIDE DEF sum
<1>7. sum[0] = Null /\ \A k \in 1..n : sum[k] = Plus(sum[k - 1], readings[k])
  <2>1. 0 \in 0..n /\ \A k \in 1..n : k \in 0..n /\ k # 0
    BY <1>1
  <2>2. QED
    BY <1>5, <2>1
<1> DEFINE Right(k) == /\ sum[k] \in Counts
                       /\ sum[k] # Null <=> \E i \in 1..k : readings[i] # Null
                       /\ Counted(sum[k]) <=> \E i \in 1..k : Counted(readings[i])
           R == {k \in Nat : Right(k)}
<1>8. 0 \in R
  BY <1>7 DEF Counts, Counted
<1>9. ASSUME NEW k \in 1..n, k - 1 \in R
      PROVE  k \in R
  <2>1. sum[k] = Plus(sum[k - 1], readings[k]) /\ readings[k] \in Counts
    BY <1>1, <1>7
  <2>2. k \in Nat /\ Right(k - 1)
    BY <1>9
  <2>3. \A i : i \in 1..k <=> i \in 1..(k - 1) \/ i = k
    BY <2>2
  <2>4. /\ sum[k] \in Counts
        /\ sum[k] # Null <=> sum[k - 1] # Null \/ readings[k] # Null
        /\ Counted(sum[k]) <=> Counted(sum[k - 1]) \/ Counted(readings[k])
    BY <2>1, <2>2 DEF Plus, Counts, Counted, Null
  <2>5. Right(k)
    BY <2>2, <2>3, <2>4
  <2>6. QED
    BY <2>2, <2>5
<1>10. Right(n)
  <2> HIDE DEF R
  <2>1. \A k \in 0..n : k \in R
    BY <1>1, <1>8, <1>9, UpTo
  <2>2. QED
    BY <1>1, <2>1 DEF R
<1>11. QED
  BY <1>6, <1>10 DEF n
Grades(page) ==
  evaluateVerdict(parseSmartMetrics(page), parseSmartMetrics(page),
                  parseDeviceType(page), "PASSED", Clean)

(* A rule whose condition holds contributes its severity. *)
LEMMA SeverityOf ==
  ASSUME NEW page, NEW code, NEW severity,
         [code |-> code, severity |-> severity] \in Grades(page)
  PROVE  severity \in Severities(page)
  BY DEF Severities, Grades

LEMMA RuleYields ==
  ASSUME NEW code, NEW severity, NEW holds, holds
  PROVE  [code |-> code, severity |-> severity] \in Rule(code, severity, holds)
  BY DEF Rule

(* On SAS: what can be graded, and what is shown. *)
LEMMA MetricsOfSCSI ==
  ASSUME NEW page \in PageSet, page.transport = "SCSI"
  PROVE  LET m == parseSmartMetrics(page) IN
           /\ m["reportedUncorrect"] = Total(<<page.uncorrected["read"], page.uncorrected["write"],
                                               page.uncorrected["verify"]>>)
           /\ m["grownDefects"] = page.grown
           /\ m["linkErrors"] = parseSasLinkErrors(page)
           /\ m["healthFailing"] = page.failing
           /\ \A name \in Metrics \ {"reportedUncorrect", "grownDefects", "linkErrors",
                                       "healthFailing"} : m[name] = Null
  BY DEF parseSmartMetrics, parseScsiMetrics, Unreported, Metrics

LEMMA UncorrectedCounted ==
  ASSUME NEW page \in PageSet
  PROVE  Counted(Total(<<page.uncorrected["read"], page.uncorrected["write"],
                         page.uncorrected["verify"]>>))
           <=> \E op \in Operations : Counted(page.uncorrected[op])
<1> DEFINE readings == <<page.uncorrected["read"], page.uncorrected["write"],
                         page.uncorrected["verify"]>>
<1>1. \A op \in Operations : page.uncorrected[op] \in Counts
  BY DEF PageSet
<1>2. /\ readings \in Seq(Counts) /\ Len(readings) = 3
      /\ readings[1] = page.uncorrected["read"] /\ readings[2] = page.uncorrected["write"]
      /\ readings[3] = page.uncorrected["verify"]
  BY <1>1 DEF Operations
<1> HIDE DEF readings
<1>3. Counted(Total(readings)) <=> \E i \in 1..3 : Counted(readings[i])
  BY <1>2, Totals
<1>4. \A i : i \in 1..3 <=> i = 1 \/ i = 2 \/ i = 3
  OBVIOUS
<1>5. QED
  BY <1>2, <1>3, <1>4 DEF readings, Operations

LEMMA LinkErrorsCounted ==
  ASSUME NEW page \in PageSet
  PROVE  Counted(parseSasLinkErrors(page))
           <=> \E c \in {"invalidDword", "lossOfSync"} : Counted(sumPhyCounter(page, c))
<1> DEFINE both == [p \in 1..Phys |-> Plus(page.phys[p]["invalidDword"], page.phys[p]["lossOfSync"])]
           one(c) == [p \in 1..Phys |-> page.phys[p][c]]
<1>1. Phys \in Nat /\ \A p \in 1..Phys, c \in PhyCounters : page.phys[p][c] \in Counts
  BY PageAssumption DEF PageSet
<1>2. \A p \in 1..Phys :
        /\ Plus(page.phys[p]["invalidDword"], page.phys[p]["lossOfSync"]) \in Counts
        /\ Counted(Plus(page.phys[p]["invalidDword"], page.phys[p]["lossOfSync"]))
             <=> Counted(page.phys[p]["invalidDword"]) \/ Counted(page.phys[p]["lossOfSync"])
  BY <1>1 DEF Plus, Counted, Counts, Null, PhyCounters
<1>3. both \in Seq(Counts) /\ Len(both) = Phys
  BY <1>1, <1>2
<1>4. ASSUME NEW c \in PhyCounters
      PROVE  one(c) \in Seq(Counts) /\ Len(one(c)) = Phys
  BY <1>1
<1>5. Counted(Total(both)) <=> \E p \in 1..Phys : Counted(both[p])
  <2> HIDE DEF both
  <2>1. QED
    BY <1>3, Totals
<1>6. ASSUME NEW c \in PhyCounters
      PROVE  Counted(Total(one(c))) <=> \E p \in 1..Phys : Counted(one(c)[p])
  <2> DEFINE s == one(c)
  <2>1. s \in Seq(Counts) /\ Len(s) = Phys
    BY <1>4
  <2> HIDE DEF s
  <2>2. Counted(Total(s)) <=> \E p \in 1..Phys : Counted(s[p])
    BY <2>1, Totals
  <2>3. QED
    BY <2>2 DEF s
<1>7. parseSasLinkErrors(page) = Total(both) /\ \A c : sumPhyCounter(page, c) = Total(one(c))
  BY DEF parseSasLinkErrors, sumPhyCounter
<1>8. {"invalidDword", "lossOfSync"} \subseteq PhyCounters
  BY DEF PhyCounters
<1>9. (\E p \in 1..Phys : Counted(both[p])) <=>
        \E c \in {"invalidDword", "lossOfSync"}, p \in 1..Phys : Counted(one(c)[p])
  BY <1>2
<1> HIDE DEF both, one
<1>10. QED
  BY <1>5, <1>6, <1>7, <1>8, <1>9
(* The rows of a SAS drive. *)
LEMMA RowsOfSCSI ==
  ASSUME NEW page \in PageSet, page.transport = "SCSI", NEW row
  PROVE  row \in parseSmartAttributes(page) <=>
           \/ page.failing # Null /\ row = <<"status", IF page.failing = 1 THEN "fail" ELSE "ok">>
           \/ page.grown # Null /\ row = <<"grown", scsiAttributeHealth("grown", page.grown)>>
           \/ \E op \in Operations :
                /\ page.uncorrected[op] # Null
                /\ row = <<op, scsiAttributeHealth(op, page.uncorrected[op])>>
           \/ \E c \in PhyCounters :
                /\ sumPhyCounter(page, c) # Null
                /\ row = <<c, scsiAttributeHealth(c, sumPhyCounter(page, c))>>
  BY DEF parseSmartAttributes, parseScsiAttributes, RowOf

LEMMA FlagsOfSCSI ==
  ASSUME NEW page \in PageSet, page.transport = "SCSI", NEW flag
  PROVE  flag \in Flags(page) <=>
           \/ /\ flag = "fail"
              /\ page.failing = 1 \/ \E op \in Operations : Counted(page.uncorrected[op])
           \/ /\ flag = "warn"
              /\ \/ Counted(page.grown)
                 \/ \E c \in {"invalidDword", "lossOfSync"} : Counted(sumPhyCounter(page, c))
<1>1. /\ page.failing \in {Null, 0, 1} /\ page.grown \in Counts
      /\ \A op \in Operations : page.uncorrected[op] \in Counts
  BY DEF PageSet
<1>2. flag \in Flags(page) <=>
        /\ flag # "ok"
        /\ \E name : <<name, flag>> \in parseSmartAttributes(page)
  <2>1. \A row \in parseSmartAttributes(page) : \E name : row = <<name, row[2]>>
    BY RowsOfSCSI
  <2>2. QED
    BY <2>1 DEF Flags
<1>3. (\E name : <<name, flag>> \in parseSmartAttributes(page)) <=>
        \/ page.failing # Null /\ flag = IF page.failing = 1 THEN "fail" ELSE "ok"
        \/ page.grown # Null /\ flag = scsiAttributeHealth("grown", page.grown)
        \/ \E op \in Operations :
             page.uncorrected[op] # Null /\ flag = scsiAttributeHealth(op, page.uncorrected[op])
        \/ \E c \in PhyCounters :
             sumPhyCounter(page, c) # Null /\ flag = scsiAttributeHealth(c, sumPhyCounter(page, c))
  <2>1. ASSUME NEW name
        PROVE  <<name, flag>> \in parseSmartAttributes(page) <=>
                 \/ /\ page.failing # Null
                    /\ name = "status" /\ flag = IF page.failing = 1 THEN "fail" ELSE "ok"
                 \/ /\ page.grown # Null
                    /\ name = "grown" /\ flag = scsiAttributeHealth("grown", page.grown)
                 \/ \E op \in Operations :
                      /\ page.uncorrected[op] # Null
                      /\ name = op /\ flag = scsiAttributeHealth(op, page.uncorrected[op])
                 \/ \E c \in PhyCounters :
                      /\ sumPhyCounter(page, c) # Null
                      /\ name = c /\ flag = scsiAttributeHealth(c, sumPhyCounter(page, c))
    <3>1. \A a, b : <<name, flag>> = <<a, b>> <=> name = a /\ flag = b
      OBVIOUS
    <3> DEFINE row == <<name, flag>>
    <3>2. row \in parseSmartAttributes(page) <=>
           \/ page.failing # Null /\ row = <<"status", IF page.failing = 1 THEN "fail" ELSE "ok">>
           \/ page.grown # Null /\ row = <<"grown", scsiAttributeHealth("grown", page.grown)>>
           \/ \E op \in Operations :
                /\ page.uncorrected[op] # Null
                /\ row = <<op, scsiAttributeHealth(op, page.uncorrected[op])>>
           \/ \E c \in PhyCounters :
                /\ sumPhyCounter(page, c) # Null
                /\ row = <<c, scsiAttributeHealth(c, sumPhyCounter(page, c))>>
      <4> HIDE DEF row
      <4>1. QED
        BY RowsOfSCSI
    <3>3. QED
      BY <3>1, <3>2
  <2>2. QED
    BY <2>1
<1>4. \A v : scsiAttributeHealth("grown", v) = IF v > 0 THEN "warn" ELSE "ok"
  BY DEF scsiAttributeHealth, Operations
<1>5. \A op \in Operations : \A v : scsiAttributeHealth(op, v) = IF v > 0 THEN "fail" ELSE "ok"
  BY DEF scsiAttributeHealth, Operations
<1>6. \A c \in PhyCounters : \A v : scsiAttributeHealth(c, v) =
        IF c \in {"invalidDword", "lossOfSync"} /\ v > 0 THEN "warn" ELSE "ok"
  BY DEF scsiAttributeHealth, Operations, PhyCounters
<1>7. {"invalidDword", "lossOfSync"} \subseteq PhyCounters
  BY DEF PhyCounters
<1>8. ASSUME flag # "ok"
      PROVE  /\ (\E op \in Operations : page.uncorrected[op] # Null
                                        /\ flag = scsiAttributeHealth(op, page.uncorrected[op]))
                  <=> flag = "fail" /\ \E op \in Operations : Counted(page.uncorrected[op])
             /\ (\E c \in PhyCounters : sumPhyCounter(page, c) # Null
                                       /\ flag = scsiAttributeHealth(c, sumPhyCounter(page, c)))
                  <=> /\ flag = "warn"
                      /\ \E c \in {"invalidDword", "lossOfSync"} : Counted(sumPhyCounter(page, c))
             /\ page.grown # Null /\ flag = scsiAttributeHealth("grown", page.grown)
                  <=> flag = "warn" /\ Counted(page.grown)
             /\ page.failing # Null /\ (flag = IF page.failing = 1 THEN "fail" ELSE "ok")
                  <=> flag = "fail" /\ page.failing = 1
  <2>1. (\E op \in Operations : page.uncorrected[op] # Null
                                /\ flag = scsiAttributeHealth(op, page.uncorrected[op]))
          <=> flag = "fail" /\ \E op \in Operations : Counted(page.uncorrected[op])
    BY <1>8, <1>5, <1>1 DEF Counted, Counts
  <2>2. (\E c \in PhyCounters : sumPhyCounter(page, c) # Null
                               /\ flag = scsiAttributeHealth(c, sumPhyCounter(page, c)))
          <=> /\ flag = "warn"
              /\ \E c \in {"invalidDword", "lossOfSync"} : Counted(sumPhyCounter(page, c))
    BY <1>8, <1>6, <1>7 DEF Counted
  <2>3. page.grown # Null /\ flag = scsiAttributeHealth("grown", page.grown)
          <=> flag = "warn" /\ Counted(page.grown)
    BY <1>8, <1>4 DEF Counted
  <2>4. page.failing # Null /\ (flag = IF page.failing = 1 THEN "fail" ELSE "ok")
          <=> flag = "fail" /\ page.failing = 1
    BY <1>8 DEF Null
  <2>5. QED
    BY <2>1, <2>2, <2>3, <2>4
<1>9. QED
  BY <1>2, <1>3, <1>8
(* The reasons of a SAS drive: of one snapshot, by a passed self-test and a *)
(* clean scan.                                                              *)
LEMMA SeveritiesOfSCSI ==
  ASSUME NEW page \in PageSet, page.transport = "SCSI", NEW severity
  PROVE  severity \in Severities(page) <=>
           \/ /\ severity = "fail"
              /\ page.failing = 1 \/ \E op \in Operations : Counted(page.uncorrected[op])
           \/ /\ severity = "warn"
              /\ \/ Counted(page.grown)
                 \/ \E c \in {"invalidDword", "lossOfSync"} : Counted(sumPhyCounter(page, c))
<1> DEFINE m == parseSmartMetrics(page)
           type == parseDeviceType(page)
           Uncorrected == Counted(m["reportedUncorrect"])
           Grown == Counted(m["grownDefects"])
           Links == Counted(m["linkErrors"])
           Failing == Counted(m["healthFailing"])
<1>1. /\ Uncorrected <=> \E op \in Operations : Counted(page.uncorrected[op])
      /\ Grown <=> Counted(page.grown)
      /\ Links <=> \E c \in {"invalidDword", "lossOfSync"} : Counted(sumPhyCounter(page, c))
      /\ Failing <=> page.failing = 1
  <2>1. page.failing \in {Null, 0, 1}
    BY DEF PageSet
  <2>2. Counted(page.failing) <=> page.failing = 1
    BY <2>1 DEF Counted, Null
  <2>3. QED
    BY <2>2, MetricsOfSCSI, UncorrectedCounted, LinkErrorsCounted
<1>2. \A name \in {"reallocatedSectors", "currentPending", "offlineUncorrectable", "spinRetryCount",
                  "commandTimeouts", "crcErrors", "percentageUsed", "mediaErrors"} : m[name] = Null
  BY MetricsOfSCSI DEF Metrics
<1>3. m["grownDefects"] \in Counts
  BY MetricsOfSCSI DEF PageSet
<1> HIDE DEF m, type
<1>4. SelfTestReasons("PASSED") = {} /\ SurfaceReasons(Clean) = {}
  BY DEF SelfTestReasons, SurfaceReasons, Clean, Rule
<1>5. HardReasons(m) = Rule("REPORTED_UNCORRECT", "fail", Uncorrected)
  BY <1>2 DEF HardReasons, Counted, Rule
<1>6. GrowthReasons(m, m) = {} /\ ReallocatedReasons(m) = {} /\ SpinReasons(m) = {}
  BY <1>2, ThresholdsAssumption
  DEF GrowthReasons, ReallocatedReasons, SpinReasons, grew, Counted, Rule, Null
<1>7. GrownDefectReasons(m, m) = Rule("GROWN_DEFECTS_PRESENT", "warn", Grown)
  BY <1>3 DEF GrownDefectReasons, grew, Rule, Counts, Null
<1>8. HealthReasons(m, m) = Rule("SMART_HEALTH_FAILED", "fail", Failing)
  BY DEF HealthReasons, Rule
<1>9. WiringReasons(m) = Rule("LINK_ERRORS", "warn", Links)
  BY <1>2, ThresholdsAssumption DEF WiringReasons, Counted, Rule, Null
<1>10. WearReasons(type, m) = {}
  BY <1>2, ThresholdsAssumption DEF WearReasons, Counted, Rule, Null
<1>11. evaluateVerdict(m, m, type, "PASSED", Clean) =
         Rule("REPORTED_UNCORRECT", "fail", Uncorrected)
           \cup Rule("GROWN_DEFECTS_PRESENT", "warn", Grown)
           \cup Rule("SMART_HEALTH_FAILED", "fail", Failing)
           \cup Rule("LINK_ERRORS", "warn", Links)
  BY <1>4, <1>5, <1>6, <1>7, <1>8, <1>9, <1>10 DEF evaluateVerdict
<1>12. severity \in Severities(page) <=>
         \E r \in evaluateVerdict(m, m, type, "PASSED", Clean) : severity = r.severity
  BY DEF Severities, m, type
<1> HIDE DEF Uncorrected, Grown, Links, Failing
<1>13. severity \in Severities(page) <=>
         \/ severity = "fail" /\ (Uncorrected \/ Failing)
         \/ severity = "warn" /\ (Grown \/ Links)
  <2>1. \A r : r \in Rule("REPORTED_UNCORRECT", "fail", Uncorrected) <=>
                r = [code |-> "REPORTED_UNCORRECT", severity |-> "fail"] /\ Uncorrected
    BY DEF Rule
  <2>2. \A r : r \in Rule("GROWN_DEFECTS_PRESENT", "warn", Grown) <=>
                r = [code |-> "GROWN_DEFECTS_PRESENT", severity |-> "warn"] /\ Grown
    BY DEF Rule
  <2>3. \A r : r \in Rule("SMART_HEALTH_FAILED", "fail", Failing) <=>
                r = [code |-> "SMART_HEALTH_FAILED", severity |-> "fail"] /\ Failing
    BY DEF Rule
  <2>4. \A r : r \in Rule("LINK_ERRORS", "warn", Links) <=>
                r = [code |-> "LINK_ERRORS", severity |-> "warn"] /\ Links
    BY DEF Rule
  <2>5. \A r : r \in evaluateVerdict(m, m, type, "PASSED", Clean) <=>
                \/ r = [code |-> "REPORTED_UNCORRECT", severity |-> "fail"] /\ Uncorrected
                \/ r = [code |-> "GROWN_DEFECTS_PRESENT", severity |-> "warn"] /\ Grown
                \/ r = [code |-> "SMART_HEALTH_FAILED", severity |-> "fail"] /\ Failing
                \/ r = [code |-> "LINK_ERRORS", severity |-> "warn"] /\ Links
    BY <1>11, <2>1, <2>2, <2>3, <2>4
  <2> DEFINE Reasons == evaluateVerdict(m, m, type, "PASSED", Clean)
  <2> HIDE DEF Reasons
  <2>6. ASSUME severity \in Severities(page)
        PROVE  \/ severity = "fail" /\ (Uncorrected \/ Failing)
               \/ severity = "warn" /\ (Grown \/ Links)
    <3>1. PICK r \in Reasons : severity = r.severity
      BY <1>12, <2>6 DEF Reasons
    <3>2. QED
      BY <2>5, <3>1 DEF Reasons
  <2>7. \A code : [code |-> code, severity |-> severity] \in Reasons => severity \in Severities(page)
    BY <1>12 DEF Reasons
  <2>8. ASSUME \/ severity = "fail" /\ (Uncorrected \/ Failing)
               \/ severity = "warn" /\ (Grown \/ Links)
        PROVE  severity \in Severities(page)
    BY <2>5, <2>7, <2>8 DEF Reasons
  <2>9. QED
    BY <2>6, <2>8
<1>14. QED
  BY <1>1, <1>13

(* Rows and reasons of NVMe and ATA drives: what a rule flags, it grades. *)
RowsReasoned(page) ==
  \A row \in parseSmartAttributes(page) :
    row[2] # "ok" /\ ~DrivesOwnCall(page, row) => row[2] \in Severities(page)

LEMMA RowsOfNVMe ==
  ASSUME NEW page \in PageSet, page.transport = "NVMe"
  PROVE  RowsReasoned(page)
<1> DEFINE m == parseSmartMetrics(page)
<1>1. /\ m["percentageUsed"] = page.percentage /\ m["mediaErrors"] = page.media
      /\ m["healthFailing"] = page.failing
      /\ parseDeviceType(page) = "NVMe"
  BY DEF parseSmartMetrics, NvmeMetrics, Unreported, Metrics, parseDeviceType
<1>2. /\ page.percentage \in Counts /\ page.media \in Counts
      /\ page.failing \in {Null, 0, 1}
  BY DEF PageSet
<1> HIDE DEF m
<1> DEFINE G == evaluateVerdict(m, m, "NVMe", "PASSED", Clean)
<1>3. \A r \in G : r.severity \in Severities(page)
  BY <1>1 DEF Severities, m
<1>4. \A r \in HealthReasons(m, m) \cup WearReasons("NVMe", m) : r \in G
  BY DEF evaluateVerdict
<1> HIDE DEF G
<1>5. page.failing = 1 => "fail" \in Severities(page)
  <2>1. page.failing = 1 =>
          [code |-> "SMART_HEALTH_FAILED", severity |-> "fail"] \in HealthReasons(m, m)
    BY <1>1 DEF HealthReasons, Rule, Counted, Null
  <2>2. QED
    BY <2>1, <1>3, <1>4
<1>6. Counted(page.media) => "fail" \in Severities(page)
  <2>1. Counted(page.media) =>
          [code |-> "MEDIA_ERRORS", severity |-> "fail"] \in WearReasons("NVMe", m)
    BY <1>1 DEF WearReasons, Rule
  <2>2. QED
    BY <2>1, <1>3, <1>4
<1>7. page.percentage # Null /\ page.percentage >= ssdPercentageUsedFail
        => "fail" \in Severities(page)
  <2>1. page.percentage # Null /\ page.percentage >= ssdPercentageUsedFail =>
          [code |-> "WEAR_EXHAUSTED", severity |-> "fail"] \in WearReasons("NVMe", m)
    BY <1>1 DEF WearReasons, Rule
  <2>2. QED
    BY <2>1, <1>3, <1>4
<1>8. ASSUME page.percentage # Null,
             page.percentage < ssdPercentageUsedFail, page.percentage >= ssdPercentageUsedWarn
      PROVE  "warn" \in Severities(page)
  <2>1. [code |-> "WEAR_HIGH", severity |-> "warn"] \in WearReasons("NVMe", m)
    BY <1>1, <1>8 DEF WearReasons, Rule
  <2>2. QED
    BY <2>1, <1>3, <1>4
<1>9. ASSUME NEW row \in parseSmartAttributes(page), row[2] # "ok", ~DrivesOwnCall(page, row)
      PROVE  row[2] \in Severities(page)
  <2> DEFINE flag == row[2]
  <2>1. \/ page.percentage # Null /\ flag = nvmeAttributeHealth("percentage_used", page.percentage, page)
        \/ page.media # Null /\ flag = nvmeAttributeHealth("media_errors", page.media, page)
        \/ page.failing # Null /\ flag = nvmeAttributeHealth("critical_warning", page.failing, page)
    BY <1>9 DEF DrivesOwnCall, parseSmartAttributes, parseNvmeAttributes, RowOf
  <2>2. flag # "ok"
    BY <1>9
  <2> HIDE DEF flag
  <2>3. CASE page.percentage # Null /\ flag = nvmeAttributeHealth("percentage_used", page.percentage, page)
    BY <1>7, <1>8, <2>2, <2>3 DEF nvmeAttributeHealth, flag
  <2>4. CASE page.media # Null /\ flag = nvmeAttributeHealth("media_errors", page.media, page)
    BY <1>6, <2>2, <2>4 DEF nvmeAttributeHealth, Counted, flag
  <2>5. CASE page.failing # Null /\ flag = nvmeAttributeHealth("critical_warning", page.failing, page)
    BY <1>2, <1>5, <2>2, <2>5 DEF nvmeAttributeHealth, flag
  <2>6. QED
    BY <2>1, <2>3, <2>4, <2>5 DEF flag
<1>10. QED
  BY <1>9 DEF RowsReasoned

LEMMA RowsOfATA ==
  ASSUME NEW page \in PageSet, page.transport = "ATA"
  PROVE  RowsReasoned(page)
<1> DEFINE m == parseSmartMetrics(page)
           type == parseDeviceType(page)
<1>1. /\ m["reallocatedSectors"] = page.table[5].raw
      /\ m["reportedUncorrect"] = page.table[187].raw
      /\ m["currentPending"] = page.table[197].raw
      /\ m["offlineUncorrectable"] = page.table[198].raw
      /\ m["crcErrors"] = page.table[199].raw
  BY DEF parseSmartMetrics, AtaMetrics, Unreported, Metrics
<1>2. \A id \in AttributeIds : page.table[id].raw \in Counts
  BY DEF PageSet, PageRows
<1>3. {5, 187, 197, 198, 199} \subseteq AttributeIds
  BY DEF AttributeIds
<1> HIDE DEF m, type
<1> DEFINE G == evaluateVerdict(m, m, type, "PASSED", Clean)
<1>4. \A r \in G : r.severity \in Severities(page)
  BY DEF Severities, m, type
<1>5. \A r \in HardReasons(m) \cup ReallocatedReasons(m) \cup WiringReasons(m) : r \in G
  BY DEF evaluateVerdict
<1> HIDE DEF G
<1>6. ASSUME NEW id \in {187, 197, 198}, page.table[id].raw > 0
      PROVE  "fail" \in Severities(page)
  <2>1. Counted(page.table[id].raw)
    BY <1>6 DEF Counted, Null
  <2>2. \E code : [code |-> code, severity |-> "fail"] \in HardReasons(m)
    BY <1>1, <2>1 DEF HardReasons, Rule
  <2>3. QED
    BY <2>2, <1>4, <1>5
<1>7. ASSUME page.table[199].raw > 0
      PROVE  "warn" \in Severities(page)
  <2>1. Counted(page.table[199].raw)
    BY <1>7 DEF Counted, Null
  <2>2. [code |-> "CRC_ERRORS", severity |-> "warn"] \in WiringReasons(m)
    BY <1>1, <2>1 DEF WiringReasons, Rule
  <2>3. QED
    BY <2>2, <1>4, <1>5
<1>8. ASSUME page.table[5].raw > reallocatedWarnMax
      PROVE  "fail" \in Severities(page)
  <2>1. [code |-> "REALLOCATED_HIGH", severity |-> "fail"] \in ReallocatedReasons(m)
    BY <1>1, <1>8 DEF ReallocatedReasons, Rule
  <2>2. QED
    BY <2>1, <1>4, <1>5
<1>9. ASSUME page.table[5].raw > 0, ~ (page.table[5].raw > reallocatedWarnMax)
      PROVE  "warn" \in Severities(page)
  <2>1. /\ Counted(page.table[5].raw) /\ page.table[5].raw <= reallocatedWarnMax
    BY <1>2, <1>3, <1>9, ThresholdsAssumption DEF Counted, Counts, Null
  <2>2. [code |-> "REALLOCATED_PRESENT", severity |-> "warn"] \in ReallocatedReasons(m)
    BY <1>1, <2>1 DEF ReallocatedReasons, Rule
  <2>3. QED
    BY <2>2, <1>4, <1>5
<1>10. ASSUME NEW row \in parseSmartAttributes(page), row[2] # "ok", ~DrivesOwnCall(page, row)
       PROVE  row[2] \in Severities(page)
  <2> DEFINE flag == row[2]
  <2>1. PICK id \in AttributeIds : row = <<id, ataAttributeHealth(id, page.table[id])>>
    BY <1>10 DEF parseSmartAttributes, parseAtaAttributes, RowOf
  <2>2. /\ flag = ataAttributeHealth(id, page.table[id]) /\ flag # "ok"
        /\ DriveFails(page.table[id]) => id \in {5, 187, 197, 198, 199} /\ page.table[id].raw > 0
    BY <1>10, <2>1 DEF DrivesOwnCall
  <2> HIDE DEF flag
  <2>3. \/ id = 5 /\ page.table[5].raw > 0
             /\ flag = IF page.table[5].raw > reallocatedWarnMax THEN "fail" ELSE "warn"
        \/ id \in {187, 197, 198} /\ page.table[id].raw > 0 /\ flag = "fail"
        \/ id = 199 /\ page.table[199].raw > 0 /\ flag = "warn"
    BY <2>1, <2>2 DEF ataAttributeHealth
  <2>4. QED
    BY <2>3, <1>6, <1>7, <1>8, <1>9 DEF flag
<1>11. QED
  BY <1>10 DEF RowsReasoned

(***************************************************************************)
(* Of every page a drive may print, not only of those the runs construct:  *)
(* the rows of a SAS drive are flagged as its snapshot is graded, and no   *)
(* row of another is flagged beside a verdict without such a reason, but   *)
(* for what the drive itself calls failed                                  *)
(* (device/smartParser.ts:552-574, 370-398, 448-482).                      *)
(***************************************************************************)
THEOREM RowsMatchOnEveryPage ==
  ASSUME NEW page \in PageSet
  PROVE  /\ page.transport = "SCSI" => Flags(page) = Severities(page)
         /\ RowsReasoned(page)
<1>1. page.transport \in {"ATA", "NVMe", "SCSI"}
  BY DEF PageSet, Transports
<1>2. page.transport = "SCSI" => Flags(page) = Severities(page)
  <2>1. ASSUME page.transport = "SCSI"
        PROVE  \A flag : flag \in Flags(page) <=> flag \in Severities(page)
    BY <2>1, FlagsOfSCSI, SeveritiesOfSCSI
  <2>2. QED
    BY <2>1
<1>3. page.transport = "SCSI" => RowsReasoned(page)
  BY <1>2 DEF RowsReasoned, Flags
<1>4. QED
  BY <1>1, <1>2, <1>3, RowsOfATA, RowsOfNVMe

(* What the pages of a run are. *)
PagesOK == baseline \in PageSet /\ latest \in PageSet

LEMMA PagesHold == SmartSpec => []PagesOK
<1>1. SmartInit => PagesOK
  <2> SUFFICES ASSUME SmartInit PROVE PagesOK
    OBVIOUS
  <2>1. PICK transport \in Transports, solidState \in BOOLEAN :
          baseline \in OneMore(BlankPage(transport, solidState))
    BY DEF SmartInit, Pages, Transports
  <2> DEFINE blank == BlankPage(transport, solidState)
  <2>2. blank \in PageSet
    BY BlankPages
  <2> HIDE DEF blank
  <2>3. baseline \in PageSet
    BY <2>1, <2>2, MoreIsPage DEF blank
  <2>4. QED
    BY <2>3 DEF SmartInit, PagesOK
<1>2. PagesOK /\ [SmartNext]_smartVars => PagesOK'
  <2>1. ASSUME PagesOK, SmartRunsRegime
        PROVE  PagesOK'
    BY <2>1, MoreIsPage DEF PagesOK, SmartRunsRegime
  <2>2. QED
    BY <2>1 DEF PagesOK, SmartNext, SmartSkipsRegime, SmartGrades, smartVars
<1>3. QED
  BY <1>1, <1>2, PTL DEF SmartSpec

(* A run that grades pages is a run of Verdict: what is proved of the one holds *)
(* of the other.                                                                *)
LEMMA PagesAreGraded == SmartSpec => Spec
<1>1. SmartInit => Init
  BY DEF SmartInit
<1>2. [SmartNext]_smartVars => [Next]_vars
  BY DEF SmartNext, SmartSkipsRegime, SmartRunsRegime, SmartGrades, Next, smartVars, vars
<1>3. QED
  BY <1>1, <1>2, PTL DEF SmartSpec, Spec

(***************************************************************************)
(* The flags of the attribute table and the reasons of the verdict do not  *)
(* drift apart (device/smartParser.ts:553-554, 370-376, 463-476).          *)
(***************************************************************************)
THEOREM RowsAgree == SmartSpec => []RowsMatchReasons
<1>1. PagesOK => RowsMatchReasons
  BY RowsMatchOnEveryPage DEF PagesOK, RowsMatchReasons, RowsReasoned
<1>2. QED
  BY <1>1, PagesHold, PTL
=============================================================================
