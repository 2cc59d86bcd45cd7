-------------------------------- MODULE Smart --------------------------------
(***************************************************************************)
(* What smartctl prints about a drive, and what is made of it: the metrics *)
(* the verdict grades and the rows of the attribute table with their flags *)
(* (device/smartParser.ts).  The run of Verdict, from the pages a drive     *)
(* really prints instead of from any metrics.                              *)
(* Names, hours and temperatures, which nothing grades, are left out.      *)
(***************************************************************************)
EXTENDS Verdict, Sequences
LOCAL INSTANCE FiniteSetsExt

CONSTANTS Word,     \* one above what a 16-bit word of attribute 188 holds
          Phys      \* phys of a SAS drive, over all its ports

ASSUME PageAssumption == Word \in Nat \ {0} /\ Phys \in Nat

Transports == {"ATA", "NVMe", "SCSI"}

WearIds == <<231, 233, 177, 202>>        \* in the order they are preferred
AttributeIds == {5, 10, 187, 188, 197, 198, 199} \cup {WearIds[i] : i \in DOMAIN WearIds}

Operations == {"read", "write", "verify"}
PhyCounters == {"invalidDword", "lossOfSync", "runningDisparity", "resetProblem"}

(* An attribute that is not in the table reads as one without any value. *)
NoRow == [raw |-> Null, value |-> Null, thresh |-> Null, whenFailed |-> FALSE]

(* What `smartctl -x --json` prints.  failing is 0 for smart_status.passed  *)
(* true, 1 for false; Null is a key that is missing.                        *)
BlankPage(transport, solidState) ==
  [transport |-> transport, solidState |-> solidState,
   failing |-> Null, selfTests |-> Null,
   table |-> [id \in AttributeIds |-> NoRow],                         \* ATA
   percentage |-> Null, media |-> Null, spare |-> Null, spareThreshold |-> Null,  \* NVMe
   grown |-> Null, uncorrected |-> [op \in Operations |-> Null],      \* SCSI
   phys |-> [p \in 1..Phys |-> [c \in PhyCounters |-> Null]]]
-----------------------------------------------------------------------------
(***************************************************************************)
(* The metrics.                                                            *)
(***************************************************************************)
parseDeviceType(page) ==
  CASE page.transport = "NVMe" -> "NVMe"
    [] page.transport # "NVMe" /\ page.solidState -> "SSD"
    [] OTHER -> "HDD"

(* Only a drive that says it cannot is taken to be unable. *)
selfTestSupported(page) == page.selfTests # 0

(* One more reading for a sum, if there is one. *)
Plus(total, reading) ==
  IF reading = Null THEN total ELSE IF total = Null THEN reading ELSE total + reading

(* The sum of what is reported, and not reported if nothing is. *)
Total(readings) ==
  LET sum[n \in 0..Len(readings)] ==
        IF n = 0 THEN Null ELSE Plus(sum[n - 1], readings[n])
  IN  sum[Len(readings)]

decodeCommandTimeouts(raw) == IF raw >= Word THEN raw % Word ELSE raw

(* The first of the wear attributes that has a normalized value. *)
ataSsdPercentageUsed(page) ==
  LET rows == {i \in DOMAIN WearIds : page.table[WearIds[i]].value # Null}
      used == 100 - page.table[WearIds[Min(rows)]].value
  IN  IF ~page.solidState \/ rows = {} THEN Null ELSE IF used < 0 THEN 0 ELSE used

(* Seeded fault: losses of synchronization are not added. *)
parseSasLinkErrorsDwords(page) ==
  Total([p \in 1..Phys |-> page.phys[p]["invalidDword"]])

parseSasLinkErrors(page) ==
  Total([p \in 1..Phys |-> Plus(page.phys[p]["invalidDword"], page.phys[p]["lossOfSync"])])

parseScsiMetrics(page) ==
  [Unreported EXCEPT !["reportedUncorrect"] = Total(<<page.uncorrected["read"],
                                                      page.uncorrected["write"],
                                                      page.uncorrected["verify"]>>),
                     !["grownDefects"] = page.grown,
                     !["linkErrors"] = parseSasLinkErrors(page),
                     !["healthFailing"] = page.failing]

NvmeMetrics(page) ==
  [Unreported EXCEPT !["percentageUsed"] = page.percentage,
                     !["mediaErrors"] = page.media,
                     !["healthFailing"] = page.failing]

AtaMetrics(page) ==
  [Unreported EXCEPT !["reallocatedSectors"] = page.table[5].raw,
                     !["spinRetryCount"] = page.table[10].raw,
                     !["reportedUncorrect"] = page.table[187].raw,
                     !["commandTimeouts"] = decodeCommandTimeouts(page.table[188].raw),
                     !["currentPending"] = page.table[197].raw,
                     !["offlineUncorrectable"] = page.table[198].raw,
                     !["crcErrors"] = page.table[199].raw,
                     !["percentageUsed"] = ataSsdPercentageUsed(page),
                     !["healthFailing"] = page.failing]

parseSmartMetrics(page) ==
  CASE page.transport = "SCSI" -> parseScsiMetrics(page)
    [] page.transport = "NVMe" -> NvmeMetrics(page)
    [] page.transport = "ATA" -> AtaMetrics(page)
-----------------------------------------------------------------------------
(***************************************************************************)
(* The rows of the attribute table, as pairs of a name and a flag.  A      *)
(* field that is not reported has no row.                                  *)
(***************************************************************************)
RowOf(name, reported, health) == {r \in {<<name, health>>} : reported}

(* The drive's own call on the attribute. *)
DriveFails(row) ==
  row.whenFailed \/ (row.thresh > 0 /\ row.value # Null /\ row.value <= row.thresh)

ataAttributeHealth(id, row) ==
  CASE id = 5 /\ row.raw > 0 -> IF row.raw > reallocatedWarnMax THEN "fail" ELSE "warn"
    [] id \in {187, 197, 198} /\ row.raw > 0 -> "fail"
    [] id = 199 /\ row.raw > 0 -> "warn"
    [] ~(id \in {5, 187, 197, 198, 199} /\ row.raw > 0) /\ DriveFails(row) -> "fail"
    [] OTHER -> "ok"

parseAtaAttributes(page) ==
  UNION {RowOf(id, page.table[id] # NoRow, ataAttributeHealth(id, page.table[id])) : id \in AttributeIds}

(* smartctl says passed exactly when critical_warning is zero, so the rows  *)
(* of that field and of the status flag one thing.                          *)
nvmeAttributeHealth(name, v, page) ==
  CASE name = "percentage_used" /\ v >= ssdPercentageUsedFail -> "fail"
    [] name = "percentage_used" /\ v < ssdPercentageUsedFail /\ v >= ssdPercentageUsedWarn -> "warn"
    [] name \in {"media_errors", "critical_warning"} /\ v > 0 -> "fail"
    [] name = "available_spare" /\ page.spareThreshold > 0 /\ v <= page.spareThreshold -> "fail"
    [] OTHER -> "ok"

parseNvmeAttributes(page) ==
  LET Field(name, v) == RowOf(name, v # Null, nvmeAttributeHealth(name, v, page)) IN
    Field("percentage_used", page.percentage) \cup Field("media_errors", page.media)
      \cup Field("critical_warning", page.failing) \cup Field("available_spare", page.spare)

scsiAttributeHealth(name, v) ==
  CASE name \in Operations /\ v > 0 -> "fail"
    [] name \in {"grown", "invalidDword", "lossOfSync"} /\ v > 0 -> "warn"
    [] OTHER -> "ok"

sumPhyCounter(page, counter) == Total([p \in 1..Phys |-> page.phys[p][counter]])

parseScsiAttributes(page) ==
  LET Field(name, v) == RowOf(name, v # Null, scsiAttributeHealth(name, v)) IN
    RowOf("status", page.failing # Null, IF page.failing = 1 THEN "fail" ELSE "ok")
      \cup Field("grown", page.grown)
      \cup (UNION {Field(op, page.uncorrected[op]) : op \in Operations})
      \cup (UNION {Field(c, sumPhyCounter(page, c)) : c \in PhyCounters})

parseSmartAttributes(page) ==
  CASE page.transport = "NVMe" -> parseNvmeAttributes(page)
    [] page.transport = "SCSI" -> parseScsiAttributes(page)
    [] page.transport = "ATA" -> parseAtaAttributes(page)
-----------------------------------------------------------------------------
(***************************************************************************)
(* The pages of the runs: blank but for one reading, and a second one that *)
(* differs in one more.                                                    *)
(***************************************************************************)
Readings == 0..MaxCount

AttributeRows(id) ==
  IF id \in {WearIds[i] : i \in DOMAIN WearIds}
  THEN {[NoRow EXCEPT !.value = 100 - n, !.thresh = 0] : n \in Readings}
         \cup {[NoRow EXCEPT !.value = 100, !.thresh = 100]}
  ELSE {[NoRow EXCEPT !.raw = n] : n \in Readings}
         \cup {[NoRow EXCEPT !.raw = 0, !.whenFailed = TRUE]}
         \cup {[NoRow EXCEPT !.raw = Word + n] : n \in {k \in Readings : id = 188}}

MoreOfATA(page) ==
  {[page EXCEPT !.selfTests = n] : n \in 0..1}
    \cup (UNION {{[page EXCEPT !.table[id] = row] : row \in AttributeRows(id)} :
                   id \in AttributeIds})

(* A threshold of zero is that of a drive that does not track its spare. *)
WithSpare(page, n, t) == [page EXCEPT !.spare = n, !.spareThreshold = t]

MoreOfNVMe(page) ==
  {[page EXCEPT !.selfTests = n] : n \in 0..1}
    \cup {[page EXCEPT !.percentage = n] : n \in Readings}
    \cup {[page EXCEPT !.media = n] : n \in Readings}
    \cup {WithSpare(page, n, t) : n \in Readings, t \in 0..1}

MoreOfSCSI(page) ==
  {[page EXCEPT !.grown = n] : n \in Readings}
    \cup {[page EXCEPT !.uncorrected[op] = n] : op \in Operations, n \in Readings}
    \cup {[page EXCEPT !.phys[p][c] = n] : p \in 1..Phys, c \in PhyCounters, n \in Readings}

OneMore(page) ==
  {page} \cup {[page EXCEPT !.failing = n] : n \in 0..1}
    \cup CASE page.transport = "ATA"  -> MoreOfATA(page)
           [] page.transport = "NVMe" -> MoreOfNVMe(page)
           [] page.transport = "SCSI" -> MoreOfSCSI(page)

Pages ==
  UNION {OneMore(blank) : blank \in {BlankPage("ATA", FALSE), BlankPage("ATA", TRUE),
                                     BlankPage("SCSI", FALSE), BlankPage("NVMe", TRUE)}}
-----------------------------------------------------------------------------
VARIABLES baseline, latest      \* the pages of the two snapshots

smartVars == <<vars, baseline, latest>>

SmartInit ==
  /\ baseline \in Pages
  /\ latest = baseline
  /\ before = parseSmartMetrics(baseline)
  /\ deviceType = parseDeviceType(baseline)
  /\ Init

SmartSkipsRegime == SkipRegime /\ UNCHANGED <<baseline, latest>>

(* The pre-flight check settles the self-test of a drive that cannot run one. *)
SmartRunsRegime ==
  \E page \in OneMore(baseline) :
    /\ latest' = page
    /\ after' = parseSmartMetrics(page)
    /\ RunRegime
    /\ ~selfTestSupported(baseline) => selfTest' = "UNSUPPORTED"
    /\ UNCHANGED baseline

SmartGrades == Grade /\ UNCHANGED <<baseline, latest>>

SmartNext == SmartSkipsRegime \/ SmartRunsRegime \/ SmartGrades

SmartSpec == SmartInit /\ [][SmartNext]_smartVars
-----------------------------------------------------------------------------
Clean == [badBlocks |-> 0, completed |-> TRUE]

Severities(page) ==
  LET m == parseSmartMetrics(page)
  IN  {r.severity : r \in evaluateVerdict(m, m, parseDeviceType(page), "PASSED", Clean)}

Flags(page) == {row[2] : row \in parseSmartAttributes(page)} \ {"ok"}

(* Flagged for what the drive itself calls failed, where no rule of the      *)
(* verdict reads the field: below a threshold of the drive's own.            *)
DrivesOwnCall(page, row) ==
  \/ /\ page.transport = "ATA"
     /\ DriveFails(page.table[row[1]])
     /\ ~(row[1] \in {5, 187, 197, 198, 199} /\ page.table[row[1]].raw > 0)
  \/ page.transport = "NVMe" /\ row[1] = "available_spare"

(***************************************************************************)
(* The flags of the table and the reasons of the verdict come from two     *)
(* copies of the same rules over two readings of the same page, and do not *)
(* drift apart: on SAS a snapshot's rows are flagged exactly as it is      *)
(* graded ("a row's flag can never disagree with the verdict the same      *)
(* snapshot produces", smartParser.ts:553-554); elsewhere no row is red or *)
(* yellow beside a verdict that has no such reason, but for one the drive  *)
(* itself calls failed (smartParser.ts:370-376, 463-479).                  *)
(***************************************************************************)
RowsMatchReasons ==
  /\ latest.transport = "SCSI" => Flags(latest) = Severities(latest)
  /\ \A row \in parseSmartAttributes(latest) :
       row[2] # "ok" /\ ~DrivesOwnCall(latest, row) => row[2] \in Severities(latest)

(* What is written about this code, and does not hold.  "a drive that has      *)
(* actually run out also raises the spare bit in `critical_warning`"           *)
(* (smartParser.ts:471-474), so that the row of the spare capacity, like the   *)
(* enclosure's of "a failing row next to a PASS verdict" (467-469), is red     *)
(* only in company.  The bit is for a reading below the threshold, the row is  *)
(* red already at it.                                                          *)
SpareRowMatches ==
  latest.failing = 0 /\ latest.spare >= latest.spareThreshold =>
    (<<"available_spare", "fail">> \in parseNvmeAttributes(latest) => "fail" \in Severities(latest))
=============================================================================
