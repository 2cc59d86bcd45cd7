-------------------------------- MODULE Intake --------------------------------
(***************************************************************************)
(* How a disk of the host becomes a drive that may be tested: discovery    *)
(* (lsblkParser, scanParser, discovery, RealDeviceApi.listDevices), the    *)
(* protect list (api/routes/settings.ts), the drive list                   *)
(* (api/routes/drives.ts), the start of a run (api/routes/runs.ts) and the *)
(* guard they meet at (safety/guards.ts).                                  *)
(*                                                                         *)
(* A text is what somebody typed or a tool printed: a name, in its         *)
(* canonical form or in an odd one (case, spaces around it).  Texts are    *)
(* equal when both agree; the name "" is a text of nothing but spaces, or  *)
(* of nothing at all when its form is plain.                               *)
(***************************************************************************)
EXTENDS Naturals, Sequences, FiniteSets

CONSTANTS Hosts,          \* the hosts considered: sequences of disks, as lsblk lists them
          TypedLists,     \* lists of serials the operator types in Settings
          SystemSerials,  \* values of SPINDOCTOR_SYSTEM_DISK_SERIALS, as lists
          Requested,      \* serials and confirmations that POST /runs is sent
          MaxChanges      \* bound: changes of the host and of the settings

Text(name, form) == [name |-> name, form |-> form]
NoText == [name |-> "", form |-> "null"]  \* JSON null: lsblk knows no serial

Errnos == {"none", "EBUSY", "EACCES"}
Texts  == [name : STRING, form : {"plain", "odd"}]
Disks  == [type : STRING, serial : Texts \union {NoText}, tran : STRING,
           mounts : SUBSET [depth : Nat, point : STRING],
           scanned : {"device", "controller", "no"}, errno : Errnos]

ASSUME IntakeAssumption ==
  /\ Hosts \subseteq Seq(Disks)
  /\ TypedLists \subseteq Seq(Texts) /\ SystemSerials \subseteq Seq(Texts)
  /\ Requested \subseteq Texts /\ MaxChanges \in Nat

VARIABLES
  host,        \* the disks, by device path (their index)
  systemDisks, \* the environment variable
  protectList, \* config.protectList; nothing reads its order
  known,       \* serials in the drives table
  active,      \* engine #activeSerials, with the run that holds each
  abandoned,   \* paths a badblocks we gave up on still holds
  view,        \* the answer of the last GET /drives
  typed,       \* history: the last list of serials the operator saved
  current,     \* history: nothing changed since that GET
  changes

vars == <<host, systemDisks, protectList, known, active, abandoned, view, typed,
          current, changes>>

Paths == DOMAIN host
-----------------------------------------------------------------------------
(***************************************************************************)
(* The guard and the serials it compares.                                  *)
(***************************************************************************)
normalizeSerial(text) == Text(text.name, "plain")

Blank == Text("", "plain")

isProtected(serial, list) ==
  /\ normalizeSerial(serial) # Blank
  /\ \E entry \in list : normalizeSerial(entry) = normalizeSerial(serial)

\* Every mode asks the same five questions, in this order.
checkRunAllowed(drive, list) ==
  IF normalizeSerial(drive.serial) = Blank THEN "NO_SERIAL"
  ELSE IF drive.isSystemDisk THEN "SYSTEM_DISK"
  ELSE IF drive.mounted THEN "MOUNTED"
  ELSE IF drive.claim = "claimed" THEN "IN_USE"
  ELSE IF isProtected(drive.serial, list) THEN "PROTECTED" ELSE "allowed"

(***************************************************************************)
(* Discovery.                                                              *)
(***************************************************************************)
\* lsblk: a disk's mountpoints are its own, its partitions' and those of what is
\* built on them, in the old field or in the new one.
collectMountpoints(disk) == {mount.point : mount \in disk.mounts}

classifyTransport(disk) ==
  IF disk.tran \in {"sata", "sas", "usb", "nvme"} THEN disk.tran ELSE "UNKNOWN"

parseLsblk(p) ==
  [path |-> p, serial |-> host[p].serial,
   transport |-> classifyTransport(host[p]),
   mounted |-> collectMountpoints(host[p]) # {},
   isSystemDisk |-> collectMountpoints(host[p]) \intersect {"/", "/boot", "/boot/efi"} # {}]

\* smartctl --scan names the device, or the controller of an NVMe namespace.
isSmartctlVisible(p) ==
  \/ host[p].scanned = "device"
  \/ host[p].scanned = "controller" /\ host[p].tran = "nvme"

\* A disk without a serial, out of smartctl's sight or with no physical
\* transport is not a drive.
Merged(p) ==
  /\ host[p].type = "disk"
  /\ host[p].serial \notin {NoText, Blank}
  /\ isSmartctlVisible(p)
  /\ classifyTransport(host[p]) # "UNKNOWN"

probeDeviceClaim(p) ==
  CASE host[p].errno = "none"  -> "free"
    [] host[p].errno = "EBUSY" -> "claimed"
    [] OTHER                   -> "unknown"

isDriveUnderTest(serial) == \E run \in active : run.serial = serial

systemDiskSerials ==
  {normalizeSerial(systemDisks[i]) : i \in DOMAIN systemDisks} \ {Blank}

\* Seeded fault: a drive that is being admitted counts as under test.
claimOfReserved(p, alwaysProbe) ==
  IF p \in abandoned THEN "claimed"
  ELSE IF host[p].serial = alwaysProbe THEN "unknown" ELSE probeDeviceClaim(p)

\* A drive under test is not probed, except the one that is being admitted.
claim(p, alwaysProbe) ==
  IF p \in abandoned THEN "claimed"
  ELSE IF isDriveUnderTest(host[p].serial) /\ host[p].serial # alwaysProbe
       THEN "unknown"
  ELSE probeDeviceClaim(p)

Discovered(p, alwaysProbe) ==
  LET disk == parseLsblk(p)
  IN [path |-> p, serial |-> disk.serial, mounted |-> disk.mounted,
      claim |-> claim(p, alwaysProbe),
      isSystemDisk |-> \/ disk.isSystemDisk
                       \/ normalizeSerial(disk.serial) \in systemDiskSerials]

\* The drives; their paths are in the order of lsblk.
listDevices(alwaysProbe) ==
  {Discovered(p, alwaysProbe) : p \in {q \in Paths : Merged(q)}}

Nobody == NoText
Serials(drives) == {d.serial : d \in drives}
Bearing(drives, serial) == {d \in drives : d.serial = serial}
FirstOf(drives, serial) ==
  CHOOSE d \in Bearing(drives, serial) :
    \A e \in Bearing(drives, serial) : d.path <= e.path
LastOf(drives, serial) ==
  CHOOSE d \in Bearing(drives, serial) :
    \A e \in Bearing(drives, serial) : e.path <= d.path
-----------------------------------------------------------------------------
Init ==
  /\ host \in Hosts /\ systemDisks \in SystemSerials
  /\ protectList = {} /\ typed = << >>
  /\ known = {} /\ active = {} /\ abandoned = {}
  /\ view = {} /\ current = FALSE /\ changes = 0

\* PUT /settings: the entries are stored normalized, once each and without the
\* blank ones; a patch with any field that is not valid changes nothing.
PutSettings(list, valid) ==
  /\ changes < MaxChanges /\ changes' = changes + 1
  /\ protectList' =
       IF valid
       THEN {normalizeSerial(list[i]) : i \in DOMAIN list} \ {Blank}
       ELSE protectList
  /\ typed' = IF valid THEN list ELSE typed
  /\ current' = FALSE
  /\ UNCHANGED <<host, systemDisks, known, active, abandoned, view>>

\* Seeded fault: the flag is read from a column nothing ever writes.
toDriveViewColumn(drives, serial) ==
  LET drive == LastOf(drives, serial)
  IN [serial |-> serial, protected |-> FALSE,
      present |-> serial \in Serials(drives),
      mounted |-> serial \in Serials(drives) /\ drive.mounted,
      isSystemDisk |-> serial \in Serials(drives) /\ drive.isSystemDisk,
      claim |-> IF serial \in Serials(drives) THEN drive.claim ELSE "none"]

toDriveView(drives, serial) ==
  IF serial \in Serials(drives)
  THEN LET drive == LastOf(drives, serial)
       IN [serial |-> serial, present |-> TRUE, mounted |-> drive.mounted,
           isSystemDisk |-> drive.isSystemDisk, claim |-> drive.claim,
           protected |-> isProtected(serial, protectList)]
  ELSE [serial |-> serial, present |-> FALSE, mounted |-> FALSE,
        isSystemDisk |-> FALSE, claim |-> "none",
        protected |-> isProtected(serial, protectList)]

\* GET /drives: every drive ever seen, with the flags of this listing.
GetDrives ==
  LET drives == listDevices(Nobody)
  IN /\ known' = known \union Serials(drives)
     /\ view' = {toDriveView(drives, serial) : serial \in known'}
     /\ current' = TRUE
     /\ UNCHANGED <<host, systemDisks, protectList, active, abandoned, typed, changes>>

\* POST /runs and startRun: what is answered, from the first reason to refuse.
Answer(serial, mode, confirm) ==
  LET drives == listDevices(serial)
  IN CASE serial = Blank -> "400"
       [] mode = "destructive" /\ confirm # serial -> "400"
       [] isDriveUnderTest(serial) -> "409"
       [] serial \notin Serials(drives) -> "404"
       [] checkRunAllowed(FirstOf(drives, serial), protectList) # "allowed" -> "403"
       [] OTHER -> "201"

\* Only an accepted request leaves something behind.
PostRun(serial, mode, confirm) ==
  /\ Answer(serial, mode, confirm) = "201"
  /\ active' = active \union
       {[serial |-> serial,
         path |-> FirstOf(listDevices(serial), serial).path]}
  /\ known' = known \union {serial}
  /\ current' = FALSE
  /\ UNCHANGED <<host, systemDisks, protectList, abandoned, view, typed, changes>>

\* A run ends; it may leave its badblocks behind, whatever its mode.
RunEnds(run, leaves) ==
  /\ active' = active \ {run}
  /\ abandoned' = IF leaves THEN abandoned \union {run.path} ELSE abandoned
  /\ current' = FALSE
  /\ UNCHANGED <<host, systemDisks, protectList, known, view, typed, changes>>

WriterExits(p) ==
  /\ abandoned' = abandoned \ {p}
  /\ current' = FALSE
  /\ UNCHANGED <<host, systemDisks, protectList, known, active, view, typed, changes>>

\* Something takes the disk, lets go of it, or cannot be asked.
HostChanges(p, errno) ==
  /\ changes < MaxChanges /\ changes' = changes + 1
  /\ host' = [host EXCEPT ![p].errno = errno]
  /\ current' = FALSE
  /\ UNCHANGED <<systemDisks, protectList, known, active, abandoned, view, typed>>

Next ==
  \/ \E list \in TypedLists, valid \in BOOLEAN : PutSettings(list, valid)
  \/ GetDrives
  \/ \E serial, confirm \in Requested, mode \in {"destructive", "read-only"} :
       PostRun(serial, mode, confirm)
  \/ \E run \in active, leaves \in BOOLEAN : RunEnds(run, leaves)
  \/ \E p \in abandoned : WriterExits(p)
  \/ \E p \in Paths, errno \in Errnos : HostChanges(p, errno)

Spec == Init /\ [][Next]_vars
-----------------------------------------------------------------------------
(***************************************************************************)
(* Properties.                                                             *)
(***************************************************************************)
\* What the host's owner knows of a disk, whoever looks at it and however.
Used(p) ==
  \/ host[p].mounts # {} \/ host[p].errno = "EBUSY" \/ p \in abandoned
Named(p, list) ==
  \E i \in DOMAIN list : list[i].name # "" /\ list[i].name = host[p].serial.name

\* Whatever the request says, no run of any mode begins on a disk that is mounted
\* anywhere, held by something, still written by a scan that was given up, or
\* whose serial the operator has saved in Settings or declared to be a system
\* disk, in whatever case and with whatever spaces; nor on one that has no serial
\* to name it by, or that is not a physical drive (guards.ts:44, settings.ts:115).
StartsOnlyOnFreeDrives ==
  [][\A run \in active' \ active :
       /\ ~Used(run.path)
       /\ ~Named(run.path, typed) /\ ~Named(run.path, systemDisks)
       /\ host[run.path].serial.name # ""
       /\ host[run.path].tran # "none"]_vars

\* "the chip, the start dialog and the engine disagreed" (drives.ts:60-61) no more:
\* while nothing has changed, a drive the list shows without a flag can be
\* started, and one it shows with a flag cannot.  For drives that nobody tests,
\* and whose serial is no other disk's.
Flagged(v) ==
  v.mounted \/ v.isSystemDisk \/ v.claim = "claimed" \/ v.protected \/ ~v.present

Unique(serial) == Cardinality({p \in Paths : host[p].serial = serial}) <= 1

ListAgreesWithGuard ==
  current =>
    \A v \in view :
      Unique(v.serial) /\ ~isDriveUnderTest(v.serial) /\ v.serial.name # "" =>
        (Answer(v.serial, "destructive", v.serial) = "201") = ~Flagged(v)
=============================================================================
