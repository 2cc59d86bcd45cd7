----------------------------- MODULE IntakeProofs -----------------------------
(***************************************************************************)
(* For any host, any settings and any requests: a run begins only on a     *)
(* drive that is free for it, and the list of drives and the start of a    *)
(* run agree.                                                              *)
(***************************************************************************)
EXTENDS Intake, FiniteSetTheorems, WellFoundedInduction, TLAPS

(* Disks are numbered. *)
Numbered == \E n \in Nat : Paths = 1..n

(* What is stored is what was typed, in canonical form and without blanks. *)
Stored == protectList = {normalizeSerial(typed[i]) : i \in DOMAIN typed} \ {Blank}

(* The list answered last is the one a listing would yield now. *)
Fresh ==
  current => view = {toDriveView(listDevices(Nobody), serial) : serial \in known}

IntakeInv == Numbered /\ Stored /\ Fresh

LEMMA InitIntakeInv == Init => IntakeInv
<1> SUFFICES ASSUME Init PROVE IntakeInv
  OBVIOUS
<1>1. Numbered
  <2>1. host \in Seq(Disks)
    BY IntakeAssumption DEF Init
  <2>2. Len(host) \in Nat /\ DOMAIN host = 1..Len(host)
    BY <2>1
  <2>3. QED
    BY <2>2 DEF Numbered, Paths
<1>2. Stored
  BY DEF Init, Stored
<1>3. QED
  BY <1>1, <1>2 DEF IntakeInv, Fresh, Init

(* A listing and a view depend on what they read only. *)
LEMMA SameListing ==
  ASSUME UNCHANGED <<host, systemDisks, active, abandoned, protectList>>
  PROVE  /\ listDevices(Nobody)' = listDevices(Nobody)
         /\ \A serial : toDriveView(listDevices(Nobody), serial)'
                        = toDriveView(listDevices(Nobody), serial)
<1>1. listDevices(Nobody)' = listDevices(Nobody)
  BY DEF listDevices, Discovered, Paths, Merged, isSmartctlVisible, classifyTransport, parseLsblk,
         collectMountpoints, claim, probeDeviceClaim, isDriveUnderTest, systemDiskSerials
<1>2. QED
  BY <1>1 DEF toDriveView

LEMMA IntakeInvStep == IntakeInv /\ [Next]_vars => IntakeInv'
<1> SUFFICES ASSUME IntakeInv, [Next]_vars PROVE IntakeInv'
  OBVIOUS
<1>1. Numbered'
  <2>1. Paths' = Paths
    BY DEF Next, vars, Paths, PutSettings, GetDrives, PostRun, RunEnds, WriterExits, HostChanges
  <2>2. QED
    BY <2>1 DEF IntakeInv, Numbered
<1>2. Stored'
  <2>1. CASE \E list \in TypedLists, valid \in BOOLEAN : PutSettings(list, valid)
    BY <2>1 DEF PutSettings, IntakeInv, Stored
  <2>2. CASE UNCHANGED <<protectList, typed>>
    BY <2>2 DEF IntakeInv, Stored
  <2>3. QED
    BY <2>1, <2>2 DEF Next, vars, GetDrives, PostRun, RunEnds, WriterExits, HostChanges
<1>3. Fresh'
  <2>1. CASE GetDrives
    <3>1. /\ listDevices(Nobody)' = listDevices(Nobody)
          /\ \A serial : toDriveView(listDevices(Nobody), serial)'
                         = toDriveView(listDevices(Nobody), serial)
      BY <2>1, SameListing DEF GetDrives
    <3>2. QED
      BY <2>1, <3>1 DEF GetDrives, Fresh
  <2>2. CASE current' = FALSE
    BY <2>2 DEF Fresh
  <2>3. CASE UNCHANGED vars
    <3>1. /\ listDevices(Nobody)' = listDevices(Nobody)
          /\ \A serial : toDriveView(listDevices(Nobody), serial)'
                         = toDriveView(listDevices(Nobody), serial)
      BY <2>3, SameListing DEF vars
    <3>2. QED
      BY <2>3, <3>1 DEF IntakeInv, Fresh, vars
  <2>4. QED
    BY <2>1, <2>2, <2>3 DEF Next, PutSettings, PostRun, RunEnds, WriterExits, HostChanges
<1>4. QED
  BY <1>1, <1>2, <1>3 DEF IntakeInv

LEMMA IntakeKept == Spec => []IntakeInv
  BY InitIntakeInv, IntakeInvStep, PTL DEF Spec
-----------------------------------------------------------------------------
(* A listing has one drive for each disk that is one, and says this of it. *)
SystemDisk(p) ==
  \/ parseLsblk(p).isSystemDisk \/ normalizeSerial(host[p].serial) \in systemDiskSerials

LEMMA ListedDrive ==
  ASSUME NEW who, NEW d \in listDevices(who)
  PROVE  /\ d.path \in Paths /\ Merged(d.path) /\ d.serial = host[d.path].serial
         /\ d.mounted <=> host[d.path].mounts # {}
         /\ d.isSystemDisk <=> SystemDisk(d.path)
         /\ d.claim = claim(d.path, who)
<1>1. PICK p \in Paths : Merged(p) /\ d = Discovered(p, who)
  BY DEF listDevices
<1>2. /\ d.path = p /\ d.serial = host[p].serial /\ d.claim = claim(p, who)
      /\ d.mounted <=> collectMountpoints(host[p]) # {}
      /\ d.isSystemDisk <=> SystemDisk(p)
  BY <1>1 DEF Discovered, parseLsblk, SystemDisk
<1>3. collectMountpoints(host[p]) # {} <=> host[p].mounts # {}
  BY DEF collectMountpoints
<1>4. QED
  BY <1>1, <1>2, <1>3

LEMMA DiskIsListed ==
  ASSUME NEW who, NEW p \in Paths, Merged(p)
  PROVE  host[p].serial \in Serials(listDevices(who))
<1>1. Discovered(p, who) \in listDevices(who)
  BY DEF listDevices
<1>2. Discovered(p, who).serial = host[p].serial
  BY DEF Discovered, parseLsblk
<1>3. QED
  BY <1>1, <1>2 DEF Serials

(* The drive a request is about is one that was listed under its serial. *)
LEMMA FirstIsListed ==
  ASSUME Numbered, NEW who, NEW serial \in Serials(listDevices(who))
  PROVE  /\ FirstOf(listDevices(who), serial) \in listDevices(who)
         /\ FirstOf(listDevices(who), serial).serial = serial
<1> DEFINE drives == Bearing(listDevices(who), serial)
           numbers == {d.path : d \in drives}
           R == OpToRel(<, Nat)
<1>1. drives # {}
  BY DEF Serials, Bearing
<1>2. \A d \in drives : d \in listDevices(who) /\ d.serial = serial /\ d.path \in Nat
  <2>1. Paths \subseteq Nat
    BY DEF Numbered
  <2>2. QED
    BY <2>1, ListedDrive DEF Bearing
<1>3. PICK n \in numbers : \A m \in numbers : n <= m
  <2>1. numbers \subseteq Nat /\ numbers # {}
    BY <1>1, <1>2
  <2>2. PICK n \in numbers : \A m \in numbers : ~ (<<m, n>> \in R)
    <3>1. IsWellFoundedOn(R, Nat)
      BY NatLessThanWellFounded
    <3> HIDE DEF R, numbers
    <3>2. QED
      BY <2>1, <3>1, WFMin
  <2>3. ASSUME NEW m \in numbers PROVE n <= m
    <3>1. ~ (m < n) /\ m \in Nat /\ n \in Nat
      BY <2>1, <2>2 DEF OpToRel
    <3>2. QED
      BY <3>1
  <2>4. QED
    BY <2>3
<1>4. PICK d \in drives : \A e \in drives : d.path <= e.path
  BY <1>3
<1>5. FirstOf(listDevices(who), serial) \in drives
  BY <1>4 DEF FirstOf
<1>6. QED
  BY <1>2, <1>5

(* A drive the guard lets through is used by nobody and named nowhere. *)
LEMMA AllowedIsFree ==
  ASSUME IntakeInv, NEW serial, NEW d \in listDevices(serial), d.serial = serial,
         checkRunAllowed(d, protectList) = "allowed"
  PROVE  /\ ~Used(d.path)
         /\ ~Named(d.path, typed) /\ ~Named(d.path, systemDisks)
         /\ host[d.path].serial.name # ""
         /\ host[d.path].tran # "none"
<1> DEFINE p == d.path
           name == host[p].serial.name
<1>1. /\ p \in Paths /\ Merged(p) /\ host[p].serial = serial
      /\ d.mounted <=> host[p].mounts # {}
      /\ d.isSystemDisk <=> SystemDisk(p)
      /\ d.claim = claim(p, serial)
  BY ListedDrive
<1>2. /\ normalizeSerial(serial) # Blank /\ ~d.isSystemDisk /\ ~d.mounted
      /\ d.claim # "claimed" /\ ~isProtected(serial, protectList)
  BY DEF checkRunAllowed
<1>3. normalizeSerial(serial) = Text(name, "plain") /\ name # ""
  BY <1>1, <1>2 DEF normalizeSerial, Blank, Text
<1>4. ~Used(p)
  BY <1>1, <1>2 DEF Used, claim, probeDeviceClaim
<1>5. ~Named(p, typed)
  <2> SUFFICES ASSUME NEW i \in DOMAIN typed, typed[i].name # "", typed[i].name = name
               PROVE  FALSE
    BY DEF Named
  <2>1. normalizeSerial(typed[i]) = normalizeSerial(serial)
    BY <1>3 DEF normalizeSerial
  <2>2. normalizeSerial(typed[i]) \in protectList
    BY <1>2, <2>1 DEF IntakeInv, Stored
  <2>3. normalizeSerial(normalizeSerial(typed[i])) = normalizeSerial(serial)
    BY <2>1 DEF normalizeSerial, Text
  <2>4. QED
    BY <1>2, <2>2, <2>3 DEF isProtected
<1>6. ~Named(p, systemDisks)
  <2> SUFFICES ASSUME NEW i \in DOMAIN systemDisks, systemDisks[i].name # "",
                      systemDisks[i].name = name
               PROVE  FALSE
    BY DEF Named
  <2>1. normalizeSerial(systemDisks[i]) = normalizeSerial(serial)
    BY <1>3 DEF normalizeSerial
  <2>2. normalizeSerial(host[p].serial) \in systemDiskSerials
    BY <1>1, <1>2, <2>1 DEF systemDiskSerials
  <2>3. QED
    BY <1>1, <1>2, <2>2 DEF SystemDisk
<1>7. host[p].tran # "none"
  BY <1>1 DEF Merged, classifyTransport
<1>8. QED
  BY <1>3, <1>4, <1>5, <1>6, <1>7

(* A run begins on the disk its request names, if it is free: StartsOnlyOn-  *)
(* FreeDrives, for any host and any settings (guards.ts:44).                 *)
THEOREM BeginsOnFreeDrives == Spec => StartsOnlyOnFreeDrives
<1> DEFINE Free(p) == /\ ~Used(p)
                      /\ ~Named(p, typed) /\ ~Named(p, systemDisks)
                      /\ host[p].serial.name # ""
                      /\ host[p].tran # "none"
           Begins == \A run \in active' \ active : Free(run.path)
<1>1. ASSUME IntakeInv, NEW serial, NEW mode, NEW confirm, PostRun(serial, mode, confirm)
      PROVE  Begins
  <2> DEFINE d == FirstOf(listDevices(serial), serial)
  <2>1. serial \in Serials(listDevices(serial)) /\ checkRunAllowed(d, protectList) = "allowed"
    BY <1>1 DEF PostRun, Answer
  <2>2. d \in listDevices(serial) /\ d.serial = serial
    BY <1>1, <2>1, FirstIsListed DEF IntakeInv
  <2> HIDE DEF d
  <2>3. Free(d.path)
    BY <1>1, <2>1, <2>2, AllowedIsFree
  <2>4. \A run \in active' \ active : run.path = d.path
    BY <1>1 DEF PostRun, d
  <2>5. QED
    BY <2>3, <2>4
<1>2. ASSUME [Next]_vars, ~ \E serial, mode, confirm : PostRun(serial, mode, confirm)
      PROVE  active' \subseteq active
  BY <1>2 DEF Next, vars, PutSettings, GetDrives, RunEnds, WriterExits, HostChanges
<1>3. IntakeInv /\ [Next]_vars => [Begins]_vars
  BY <1>1, <1>2
<1>4. QED
  BY <1>3, IntakeKept, PTL DEF Spec, StartsOnlyOnFreeDrives, Free
-----------------------------------------------------------------------------
(* Two disks of one serial are one disk, if the serial is no other disk's. *)
LEMMA UniqueDisk ==
  ASSUME Numbered, NEW serial, Unique(serial), NEW p \in Paths, NEW q \in Paths,
         host[p].serial = serial, host[q].serial = serial
  PROVE  p = q
<1> DEFINE S == {x \in Paths : host[x].serial = serial}
<1>1. IsFiniteSet(S)
  <2>1. PICK n \in Nat : Paths = 1..n
    BY DEF Numbered
  <2>2. IsFiniteSet(1..n)
    BY <2>1, FS_Interval
  <2>3. QED
    BY <2>1, <2>2, FS_Subset
<1>2. Cardinality(S) \in Nat /\ Cardinality(S) <= 1
  BY <1>1, FS_CardinalityType DEF Unique
<1>3. p \in S /\ q \in S
  OBVIOUS
<1> HIDE DEF S
<1>4. Cardinality(S) = 1
  BY <1>1, <1>2, <1>3, FS_EmptySet
<1>5. PICK x : S = {x}
  BY <1>1, <1>4, FS_Singleton
<1>6. QED
  BY <1>3, <1>5

(* The list of drives and the start of a run meet the same disk. *)
LEMMA OneDrive ==
  ASSUME Numbered, NEW serial, Unique(serial),
         serial \in Serials(listDevices(Nobody))
  PROVE  LET shown == LastOf(listDevices(Nobody), serial)
             asked == FirstOf(listDevices(serial), serial)
         IN /\ serial \in Serials(listDevices(serial))
            /\ shown \in listDevices(Nobody) /\ asked \in listDevices(serial)
            /\ shown.serial = serial /\ asked.serial = serial
            /\ shown.path = asked.path
<1>1. PICK d \in listDevices(Nobody) : d.serial = serial
  BY DEF Serials
<1>2. \A e \in listDevices(Nobody) : e.serial = serial => e.path = d.path /\ d.path \in Nat
  <2>1. Paths \subseteq Nat
    BY DEF Numbered
  <2>2. \A e \in listDevices(Nobody) : e.path \in Paths /\ host[e.path].serial = e.serial
    BY ListedDrive
  <2>3. ASSUME NEW e \in listDevices(Nobody), e.serial = serial
        PROVE  e.path = d.path
    <3>1. /\ e.path \in Paths /\ host[e.path].serial = serial
          /\ d.path \in Paths /\ host[d.path].serial = serial
      BY <1>1, <2>2, <2>3
    <3>2. QED
      BY <3>1, UniqueDisk
  <2>4. d.path \in Nat
    BY <1>1, <2>1, <2>2
  <2>5. QED
    BY <2>3, <2>4
<1>3. LastOf(listDevices(Nobody), serial) \in Bearing(listDevices(Nobody), serial)
  <2>1. d \in Bearing(listDevices(Nobody), serial)
    BY <1>1 DEF Bearing
  <2>2. \A e \in Bearing(listDevices(Nobody), serial) : e.path <= d.path
    BY <1>2 DEF Bearing
  <2>3. QED
    BY <2>1, <2>2 DEF LastOf
<1>4. serial \in Serials(listDevices(serial))
  BY <1>1, ListedDrive, DiskIsListed
<1>5. /\ FirstOf(listDevices(serial), serial) \in listDevices(serial)
      /\ FirstOf(listDevices(serial), serial).serial = serial
  BY <1>4, FirstIsListed
<1>6. /\ LastOf(listDevices(Nobody), serial) \in listDevices(Nobody)
      /\ LastOf(listDevices(Nobody), serial).serial = serial
  BY <1>3 DEF Bearing
<1>7. LastOf(listDevices(Nobody), serial).path = FirstOf(listDevices(serial), serial).path
  BY <1>5, <1>6, ListedDrive, UniqueDisk
<1>8. QED
  BY <1>4, <1>5, <1>6, <1>7

(* What the list says of a drive nobody tests is what the start will say:   *)
(* ListAgreesWithGuard, for any host and any settings (drives.ts:60-61).     *)
THEOREM ListAgrees == Spec => []ListAgreesWithGuard
<1>1. ASSUME IntakeInv, NEW serial, Unique(serial), ~isDriveUnderTest(serial), serial.name # ""
      PROVE  Answer(serial, "destructive", serial) = "201"
               <=> ~Flagged(toDriveView(listDevices(Nobody), serial))
  <2> DEFINE here == serial \in Serials(listDevices(Nobody))
             v == toDriveView(listDevices(Nobody), serial)
             shown == LastOf(listDevices(Nobody), serial)
             asked == FirstOf(listDevices(serial), serial)
             ok == checkRunAllowed(asked, protectList) = "allowed"
  <2>1. serial # Blank /\ normalizeSerial(serial) # Blank
    <3>1. Blank.name = "" /\ normalizeSerial(serial).name = serial.name
      BY DEF Blank, Text, normalizeSerial
    <3>2. QED
      BY <1>1, <3>1
  <2>2. ASSUME serial \in Serials(listDevices(serial))
        PROVE  here
    <3>1. PICK d \in listDevices(serial) : d.serial = serial
      BY <2>2 DEF Serials
    <3>2. QED
      BY <3>1, ListedDrive, DiskIsListed
  <2>3. CASE ~here
    <3>1. Answer(serial, "destructive", serial) # "201"
      BY <1>1, <2>1, <2>2, <2>3 DEF Answer
    <3>2. Flagged(v)
      BY <2>3 DEF toDriveView, Flagged
    <3>3. QED
      BY <3>1, <3>2
  <2>4. CASE here
    <3>1. /\ serial \in Serials(listDevices(serial))
          /\ shown \in listDevices(Nobody) /\ asked \in listDevices(serial)
          /\ shown.serial = serial /\ asked.serial = serial
          /\ shown.path = asked.path
      BY <1>1, <2>4, OneDrive DEF IntakeInv
    <3> HIDE DEF shown, asked
    <3>2. /\ asked.mounted <=> shown.mounted
          /\ asked.isSystemDisk <=> shown.isSystemDisk
      BY <3>1, ListedDrive
    <3>3. asked.claim = shown.claim
      <4>1. /\ asked.claim = claim(asked.path, serial) /\ shown.claim = claim(shown.path, Nobody)
            /\ host[asked.path].serial = serial
        BY <3>1, ListedDrive
      <4>2. QED
        BY <1>1, <3>1, <4>1 DEF claim
    <3>4. Answer(serial, "destructive", serial) = "201" <=> ok
      BY <1>1, <2>1, <3>1 DEF Answer, asked
    <3>5. ok <=> /\ ~asked.isSystemDisk /\ ~asked.mounted /\ asked.claim # "claimed"
                 /\ ~isProtected(serial, protectList)
      BY <2>1, <3>1 DEF checkRunAllowed
    <3>6. Flagged(v) <=> \/ shown.mounted \/ shown.isSystemDisk \/ shown.claim = "claimed"
                         \/ isProtected(serial, protectList)
      BY <2>4 DEF toDriveView, Flagged, shown
    <3>7. QED
      BY <3>2, <3>3, <3>4, <3>5, <3>6
  <2>5. QED
    BY <2>3, <2>4
<1>2. IntakeInv => ListAgreesWithGuard
  <2> SUFFICES ASSUME IntakeInv, current, NEW v \in view, Unique(v.serial),
                      ~isDriveUnderTest(v.serial), v.serial.name # ""
               PROVE  Answer(v.serial, "destructive", v.serial) = "201" <=> ~Flagged(v)
    BY DEF ListAgreesWithGuard
  <2>1. PICK serial : v = toDriveView(listDevices(Nobody), serial)
    BY DEF IntakeInv, Fresh
  <2>2. v.serial = serial
    BY <2>1 DEF toDriveView
  <2>3. QED
    BY <1>1, <2>1, <2>2
<1>3. QED
  BY <1>2, IntakeKept, PTL
====
