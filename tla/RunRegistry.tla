----------------------------- MODULE RunRegistry -----------------------------
(***************************************************************************)
(* What the engine promises about runs, whatever it does inside: a drive   *)
(* has at most one run being worked on, a run is finished at most once, and*)
(* a run that is not finished may be taken up again after a restart.       *)
(* TestEngine implements this with dispatched <- controllers.              *)
(***************************************************************************)
EXTENDS Naturals

CONSTANTS Runs, Drives, NoDrive

VARIABLES driveOf,      \* run -> drive, NoDrive before it is created
          status,       \* run -> status, NoDrive before it is created
          dispatched    \* runs a task of the living process works on

registry == <<driveOf, status, dispatched>>

Unfinished == {"PENDING", "RUNNING"}
Finished == {"DONE", "FAILED", "ABORTED"}

Busy == {driveOf[r] : r \in dispatched}

RegistryInit ==
  /\ driveOf = [r \in Runs |-> NoDrive]
  /\ status = [r \in Runs |-> NoDrive]
  /\ dispatched = {}

(* A request creates a run for a drive nobody works on. *)
Create(r, d) ==
  /\ status[r] = NoDrive
  /\ d \notin Busy
  /\ driveOf' = [driveOf EXCEPT ![r] = d]
  /\ status' = [status EXCEPT ![r] = "PENDING"]

Admit(r, d) == Create(r, d) /\ dispatched' = dispatched \cup {r}

(* A database error strands the row: no task works on it. *)
Strand(r, d) == Create(r, d) /\ UNCHANGED dispatched

Work(r) ==
  /\ r \in dispatched
  /\ status[r] \in Unfinished
  /\ status' = [status EXCEPT ![r] = "RUNNING"]
  /\ UNCHANGED <<driveOf, dispatched>>

Finish(r, outcome) ==
  /\ r \in dispatched
  /\ status[r] \in Unfinished
  /\ status' = [status EXCEPT ![r] = outcome]
  /\ dispatched' = dispatched \ {r}
  /\ UNCHANGED driveOf

Drop(r) ==
  /\ r \in dispatched
  /\ dispatched' = dispatched \ {r}
  /\ UNCHANGED <<driveOf, status>>

Resume(r) ==
  /\ status[r] \in Unfinished
  /\ driveOf[r] \notin Busy
  /\ dispatched' = dispatched \cup {r}
  /\ UNCHANGED <<driveOf, status>>

Die == dispatched' = {} /\ UNCHANGED <<driveOf, status>>

RegistryNext ==
  \/ \E r \in Runs :
       \/ \E d \in Drives : Admit(r, d) \/ Strand(r, d)
       \/ Work(r)
       \/ \E outcome \in Finished : Finish(r, outcome)
       \/ Drop(r)
       \/ Resume(r)
  \/ Die

RegistrySpec == RegistryInit /\ [][RegistryNext]_registry
=============================================================================
