------------------------------- MODULE MCIntake -------------------------------
(***************************************************************************)
(* A host with two disks: the first takes every shape discovery tells      *)
(* apart, the second is a plain SATA drive that may bear the same serial.  *)
(***************************************************************************)
EXTENDS Intake

A == Text("A", "plain")
a == Text("A", "odd")
B == Text("B", "plain")
Spaces == Text("", "odd")

Mount(depth, point) == [depth |-> depth, point |-> point]

Disk(serial, tran, mounts, scanned) ==
  [type |-> "disk", serial |-> serial, tran |-> tran, mounts |-> mounts,
   scanned |-> scanned, errno |-> "none"]

Plain(serial) == Disk(serial, "sata", {}, "device")

FirstDisks ==
  {Disk(serial, tran, mounts, scanned) :
     serial \in {NoText, Spaces, A, a}, tran \in {"sata", "nvme", "none"},
     mounts \in {{}, {Mount(2, "/")}, {Mount(1, "/data")}},
     scanned \in {"device", "controller", "no"}}
  \union {[Plain(A) EXCEPT !.type = "loop"]}

MCHosts == {<<d1, d2>> : d1 \in FirstDisks, d2 \in {Plain(A), Plain(B)}}
MCTypedLists == {<< >>, <<a>>, <<Spaces, a, A>>, <<B>>}
MCSystemSerials == {<< >>, <<Spaces, a>>}
MCRequested == {A, a, Spaces, B, Blank}
=============================================================================
