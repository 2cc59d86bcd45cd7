------------------------------ MODULE Semaphore ------------------------------
(***************************************************************************)
(* The counting semaphore of engine/semaphore.ts: TestEngine runs at most  *)
(* Max regimes at a time, the others wait in arrival order.                *)
(*                                                                         *)
(* A task is one dispatched run: it calls acquire() once and the closure   *)
(* it gets back once, in a finally.  The closure is idempotent, so the     *)
(* permits that are out are exactly the set of tasks that hold one.        *)
(***************************************************************************)
EXTENDS Naturals, Sequences, FiniteSets

CONSTANTS Tasks,        \* the tasks that may acquire
          Max           \* permits, from config.concurrency

ASSUME MaxAssumption == Max \in Nat \ {0}

VARIABLES available,    \* permits nobody holds
          queue,        \* tasks whose acquire() has not resolved, oldest first
          holders       \* tasks whose acquire() resolved and who have not released

semVars == <<available, queue, holders>>

Waiting == {queue[i] : i \in DOMAIN queue}

SemInit ==
  /\ available = Max
  /\ queue = <<>>
  /\ holders = {}

(* Seeded fault: the queue is a stack. *)
AcquireLIFO(t) ==
  \/ /\ available > 0
     /\ available' = available - 1
     /\ holders' = holders \cup {t}
     /\ UNCHANGED queue
  \/ /\ available = 0
     /\ queue' = <<t>> \o queue
     /\ UNCHANGED <<available, holders>>

(***************************************************************************)
(* acquire(): take a permit if one is free, else join the queue's tail.    *)
(***************************************************************************)
Acquire(t) ==
  \/ /\ available > 0
     /\ available' = available - 1
     /\ holders' = holders \cup {t}
     /\ UNCHANGED queue
  \/ /\ available = 0
     /\ queue' = Append(queue, t)
     /\ UNCHANGED <<available, holders>>

(* Seeded fault: the closure is not idempotent. *)
ReleaseTwice(t) ==
  \/ /\ queue # <<>>
     /\ queue' = Tail(queue)
     /\ holders' = (holders \ {t}) \cup {Head(queue)}
     /\ UNCHANGED available
  \/ /\ queue = <<>>
     /\ available < Max + 2
     /\ available' = available + 1
     /\ holders' = holders \ {t}
     /\ UNCHANGED queue

(***************************************************************************)
(* The closure createRelease() returns: hand the permit to the oldest      *)
(* waiter, or put it back.  `released` makes a second call do nothing.     *)
(***************************************************************************)
Release(t) ==
  /\ t \in holders
  /\ \/ /\ queue # <<>>
        /\ queue' = Tail(queue)
        /\ holders' = (holders \ {t}) \cup {Head(queue)}
        /\ UNCHANGED available
     \/ /\ queue = <<>>
        /\ available' = available + 1
        /\ holders' = holders \ {t}
        /\ UNCHANGED queue

(* The process died and a new one built a new semaphore. *)
Rebuild ==
  /\ available' = Max
  /\ queue' = <<>>
  /\ holders' = {}

SemNext ==
  \/ \E t \in Tasks \ (holders \cup Waiting) : Acquire(t)
  \/ \E t \in Tasks : Release(t)
  \/ Rebuild

SemSafety == SemInit /\ [][SemNext]_semVars

(* A holder reaches its finally: every stage ends (see TestEngine). *)
SemFairness == \A t \in Tasks : WF_semVars(Release(t))

SemSpec == SemSafety /\ SemFairness
-----------------------------------------------------------------------------
SemTypeOK ==
  /\ available \in 0..Max
  /\ queue \in Seq(Tasks)
  /\ holders \in SUBSET Tasks

(***************************************************************************)
(* Permits are conserved: none is lost on the hand-over to a waiter, none  *)
(* is minted by releasing twice (semaphore.ts:31-47).                      *)
(***************************************************************************)
PermitsConserved == available + Cardinality(holders) = Max

(***************************************************************************)
(* A permit is never idle while a task waits (the else of                  *)
(* semaphore.ts:41-45 runs only when the queue is empty).                  *)
(***************************************************************************)
NoIdlePermit == queue # <<>> => available = 0

(***************************************************************************)
(* No waiter starves, although tasks keep arriving behind it.              *)
(***************************************************************************)
NoStarvation == \A t \in Tasks : (t \in Waiting) ~> (t \notin Waiting)
=============================================================================
