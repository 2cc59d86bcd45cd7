--------------------------- MODULE SemaphoreProofs ---------------------------
(***************************************************************************)
(* The semaphore keeps its invariant for every number of permits and every *)
(* set of tasks.  The two step lemmas are stated for a single call, so     *)
(* that the proofs about TestEngine use them for its acquires and releases.*)
(***************************************************************************)
EXTENDS Semaphore, FiniteSetTheorems, TLAPS

NoDuplicates == \A i, j \in DOMAIN queue : queue[i] = queue[j] => i = j

(* The inductive invariant: conservation needs to know that the waiter who  *)
(* is woken does not hold a permit yet, hence disjointness; disjointness    *)
(* needs that nobody waits twice.                                           *)
SemInv ==
  /\ SemTypeOK
  /\ IsFiniteSet(holders)
  /\ PermitsConserved
  /\ NoIdlePermit
  /\ holders \cap Waiting = {}
  /\ NoDuplicates

(* A fresh semaphore satisfies the invariant. *)
LEMMA InitSemInv ==
  ASSUME SemInit
  PROVE  SemInv
<1>1. IsFiniteSet({}) /\ Cardinality({}) = 0
  BY FS_EmptySet
<1>2. QED
  BY <1>1, MaxAssumption
  DEF SemInit, SemInv, SemTypeOK, PermitsConserved, NoIdlePermit, Waiting, NoDuplicates

(* acquire() by a task that neither holds nor waits: it does one of both *)
(* afterwards, and nobody else moves.                                    *)
LEMMA AcquireStep ==
  ASSUME SemInv, NEW t \in Tasks, t \notin holders \cup Waiting, Acquire(t)
  PROVE  /\ SemInv'
         /\ (holders \cup Waiting)' = holders \cup Waiting \cup {t}
         /\ holders \subseteq holders'
<1> USE DEF SemInv, SemTypeOK, PermitsConserved, NoIdlePermit, NoDuplicates, Waiting
<1>1. CASE available > 0
  <2>1. /\ available' = available - 1
        /\ holders' = holders \cup {t}
        /\ queue' = queue
    BY <1>1 DEF Acquire
  <2>2. IsFiniteSet(holders') /\ Cardinality(holders') = Cardinality(holders) + 1
    BY <2>1, FS_AddElement
  <2>3. Cardinality(holders) \in Nat
    BY FS_CardinalityType
  <2>4. QED
    BY <1>1, <2>1, <2>2, <2>3, MaxAssumption
<1>2. CASE available = 0
  <2>1. /\ available' = 0
        /\ holders' = holders
        /\ queue' = Append(queue, t)
    BY <1>2 DEF Acquire
  <2>2. /\ queue' \in Seq(Tasks)
        /\ DOMAIN queue' = 1..Len(queue) + 1
        /\ DOMAIN queue = 1..Len(queue)
        /\ Len(queue) \in Nat
        /\ \A i \in 1..Len(queue) : queue'[i] = queue[i]
        /\ queue'[Len(queue) + 1] = t
    BY <2>1
  <2>3. Waiting' = Waiting \cup {t}
    BY <2>2
  <2>4. NoDuplicates'
    BY <2>2
  <2>5. QED
    BY <1>2, <2>1, <2>2, <2>3, <2>4, MaxAssumption
<1>3. QED
  BY <1>1, <1>2 DEF Acquire

(* A release: the task holds and waits no longer, and every other holder *)
(* keeps its permit.                                                     *)
LEMMA ReleaseStep ==
  ASSUME SemInv, NEW t \in Tasks, Release(t)
  PROVE  /\ SemInv'
         /\ (holders \cup Waiting)' = (holders \cup Waiting) \ {t}
         /\ holders \ {t} \subseteq holders'
<1> USE DEF SemInv, SemTypeOK, PermitsConserved, NoIdlePermit, NoDuplicates, Waiting
<1>0. t \in holders /\ t \notin Waiting
  BY DEF Release
<1>1. /\ IsFiniteSet(holders \ {t})
      /\ Cardinality(holders \ {t}) = Cardinality(holders) - 1
      /\ Cardinality(holders) \in Nat
  BY <1>0, FS_RemoveElement, FS_CardinalityType
<1>2. CASE queue # <<>>
  <2>1. /\ available' = available
        /\ holders' = (holders \ {t}) \cup {Head(queue)}
        /\ queue' = Tail(queue)
    BY <1>2 DEF Release
  <2>2. /\ queue' \in Seq(Tasks)
        /\ Head(queue) = queue[1]
        /\ Len(queue) \in Nat \ {0}
        /\ DOMAIN queue = 1..Len(queue)
        /\ DOMAIN queue' = 1..Len(queue) - 1
        /\ \A i \in 1..Len(queue) - 1 : queue'[i] = queue[i + 1]
    BY <1>2, <2>1
  <2>3. Head(queue) \in Waiting /\ Head(queue) \in Tasks
    BY <2>2
  <2>4. Head(queue) \notin holders
    BY <2>3
  <2>5. /\ IsFiniteSet(holders')
        /\ Cardinality(holders') = Cardinality(holders)
    <3>1. Head(queue) \notin holders \ {t}
      BY <2>4
    <3>2. /\ IsFiniteSet((holders \ {t}) \cup {Head(queue)})
          /\ Cardinality((holders \ {t}) \cup {Head(queue)}) = Cardinality(holders \ {t}) + 1
      BY <1>1, <3>1, FS_AddElement
    <3>3. QED
      BY <1>1, <2>1, <3>2
  <2>6. Waiting' = Waiting \ {Head(queue)}
    <3>1. ASSUME NEW x \in Waiting, x # Head(queue)
          PROVE  x \in Waiting'
      <4>1. PICK i \in 1..Len(queue) : queue[i] = x
        BY <2>2, <3>1
      <4>2. i - 1 \in 1..Len(queue) - 1 /\ queue'[i - 1] = x
        BY <2>2, <3>1, <4>1
      <4>3. QED
        BY <2>2, <4>2
    <3>2. ASSUME NEW x \in Waiting'
          PROVE  x \in Waiting \ {Head(queue)}
      <4>1. PICK i \in 1..Len(queue) - 1 : queue[i + 1] = x
        BY <2>2, <3>2
      <4>2. QED
        BY <2>2, <4>1
    <3>3. QED
      BY <3>1, <3>2
  <2>7. NoDuplicates'
    BY <2>2
  <2>8. QED
    BY <1>0, <1>2, <2>1, <2>2, <2>3, <2>5, <2>6, <2>7
<1>3. CASE queue = <<>>
  <2>1. /\ available' = available + 1
        /\ holders' = holders \ {t}
        /\ queue' = queue
    BY <1>3 DEF Release
  <2>2. /\ IsFiniteSet(holders')
        /\ Cardinality(holders') = Cardinality(holders) - 1
    BY <1>1, <2>1
  <2>3. Cardinality(holders') \in Nat
    BY <2>2, FS_CardinalityType
  <2>4. /\ available' + Cardinality(holders') = Max
        /\ available' \in 0..Max
    BY <1>1, <2>1, <2>2, <2>3, MaxAssumption
  <2>5. QED
    BY <1>0, <1>3, <2>1, <2>2, <2>4
<1>4. QED
  BY <1>2, <1>3

(* A new process starts from the invariant. *)
LEMMA RebuildStep ==
  ASSUME Rebuild
  PROVE  SemInv'
<1>1. IsFiniteSet({}) /\ Cardinality({}) = 0
  BY FS_EmptySet
<1>2. QED
  BY <1>1, MaxAssumption
  DEF Rebuild, SemInv, SemTypeOK, PermitsConserved, NoIdlePermit, Waiting, NoDuplicates

(* The semaphore's invariant, for every Max and every set of tasks. *)
THEOREM SemInvariant == SemSpec => []SemInv
<1>1. SemInit => SemInv
  BY InitSemInv
<1>2. SemInv /\ [SemNext]_semVars => SemInv'
  <2> SUFFICES ASSUME SemInv, [SemNext]_semVars
               PROVE  SemInv'
    OBVIOUS
  <2>1. ASSUME NEW t \in Tasks \ (holders \cup Waiting), Acquire(t)
        PROVE  SemInv'
    BY <2>1, AcquireStep
  <2>2. ASSUME NEW t \in Tasks, Release(t)
        PROVE  SemInv'
    BY <2>2, ReleaseStep
  <2>3. ASSUME Rebuild
        PROVE  SemInv'
    BY <2>3, RebuildStep
  <2>4. ASSUME UNCHANGED semVars
        PROVE  SemInv'
    BY <2>4
    DEF semVars, SemInv, SemTypeOK, PermitsConserved, NoIdlePermit, Waiting, NoDuplicates
  <2>5. QED
    BY <2>1, <2>2, <2>3, <2>4 DEF SemNext
<1>3. QED
  BY <1>1, <1>2, PTL DEF SemSpec, SemSafety

(* No permit is lost or minted, whatever the calls and restarts. *)
THEOREM Conservation == SemSpec => []PermitsConserved
<1>1. SemInv => PermitsConserved
  BY DEF SemInv
<1>2. QED
  BY <1>1, SemInvariant, PTL

(* No permit is idle while a task waits. *)
THEOREM NoIdle == SemSpec => []NoIdlePermit
<1>1. SemInv => NoIdlePermit
  BY DEF SemInv
<1>2. QED
  BY <1>1, SemInvariant, PTL
=============================================================================
