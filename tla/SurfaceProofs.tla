---------------------------- MODULE SurfaceProofs ----------------------------
(***************************************************************************)
(* The surface process, for any number of scans, any timing of the         *)
(* signals, timers and events, and a process that no signal reaches: two   *)
(* badblocks never write one drive, no stray signal is sent, the progress  *)
(* shown is the progress made, and the blocks can be numbered.             *)
(***************************************************************************)
EXTENDS SurfaceProcess, WellFoundedInduction, TLAPS

CallStates == {"idle", "cleared", "open", "finishing", "resolved"}
ChildStates == {"none", "failed", "alive", "stuck", "exited", "closed"}

(* The state the argument is about. *)
ControlOK ==
  /\ call \in [Scans -> CallStates]
  /\ child \in [Scans -> ChildStates]
  /\ signals \in [Scans -> SUBSET {"SIGTERM", "SIGKILL"}]
  /\ timers \in [Scans -> SUBSET {"kill", "abandon"}]
  /\ abandonedWriters \in Scans \cup {Null}

(* Scans follow each other, and none has a process before it spawns one. *)
InOrder ==
  /\ \A i, j \in Scans : j < i /\ call[i] # "idle" => call[j] = "resolved"
  /\ \A i \in Scans : call[i] \in {"idle", "cleared"} => child[i] = "none"
  /\ \A i \in Scans : timers[i] # {} => call[i] = "open"
  /\ \A i \in Scans : child[i] = "closed" => call[i] # "open"

(* What lives is of the open scan, or remembered, with no event left that *)
(* could make the record disappear.                                       *)
Accounted ==
  \A i \in Scans : Living(i) =>
    \/ /\ call[i] = "open"
       /\ abandonedWriters = Null
    \/ /\ call[i] \in {"finishing", "resolved"}
       /\ abandonedWriters = i
       /\ \A j \in Scans : child[j] \notin {"failed", "exited"}

(* A path cleared for a scan, or being scanned, has no process of another and *)
(* no record of one.                                                          *)
Vacant ==
  \A i \in Scans :
    /\ child[i] = "failed" => call[i] = "open"
    /\ call[i] \in {"cleared", "open"} =>
         abandonedWriters = Null /\ \A j \in Scans : Living(j) => j = i

IInv == ControlOK /\ InOrder /\ Accounted /\ Vacant

LEMMA InitAccounted == Init => IInv
  BY DEF Init, IInv, ControlOK, InOrder, Accounted, Vacant, Living, CallStates, ChildStates

(* The strengthening says it: of two live processes, each is of the open scan *)
(* or the remembered one, and an open scan tolerates no other.                *)
LEMMA AccountedIsOne == IInv => OneWriter
<1> SUFFICES ASSUME IInv, NEW i \in Scans, NEW j \in Scans, Living(i), Living(j)
             PROVE  i = j
  BY DEF OneWriter
<1>1. CASE call[i] = "open"
  BY <1>1 DEF IInv, Vacant
<1>2. CASE call[j] = "open"
  BY <1>2 DEF IInv, Vacant
<1>3. CASE abandonedWriters = i /\ abandonedWriters = j
  BY <1>3
<1> QED
  BY <1>1, <1>2, <1>3 DEF IInv, Accounted

LEMMA StepAccounted == IInv /\ [Next]_vars => IInv'
<1> SUFFICES ASSUME IInv, [Next]_vars
             PROVE  IInv'
  OBVIOUS
<1> USE DEF process, progress, Living
<1>0. \A i \in Scans : i \in Int /\ i # Null
  BY DEF Scans, Null
<1>1. ASSUME NEW i \in Scans, Recheck(i)
      PROVE  IInv'
  <2>1. ControlOK'
    BY <1>0, <1>1 DEF Recheck, IInv, ControlOK, CallStates, ChildStates
  <2>2. ASSUME NEW j \in Scans, j # i
        PROVE  call[j] \in {"idle", "resolved"}
    <3>1. j < i => j \in 1..i-1
      BY <1>0 DEF Scans
    <3>2. j > i => call[j] = "idle"
      BY <1>0, <1>1 DEF Recheck, IInv, InOrder
    <3> QED
      BY <3>1, <3>2, <2>2, <1>0, <1>1 DEF Recheck
  <2>3. \A j \in Scans : ~Living(j)
    BY <1>0, <1>1, <2>2 DEF Recheck, IInv, ControlOK, Accounted, InOrder
  <2>4. \A j \in Scans : j < i => call[j] = "resolved"
    BY <1>0, <1>1 DEF Recheck, Scans
  <2>5. InOrder'
    BY <1>0, <1>1, <2>3, <2>4 DEF Recheck, IInv, ControlOK, InOrder
  <2>6. Accounted'
    BY <1>0, <1>1, <2>3, <2>4 DEF Recheck, IInv, ControlOK, InOrder, Accounted, Vacant
  <2>7. Vacant'
    BY <1>0, <1>1, <2>3, <2>4 DEF Recheck, IInv, ControlOK, InOrder, Accounted, Vacant
  <2> QED
    BY <2>1, <2>5, <2>6, <2>7 DEF IInv
<1>2. ASSUME NEW i \in Scans, RunSurfaceTest(i)
      PROVE  IInv'
  <2>1. ControlOK'
    BY <1>0, <1>2 DEF RunSurfaceTest, IInv, ControlOK, CallStates, ChildStates
  <2>2. InOrder'
    BY <1>0, <1>2 DEF RunSurfaceTest, IInv, ControlOK, InOrder
  <2>3. Accounted'
    BY <1>0, <1>2 DEF RunSurfaceTest, IInv, ControlOK, InOrder, Accounted, Vacant
  <2>4. Vacant'
    BY <1>0, <1>2 DEF RunSurfaceTest, IInv, ControlOK, InOrder, Accounted, Vacant
  <2> QED
    BY <2>1, <2>2, <2>3, <2>4 DEF IInv
<1>3. ASSUME NEW i \in Scans, Resolve(i)
      PROVE  IInv'
  <2>1. ControlOK'
    BY <1>0, <1>3 DEF Resolve, IInv, ControlOK, CallStates, ChildStates
  <2>2. InOrder'
    BY <1>0, <1>3 DEF Resolve, IInv, ControlOK, InOrder
  <2>3. Accounted'
    BY <1>0, <1>3 DEF Resolve, IInv, ControlOK, InOrder, Accounted, Vacant
  <2>4. Vacant'
    BY <1>0, <1>3 DEF Resolve, IInv, ControlOK, InOrder, Accounted, Vacant
  <2> QED
    BY <2>1, <2>2, <2>3, <2>4 DEF IInv
<1>4. ASSUME NEW i \in Scans, Abort(i)
      PROVE  IInv'
  <2>1. ControlOK'
    BY <1>0, <1>4 DEF Abort, IInv, ControlOK, CallStates, ChildStates
  <2>2. InOrder'
    BY <1>0, <1>4 DEF Abort, IInv, ControlOK, InOrder
  <2>3. Accounted'
    BY <1>0, <1>4 DEF Abort, IInv, ControlOK, InOrder, Accounted, Vacant
  <2>4. Vacant'
    BY <1>0, <1>4 DEF Abort, IInv, ControlOK, InOrder, Accounted, Vacant
  <2> QED
    BY <2>1, <2>2, <2>3, <2>4 DEF IInv
<1>5. ASSUME NEW i \in Scans, KillFires(i)
      PROVE  IInv'
  <2>1. ControlOK'
    BY <1>0, <1>5 DEF KillFires, IInv, ControlOK, CallStates, ChildStates
  <2>2. InOrder'
    BY <1>0, <1>5 DEF KillFires, IInv, ControlOK, InOrder
  <2>3. Accounted'
    BY <1>0, <1>5 DEF KillFires, IInv, ControlOK, InOrder, Accounted, Vacant
  <2>4. Vacant'
    BY <1>0, <1>5 DEF KillFires, IInv, ControlOK, InOrder, Accounted, Vacant
  <2> QED
    BY <2>1, <2>2, <2>3, <2>4 DEF IInv
<1>6. ASSUME NEW i \in Scans, AbandonFires(i)
      PROVE  IInv'
  <2>1. ControlOK'
    BY <1>0, <1>6 DEF AbandonFires, AbandonDue, Finish, IInv, ControlOK, CallStates, ChildStates
  <2>2. InOrder'
    BY <1>0, <1>6 DEF AbandonFires, AbandonDue, Finish, IInv, ControlOK, InOrder
  <2>3. Accounted'
    BY <1>0, <1>6 DEF AbandonFires, AbandonDue, Finish, IInv, ControlOK, InOrder, Accounted, Vacant
  <2>4. Vacant'
    BY <1>0, <1>6 DEF AbandonFires, AbandonDue, Finish, IInv, ControlOK, InOrder, Accounted, Vacant
  <2> QED
    BY <2>1, <2>2, <2>3, <2>4 DEF IInv
<1>7. ASSUME NEW i \in Scans, SpawnError(i)
      PROVE  IInv'
  <2>1. ControlOK'
    BY <1>0, <1>7 DEF SpawnError, Finish, IInv, ControlOK, CallStates, ChildStates
  <2>2. InOrder'
    BY <1>0, <1>7 DEF SpawnError, Finish, IInv, ControlOK, InOrder
  <2>3. Accounted'
    BY <1>0, <1>7 DEF SpawnError, Finish, IInv, ControlOK, InOrder, Accounted, Vacant
  <2>4. Vacant'
    BY <1>0, <1>7 DEF SpawnError, Finish, IInv, ControlOK, InOrder, Accounted, Vacant
  <2> QED
    BY <2>1, <2>2, <2>3, <2>4 DEF IInv
<1>8. ASSUME NEW i \in Scans, Close(i)
      PROVE  IInv'
  <2>1. ControlOK'
    BY <1>0, <1>8 DEF Close, Finish, IInv, ControlOK, CallStates, ChildStates
  <2>2. InOrder'
    BY <1>0, <1>8 DEF Close, Finish, IInv, ControlOK, InOrder
  <2>3. Accounted'
    BY <1>0, <1>8 DEF Close, Finish, IInv, ControlOK, InOrder, Accounted, Vacant
  <2>4. Vacant'
    BY <1>0, <1>8 DEF Close, Finish, IInv, ControlOK, InOrder, Accounted, Vacant
  <2> QED
    BY <2>1, <2>2, <2>3, <2>4 DEF IInv
<1>9. ASSUME NEW i \in Scans, StderrData(i)
      PROVE  IInv'
  <2>1. ControlOK'
    BY <1>0, <1>9 DEF StderrData, IInv, ControlOK, CallStates, ChildStates
  <2>2. InOrder'
    BY <1>0, <1>9 DEF StderrData, IInv, ControlOK, InOrder
  <2>3. Accounted'
    BY <1>0, <1>9 DEF StderrData, IInv, ControlOK, InOrder, Accounted, Vacant
  <2>4. Vacant'
    BY <1>0, <1>9 DEF StderrData, IInv, ControlOK, InOrder, Accounted, Vacant
  <2> QED
    BY <2>1, <2>2, <2>3, <2>4 DEF IInv
<1>10. ASSUME NEW i \in Scans, ProcessSticks(i)
      PROVE  IInv'
  <2>1. ControlOK'
    BY <1>0, <1>10 DEF ProcessSticks, IInv, ControlOK, CallStates, ChildStates
  <2>2. InOrder'
    BY <1>0, <1>10 DEF ProcessSticks, IInv, ControlOK, InOrder
  <2>3. Accounted'
    BY <1>0, <1>10 DEF ProcessSticks, IInv, ControlOK, InOrder, Accounted, Vacant
  <2>4. Vacant'
    BY <1>0, <1>10 DEF ProcessSticks, IInv, ControlOK, InOrder, Accounted, Vacant
  <2> QED
    BY <2>1, <2>2, <2>3, <2>4 DEF IInv
<1>11. ASSUME NEW i \in Scans, ProcessExits(i)
      PROVE  IInv'
  <2>1. ControlOK'
    BY <1>0, <1>11 DEF ProcessExits, IInv, ControlOK, CallStates, ChildStates
  <2>2. InOrder'
    BY <1>0, <1>11 DEF ProcessExits, IInv, ControlOK, InOrder
  <2>3. Accounted'
    BY <1>0, <1>11 DEF ProcessExits, IInv, ControlOK, InOrder, Accounted, Vacant
  <2>4. Vacant'
    BY <1>0, <1>11 DEF ProcessExits, IInv, ControlOK, InOrder, Accounted, Vacant
  <2> QED
    BY <2>1, <2>2, <2>3, <2>4 DEF IInv
<1>12. CASE UNCHANGED vars
  BY <1>12 DEF vars, IInv, ControlOK, InOrder, Accounted, Vacant
<1> QED
  BY <1>1, <1>2, <1>3, <1>4, <1>5, <1>6, <1>7, <1>8, <1>9, <1>10, <1>11, <1>12 DEF Next

(***************************************************************************)
(* Two badblocks never write one drive (device/realDeviceApi.ts:141-184,   *)
(* 440-448).                                                               *)
(***************************************************************************)
THEOREM SingleSurfaceProcess == Spec => []OneWriter
<1>1. Spec => []IInv
  BY InitAccounted, StepAccounted, PTL DEF Spec
<1> QED
  BY <1>1, AccountedIsOne, PTL

(***************************************************************************)
(* No timer of a settled scan signals a pid (device/realDeviceApi.ts:481-  *)
(* 484).                                                                   *)
(***************************************************************************)
THEOREM StraySignals == Spec => NoStraySignal
<1>1. Spec => []IInv
  BY InitAccounted, StepAccounted, PTL DEF Spec
<1> DEFINE OwnSignal == \A i \in Scans :
             signals'[i] # signals[i] => call[i] = "open" /\ child[i] # "closed"
<1>2. ASSUME IInv, [Next]_vars
      PROVE  [OwnSignal]_vars
  <2> USE <1>2 DEF process, progress
  <2>1. ASSUME NEW i \in Scans, Abort(i)
        PROVE  OwnSignal
    BY <2>1 DEF Abort, IInv, ControlOK, InOrder
  <2>2. ASSUME NEW i \in Scans, KillFires(i)
        PROVE  OwnSignal
    BY <2>2 DEF KillFires, IInv, ControlOK, InOrder
  <2>3. ASSUME signals' = signals
        PROVE  OwnSignal
    BY <2>3
  <2> QED
    BY <2>1, <2>2, <2>3 DEF Next, Recheck, RunSurfaceTest, Resolve, AbandonFires, SpawnError,
       Close, StderrData, ProcessSticks, ProcessExits, vars
<1> QED
  BY <1>1, <1>2, PTL DEF Spec, NoStraySignal
-----------------------------------------------------------------------------
(***************************************************************************)
(* The two functions defined by recursion: the doubled block size, and the *)
(* tracker over a chunk of readings.                                       *)
(***************************************************************************)
(* Induction on the natural numbers up to n, for a set. *)
LEMMA UpTo ==
  ASSUME NEW n \in Nat, NEW S, 0 \in S, \A k \in 1..n : k - 1 \in S => k \in S
  PROVE  \A k \in 0..n : k \in S
<1> DEFINE Missing == {k \in 0..n : k \notin S}
           R == OpToRel(<, Nat)
<1>1. Missing \subseteq Nat
  OBVIOUS
<1>2. ASSUME Missing # {} PROVE FALSE
  <2>1. PICK k \in Missing : \A j \in Missing : ~ (<<j, k>> \in R)
    <3>1. IsWellFoundedOn(R, Nat)
      BY NatLessThanWellFounded
    <3> HIDE DEF R, Missing
    <3>2. QED
      BY <1>1, <1>2, <3>1, WFMin
  <2>2. k # 0 /\ k \in 1..n /\ k - 1 \in 0..n
    <3>1. k \in 0..n /\ k \notin S
      BY <2>1
    <3>2. k # 0
      BY <3>1
    <3>3. QED
      BY <3>1, <3>2
  <2>3. k - 1 \in S
    <3>1. k - 1 \in Missing => ~ (k - 1 < k)
      BY <1>1, <2>1 DEF OpToRel
    <3>2. QED
      BY <2>2, <3>1
  <2>4. QED
    BY <2>1, <2>2, <2>3
<1>3. QED
  BY <1>2

(* What is defined step by step, over the numbers up to n, exists. *)
LEMMA StepByStep ==
  ASSUME NEW n \in Nat, NEW S, NEW base \in S, NEW step \in [1..n -> [S -> S]]
  PROVE  \E f \in [0..n -> S] :
           f[0] = base /\ \A k \in 1..n : f[k] = step[k][f[k - 1]]
<1> DEFINE Steps(f, m) == /\ f \in [0..m -> S] /\ f[0] = base
                          /\ \A k \in 1..m : f[k] = step[k][f[k - 1]]
           T == {m \in 0..n : \E f : Steps(f, m)}
<1>1. 0 \in T
  <2>1. Steps([k \in 0..0 |-> base], 0)
    OBVIOUS
  <2> HIDE DEF Steps
  <2>2. QED
    BY <2>1
<1>2. ASSUME NEW m \in 1..n, m - 1 \in T
      PROVE  m \in T
  <2>1. PICK f : Steps(f, m - 1)
    BY <1>2
  <2> DEFINE x == step[m][f[m - 1]]
             g == [k \in 0..m |-> IF k = m THEN x ELSE f[k]]
  <2>2. m - 1 \in 0..(m - 1) /\ f[m - 1] \in S /\ x \in S
    BY <2>1
  <2> HIDE DEF x
  <2>3. /\ g \in [0..m -> S] /\ g[m] = x
        /\ \A k \in 0..(m - 1) : g[k] = f[k]
    BY <2>1, <2>2
  <2> HIDE DEF g
  <2>4. g[0] = base
    BY <2>1, <2>3
  <2>5. ASSUME NEW k \in 1..m
        PROVE  g[k] = step[k][g[k - 1]]
    <3>1. CASE k = m
      BY <2>2, <2>3, <3>1 DEF x
    <3>2. CASE k # m
      <4>1. k \in 1..(m - 1) /\ k \in 0..(m - 1) /\ k - 1 \in 0..(m - 1)
        BY <3>2
      <4>2. QED
        BY <2>1, <2>3, <4>1
    <3>3. QED
      BY <3>1, <3>2
  <2>6. Steps(g, m)
    BY <2>3, <2>4, <2>5
  <2> HIDE DEF Steps
  <2>7. QED
    BY <2>6
<1>3. n \in T
  <2> HIDE DEF T
  <2>1. \A k \in 0..n : k \in T
    BY <1>1, <1>2, UpTo
  <2>2. QED
    BY <2>1
<1>4. QED
  BY <1>3

LEMMA BlockSizes ==
  /\ BlockSize[0] = BlockFloor
  /\ \A k \in 0..MaxDoublings : BlockSize[k] \in Nat \ {0}
  /\ \A k \in 1..MaxDoublings : BlockSize[k] = 2 * BlockSize[k - 1]
<1> DEFINE S == Nat \ {0}
           step == [k \in 1..MaxDoublings |-> [x \in S |-> 2 * x]]
           D == 0..MaxDoublings
<1>1. MaxDoublings \in Nat /\ BlockFloor \in S
  BY SurfaceAssumption
<1>2. step \in [1..MaxDoublings -> [S -> S]]
  OBVIOUS
<1>3. PICK f \in [D -> S] :
        f[0] = BlockFloor /\ \A k \in 1..MaxDoublings : f[k] = step[k][f[k - 1]]
  <2> HIDE DEF step, S
  <2>1. \E f \in [0..MaxDoublings -> S] :
          f[0] = BlockFloor /\ \A k \in 1..MaxDoublings : f[k] = step[k][f[k - 1]]
    BY <1>1, <1>2, StepByStep
  <2>2. QED
    BY <2>1
<1>4. f = [k \in D |-> IF k = 0 THEN BlockFloor ELSE 2 * f[k - 1]]
  <2>1. ASSUME NEW k \in D
        PROVE  f[k] = IF k = 0 THEN BlockFloor ELSE 2 * f[k - 1]
    <3>1. CASE k = 0
      BY <1>3, <3>1
    <3>2. CASE k # 0
      <4>1. k \in 1..MaxDoublings /\ k - 1 \in D
        BY <1>1, <3>2
      <4>2. f[k - 1] \in S
        BY <4>1
      <4>3. QED
        BY <1>3, <3>2, <4>1, <4>2
    <3>3. QED
      BY <3>1, <3>2
  <2>2. QED
    BY <2>1
<1>5. BlockSize = [k \in D |-> IF k = 0 THEN BlockFloor ELSE 2 * BlockSize[k - 1]]
  BY <1>4 DEF BlockSize
<1>6. 0 \in D /\ \A k \in 1..MaxDoublings : k \in D /\ k # 0 /\ k - 1 \in D
  BY <1>1
<1> DEFINE T == {k \in Nat : BlockSize[k] \in S}
<1>7. BlockSize[0] = BlockFloor /\ \A k \in 1..MaxDoublings : BlockSize[k] = 2 * BlockSize[k - 1]
  <2> DEFINE b == BlockSize
  <2>1. b = [k \in D |-> IF k = 0 THEN BlockFloor ELSE 2 * b[k - 1]]
    BY <1>5
  <2> HIDE DEF b
  <2>2. b[0] = BlockFloor /\ \A k \in 1..MaxDoublings : b[k] = 2 * b[k - 1]
    BY <1>6, <2>1
  <2>3. QED
    BY <2>2 DEF b
<1>8. 0 \in T
  BY <1>1, <1>7
<1>9. ASSUME NEW k \in 1..MaxDoublings, k - 1 \in T
      PROVE  k \in T
  BY <1>7, <1>9
<1>10. \A k \in 0..MaxDoublings : k \in T
  <2> HIDE DEF T
  <2>1. QED
    BY <1>1, <1>8, <1>9, UpTo
<1>11. QED
  BY <1>7, <1>10

LEMMA Division ==
  ASSUME NEW a \in Nat, NEW b \in Nat \ {0}, NEW c \in Nat
  PROVE  /\ a < c * b => a \div b < c
         /\ a >= c * b => a \div b >= c
<1>1. a \div b \in Nat /\ (a \div b) * b <= a /\ a < ((a \div b) + 1) * b
  OBVIOUS
<1>2. a < c * b => a \div b < c
  BY <1>1
<1>3. a >= c * b => a \div b >= c
  BY <1>1
<1>4. QED
  BY <1>2, <1>3

(* A set of numbers up to n with something in it has a least one. *)
LEMMA Least ==
  ASSUME NEW T \in SUBSET Nat, T # {}
  PROVE  Min(T) \in T /\ \A y \in T : Min(T) <= y
<1> DEFINE R == OpToRel(<, Nat)
<1>1. PICK x \in T : \A y \in T : ~ (<<y, x>> \in R)
  <2>1. IsWellFoundedOn(R, Nat)
    BY NatLessThanWellFounded
  <2> HIDE DEF R
  <2>2. QED
    BY <2>1, WFMin
<1>2. ASSUME NEW y \in T
      PROVE  x <= y
  <2>1. x \in Nat /\ y \in Nat
    BY <1>1
  <2>2. y < x => <<y, x>> \in R
    BY <2>1 DEF OpToRel
  <2>3. ~ (y < x)
    BY <1>1, <2>2
  <2>4. QED
    BY <2>1, <2>3
<1>3. QED
  BY <1>1, <1>2 DEF Min

(***************************************************************************)
(* The blocks of a drive of any size the doublings are enough for fit 32   *)
(* bits, and no smaller block than the one chosen would do, unless it is   *)
(* the floor: BlocksFitCeiling (device/surfaceArgs.ts:8-34, issue #84).    *)
(***************************************************************************)
LEMMA BlocksFit ==
  ASSUME NEW s \in Sizes
  PROVE  LET block == surfaceBlockSize(s)
         IN  /\ s \div block < BADBLOCKS_BLOCK_CEILING
             /\ block > BlockFloor => s \div (block \div 2) >= BADBLOCKS_BLOCK_CEILING
<1> DEFINE T == {k \in 0..MaxDoublings : s < BADBLOCKS_BLOCK_CEILING * BlockSize[k]}
           m == Min(T)
           block == BlockSize[m]
           C == BADBLOCKS_BLOCK_CEILING
<1>1. s \in Nat /\ C \in Nat \ {0} /\ MaxDoublings \in Nat
  BY SurfaceAssumption
<1>2. MaxDoublings \in T
  BY <1>1, SizesAssumption
<1>3. m \in T /\ \A k \in T : m <= k
  <2>1. T \in SUBSET Nat /\ T # {}
    BY <1>2
  <2> HIDE DEF T
  <2>2. QED
    BY <2>1, Least
<1>4. surfaceBlockSize(s) = block
  BY DEF surfaceBlockSize
<1> HIDE DEF m
<1>5. /\ m \in 0..MaxDoublings /\ block \in Nat \ {0} /\ s < C * block
  BY <1>3, BlockSizes
<1>6. s \div block < C
  <2> HIDE DEF block, C
  <2>1. QED
    BY <1>1, <1>5, Division
<1>7. ASSUME block > BlockFloor
      PROVE  s \div (block \div 2) >= C
  <2> DEFINE half == BlockSize[m - 1]
  <2>1. m # 0
    BY <1>7, BlockSizes, SurfaceAssumption
  <2>2. /\ m \in 1..MaxDoublings /\ m - 1 \in 0..MaxDoublings
    BY <1>1, <1>5, <2>1
  <2>3. block = 2 * half /\ half \in Nat \ {0}
    BY <2>2, BlockSizes
  <2>4. m - 1 \notin T
    BY <1>3, <2>2
  <2>5. ~ (s < C * half)
    BY <2>2, <2>4
  <2> HIDE DEF block, half, C
  <2>6. block \div 2 = half
    BY <2>3
  <2>7. C * half \in Nat
    BY <1>1, <2>3
  <2>8. s >= C * half
    BY <1>1, <2>5, <2>7
  <2>9. s \div half >= C
    BY <1>1, <2>3, <2>8, Division
  <2>10. QED
    BY <2>6, <2>9
<1>8. QED
  BY <1>4, <1>6, <1>7

-----------------------------------------------------------------------------
(***************************************************************************)
(* The tracker against where badblocks is.                                 *)
(***************************************************************************)
Places == [phase : Nat, pct : 0..100, missed : Nat]
Trackers == [completedPhases : Int, lastPercent : Int]

NotStarted == [phase |-> 0, pct |-> 0, missed |-> 0]

(* The tracker t is right about the place u, in a scan of n phases. *)
Tracks(t, u, n) ==
  /\ t \in Trackers /\ u \in Places
  /\ u.phase \in 1..n /\ u.missed \in 0..(u.phase - 1)
  /\ t.completedPhases = u.phase - 1 - u.missed /\ t.lastPercent = u.pct

LEMMA PhaseCounts ==
  ASSUME mode \in Modes
  PROVE  badblocksPhaseCount(mode) \in Nat \ {0}
  BY SurfaceAssumption DEF badblocksPhaseCount, Modes

LEMMA TrackerUpdates ==
  ASSUME NEW t \in Trackers, NEW p \in 0..100, NEW n \in Nat \ {0}
  PROVE  /\ TrackerUpdate(t, p, n) \in Trackers
         /\ TrackerUpdate(t, p, n).lastPercent = p
         /\ TrackerUpdate(t, p, n).completedPhases =
              IF t.lastPercent # Null /\ p < t.lastPercent - PHASE_RESET_DROP_PCT
              THEN IF t.completedPhases + 1 <= n - 1 THEN t.completedPhases + 1 ELSE n - 1
              ELSE t.completedPhases
<1> DEFINE c == t.completedPhases
<1>1. c \in Int
  BY DEF Trackers
<1>2. Min({c + 1, n - 1}) = IF c + 1 <= n - 1 THEN c + 1 ELSE n - 1
  <2> HIDE DEF c
  <2>1. QED
    BY <1>1 DEF Min
<1>3. QED
  BY <1>1, <1>2 DEF TrackerUpdate, Trackers

(* One reading, the first or a later one. *)
LEMMA ReadingTracked ==
  ASSUME mode \in Modes, NEW t, NEW u, NEW w \in Readings(u),
         \/ t = FreshTracker /\ u = NotStarted
         \/ Tracks(t, u, badblocksPhaseCount(mode))
  PROVE  Tracks(TrackerUpdate(t, w.pct, badblocksPhaseCount(mode)), w,
                badblocksPhaseCount(mode))
<1> DEFINE n == badblocksPhaseCount(mode)
           after == TrackerUpdate(t, w.pct, n)
<1>1. n \in Nat \ {0} /\ Percents \subseteq 1..100 /\ PHASE_RESET_DROP_PCT \in Nat
  BY PhaseCounts, SurfaceAssumption
<1> HIDE DEF n
<1>2. u \in Places /\ t \in Trackers
  BY DEF Tracks, FreshTracker, NotStarted, Places, Trackers, Null
<1>3. CASE u.phase > 0 /\ \E q \in Percents : q > u.pct /\ w = [u EXCEPT !.pct = q]
  <2>1. Tracks(t, u, n)
    BY <1>3 DEF NotStarted, n
  <2>2. /\ w \in Places /\ w.phase = u.phase /\ w.missed = u.missed
        /\ w.pct \in 1..100 /\ w.pct > u.pct
    BY <1>1, <1>2, <1>3 DEF Places
  <2>3. /\ t.lastPercent = u.pct /\ u.pct \in 0..100
        /\ ~ (w.pct < t.lastPercent - PHASE_RESET_DROP_PCT)
    BY <1>1, <2>1, <2>2 DEF Tracks, Places
  <2>4. /\ after \in Trackers /\ after.lastPercent = w.pct
        /\ after.completedPhases = t.completedPhases
    <3>1. w.pct \in 0..100
      BY <2>2
    <3>2. /\ after \in Trackers /\ after.lastPercent = w.pct
          /\ after.completedPhases =
               IF t.lastPercent # Null /\ w.pct < t.lastPercent - PHASE_RESET_DROP_PCT
               THEN IF t.completedPhases + 1 <= n - 1 THEN t.completedPhases + 1 ELSE n - 1
               ELSE t.completedPhases
      BY <1>1, <1>2, <3>1, TrackerUpdates
    <3> HIDE DEF after
    <3>3. QED
      BY <2>3, <3>2
  <2>5. Tracks(after, w, n)
    BY <2>1, <2>2, <2>4 DEF Tracks
  <2>6. QED
    BY <2>5 DEF n
<1>4. CASE /\ w = [phase |-> u.phase + 1, pct |-> 0,
                  missed |-> IF u.phase > 0 /\ u.pct <= PHASE_RESET_DROP_PCT
                             THEN u.missed + 1 ELSE u.missed]
           /\ w.phase <= n
  <2>1. /\ w \in Places /\ w.phase = u.phase + 1 /\ w.phase <= n /\ w.pct = 0
        /\ w.missed = IF u.phase > 0 /\ u.pct <= PHASE_RESET_DROP_PCT
                      THEN u.missed + 1 ELSE u.missed
    BY <1>2, <1>4 DEF Places
  <2>2. /\ after \in Trackers /\ after.lastPercent = 0
        /\ after.completedPhases =
             IF t.lastPercent # Null /\ 0 < t.lastPercent - PHASE_RESET_DROP_PCT
             THEN IF t.completedPhases + 1 <= n - 1 THEN t.completedPhases + 1 ELSE n - 1
             ELSE t.completedPhases
    <3>1. 0 \in 0..100
      OBVIOUS
    <3>2. QED
      BY <1>1, <1>2, <2>1, <3>1, TrackerUpdates
  <2> HIDE DEF after
  <2>3. CASE t = FreshTracker /\ u = NotStarted
    <3>1. t.lastPercent = Null /\ t.completedPhases = 0 /\ u.phase = 0 /\ u.missed = 0
      BY <2>3 DEF FreshTracker, NotStarted
    <3>2. after.completedPhases = 0 /\ w.phase = 1 /\ w.missed = 0
      BY <2>1, <2>2, <3>1
    <3>3. Tracks(after, w, n)
      BY <1>1, <2>1, <2>2, <3>2 DEF Tracks
    <3>4. QED
      BY <3>3 DEF n, after
  <2>4. CASE Tracks(t, u, n)
    <3>1. /\ u.phase \in Nat \ {0} /\ u.missed \in 0..(u.phase - 1) /\ u.pct \in 0..100
          /\ t.completedPhases = u.phase - 1 - u.missed /\ t.lastPercent = u.pct
      BY <2>4 DEF Tracks, Places
    <3>2. t.lastPercent # Null
      BY <3>1 DEF Null
    <3>3. after.completedPhases = w.phase - 1 - w.missed
      BY <1>1, <2>1, <2>2, <3>1, <3>2
    <3>4. w.phase \in 1..n /\ w.missed \in 0..(w.phase - 1)
      BY <1>1, <2>1, <3>1
    <3>5. Tracks(after, w, n)
      BY <2>1, <2>2, <3>3, <3>4 DEF Tracks
    <3>6. QED
      BY <3>5 DEF n, after
  <2>5. QED
    BY <2>3, <2>4 DEF n, after
<1>5. QED
  BY <1>3, <1>4 DEF Readings, n

(* The same, of trackers. *)
LEMMA TrackerSteps ==
  \A m \in Nat, t \in Trackers : \A step \in [1..m -> [Trackers -> Trackers]] :
    \E f \in [0..m -> Trackers] :
      f[0] = t /\ \A k \in 1..m : f[k] = step[k][f[k - 1]]
<1> DEFINE P(Q) == \A m \in Nat, t \in Q : \A step \in [1..m -> [Q -> Q]] :
                     \E f \in [0..m -> Q] :
                       f[0] = t /\ \A k \in 1..m : f[k] = step[k][f[k - 1]]
<1>1. ASSUME NEW Q, NEW m \in Nat, NEW t \in Q, NEW st \in [1..m -> [Q -> Q]]
      PROVE  \E f \in [0..m -> Q] :
               f[0] = t /\ \A k \in 1..m : f[k] = st[k][f[k - 1]]
  BY StepByStep, SMTT(60)
<1>2. \A Q : P(Q)
  BY <1>1
<1> HIDE DEF P
<1>3. P(Trackers)
  BY <1>2
<1>4. QED
  BY <1>3 DEF P

(* A chunk, reading by reading. *)
LEMMA ReadsInOrder ==
  ASSUME NEW t \in Trackers, NEW n \in Nat \ {0}, NEW chunk \in Seq(Places)
  PROVE  \E read : /\ read[0] = t
                   /\ \A k \in 1..Len(chunk) :
                        read[k] = TrackerUpdate(read[k - 1], chunk[k].pct, n)
                   /\ ReadChunk(t, chunk, n) = read[Len(chunk)]
<1> DEFINE m == Len(chunk)
           step == [k \in 1..m |-> [x \in Trackers |-> TrackerUpdate(x, chunk[k].pct, n)]]
           Read(f) == f = [k \in 0..m |->
                             IF k = 0 THEN t
                             ELSE TrackerUpdate(f[k - 1], chunk[k].pct, n)]
           g == CHOOSE f : f = [k \in 0..m |->
                             IF k = 0 THEN t
                             ELSE TrackerUpdate(f[k - 1], chunk[k].pct, n)]
<1>1. m \in Nat /\ \A k \in 1..m : chunk[k].pct \in 0..100
  <2>1. m \in Nat /\ \A k \in 1..m : chunk[k] \in Places
    OBVIOUS
  <2>2. QED
    BY <2>1 DEF Places
<1>2. \A k \in 1..m, x \in Trackers : TrackerUpdate(x, chunk[k].pct, n) \in Trackers
  BY <1>1, TrackerUpdates
<1>3. \E f : Read(f)
  <2>1. step \in [1..m -> [Trackers -> Trackers]]
    BY <1>2
  <2> HIDE DEF step, m
  <2>2. PICK f \in [0..m -> Trackers] :
          f[0] = t /\ \A k \in 1..m : f[k] = step[k][f[k - 1]]
    BY <1>1, <2>1, TrackerSteps
  <2>3. ASSUME NEW k \in 0..m
        PROVE  f[k] = IF k = 0 THEN t ELSE TrackerUpdate(f[k - 1], chunk[k].pct, n)
    <3>1. CASE k = 0
      BY <2>2, <3>1
    <3>2. CASE k # 0
      <4>1. k \in 1..m /\ k - 1 \in 0..m /\ f[k - 1] \in Trackers
        BY <1>1, <3>2
      <4>2. step[k][f[k - 1]] = TrackerUpdate(f[k - 1], chunk[k].pct, n)
        BY <4>1 DEF step
      <4>3. QED
        BY <2>2, <3>2, <4>1, <4>2
    <3>3. QED
      BY <3>1, <3>2
  <2>4. QED
    BY <2>3
<1>4. Read(g)
  BY <1>3
<1>5. ReadChunk(t, chunk, n) = g[m]
  BY DEF ReadChunk
<1> HIDE DEF g
<1>6. \A k \in 0..m : g[k] = IF k = 0 THEN t ELSE TrackerUpdate(g[k - 1], chunk[k].pct, n)
  BY <1>4
<1>7. 0 \in 0..m /\ \A k \in 1..m : k \in 0..m /\ k # 0
  BY <1>1
<1>8. g[0] = t /\ \A k \in 1..m : g[k] = TrackerUpdate(g[k - 1], chunk[k].pct, n)
  BY <1>6, <1>7
<1>9. QED
  BY <1>5, <1>8

(* Every reading of a chunk is behind the one before it. *)
LEMMA ChunkInPlaces ==
  ASSUME mode \in Modes, NEW u, NEW chunk \in Chunks(u)
  PROVE  /\ Len(chunk) \in Nat \ {0} /\ chunk \in Seq(Places)
         /\ chunk[Len(chunk)] \in Places
         /\ \A k \in 1..Len(chunk) :
              chunk[k] \in Readings(IF k = 1 THEN u ELSE chunk[k - 1])
<1> DEFINE n == badblocksPhaseCount(mode)
           P == [phase : 1..n, pct : Percents \cup {0}, missed : 0..n]
<1>1. P \subseteq Places
  <2>1. n \in Nat \ {0} /\ Percents \cup {0} \subseteq 0..100
    BY PhaseCounts, SurfaceAssumption
  <2>2. 1..n \subseteq Nat /\ 0..n \subseteq Nat
    BY <2>1
  <2> HIDE DEF n
  <2>3. QED
    BY <2>1, <2>2 DEF Places
<1>2. PICK c \in 1..MaxChunk : chunk \in [1..c -> P]
  BY DEF Chunks
<1>3. \A k \in DOMAIN chunk : chunk[k] \in Readings(IF k = 1 THEN u ELSE chunk[k - 1])
  BY DEF Chunks
<1> HIDE DEF P
<1>4. chunk \in [1..c -> Places] /\ c \in Nat \ {0}
  BY <1>1, <1>2, SurfaceAssumption
<1>5. chunk \in Seq(Places) /\ Len(chunk) = c /\ DOMAIN chunk = 1..c
  BY <1>4
<1>6. QED
  BY <1>3, <1>4, <1>5

LEMMA ChunkTracked ==
  ASSUME mode \in Modes, NEW t, NEW u, NEW chunk \in Chunks(u),
         \/ t = FreshTracker /\ u = NotStarted
         \/ Tracks(t, u, badblocksPhaseCount(mode))
  PROVE  /\ Len(chunk) \in Nat \ {0} /\ chunk[Len(chunk)] \in Places
         /\ Tracks(ReadChunk(t, chunk, badblocksPhaseCount(mode)), chunk[Len(chunk)],
                   badblocksPhaseCount(mode))
<1> DEFINE n == badblocksPhaseCount(mode)
           m == Len(chunk)
<1>1. /\ n \in Nat \ {0} /\ t \in Trackers
  BY PhaseCounts DEF Tracks, FreshTracker, Trackers, Null
<1>2. /\ m \in Nat \ {0} /\ chunk \in Seq(Places) /\ chunk[m] \in Places
      /\ \A k \in 1..m : chunk[k] \in Readings(IF k = 1 THEN u ELSE chunk[k - 1])
  BY ChunkInPlaces
<1> HIDE DEF m, n
<1>3. PICK read : /\ read[0] = t
                  /\ \A k \in 1..m : read[k] = TrackerUpdate(read[k - 1], chunk[k].pct, n)
                  /\ ReadChunk(t, chunk, n) = read[m]
  BY <1>1, <1>2, ReadsInOrder DEF m
<1> DEFINE T == {k \in Nat : k = 0 \/ Tracks(read[k], chunk[k], n)}
<1>4. 0 \in T
  OBVIOUS
<1>5. ASSUME NEW k \in 1..m, k - 1 \in T
      PROVE  k \in T
  <2> DEFINE old == IF k = 1 THEN u ELSE chunk[k - 1]
             x == read[k - 1]
  <2>1. chunk[k] \in Readings(old) /\ read[k] = TrackerUpdate(x, chunk[k].pct, n)
    BY <1>2, <1>3
  <2>2. \/ x = FreshTracker /\ old = NotStarted
        \/ Tracks(x, old, n)
    <3>1. CASE k = 1
      BY <1>3, <3>1 DEF n
    <3>2. CASE k # 1
      BY <1>5, <3>2
    <3>3. QED
      BY <3>1, <3>2
  <2> HIDE DEF old, x
  <2>3. Tracks(read[k], chunk[k], n)
    BY <2>1, <2>2, ReadingTracked DEF n
  <2>4. QED
    BY <2>3
<1>6. m \in T
  <2> HIDE DEF T
  <2>1. \A k \in 0..m : k \in T
    BY <1>2, <1>4, <1>5, UpTo
  <2>2. QED
    BY <1>2, <2>1
<1>7. Tracks(ReadChunk(t, chunk, n), chunk[m], n)
  BY <1>2, <1>3, <1>6
<1>8. QED
  BY <1>2, <1>7 DEF m, n

(* While a scan is not aborted, its tracker is right; before the first        *)
(* reading there is nothing to be right about.                                *)
Tracking ==
  /\ mode \in Modes /\ size \in Sizes
  /\ truth \in [Scans -> Places] /\ DOMAIN tracker = Scans
  /\ DOMAIN sawProgress = Scans /\ aborted \in [Scans -> BOOLEAN]
  /\ \A i \in Scans : ~aborted[i] =>
       \/ ~sawProgress[i] /\ tracker[i] = FreshTracker /\ truth[i] = NotStarted
       \/ Tracks(tracker[i], truth[i], badblocksPhaseCount(mode))

LEMMA TrackingKept == Spec => []Tracking
<1>1. Init => Tracking
  BY DEF Init, Tracking, NotStarted, Places
<1>2. Tracking /\ [Next]_vars => Tracking'
  <2> SUFFICES ASSUME Tracking, [Next]_vars PROVE Tracking'
    OBVIOUS
  <2>1. ASSUME NEW i \in Scans, StderrData(i)
        PROVE  Tracking'
    <3>1. PICK chunk \in Chunks(truth[i]) :
            /\ truth' = [truth EXCEPT ![i] = chunk[Len(chunk)]]
            /\ tracker' = [tracker EXCEPT
                 ![i] = IF aborted[i] THEN @ ELSE ReadChunk(@, chunk, badblocksPhaseCount(mode))]
            /\ sawProgress' = [sawProgress EXCEPT ![i] = @ \/ ~aborted[i]]
      BY <2>1 DEF StderrData
    <3>2. UNCHANGED <<mode, size, aborted>>
      BY <2>1 DEF StderrData
    <3>3. ~aborted[i] =>
            /\ chunk[Len(chunk)] \in Places
            /\ Tracks(tracker'[i], truth'[i], badblocksPhaseCount(mode))
      BY <3>1, ChunkTracked DEF Tracking
    <3>4. chunk[Len(chunk)] \in Places
      BY ChunkInPlaces DEF Tracking
    <3>5. QED
      BY <3>1, <3>2, <3>3, <3>4 DEF Tracking, badblocksPhaseCount
  <2>2. ASSUME NEW i \in Scans, Abort(i)
        PROVE  Tracking'
    BY <2>2 DEF Abort, Tracking, process, progress, badblocksPhaseCount
  <2>3. CASE UNCHANGED <<mode, size, aborted, progress>>
    BY <2>3 DEF Tracking, progress, badblocksPhaseCount
  <2>4. QED
    BY <2>1, <2>2, <2>3
    DEF Next, Recheck, RunSurfaceTest, Resolve, KillFires, AbandonFires, SpawnError, Close,
        ProcessSticks, ProcessExits, vars, progress
<1>3. QED
  BY <1>1, <1>2, PTL DEF Spec

(***************************************************************************)
(* The overall figure is the true one less the phases whose last reading   *)
(* was no higher than the reset threshold: for any readings, however they  *)
(* are split into chunks (device/badblocksParser.ts:22-80).                *)
(***************************************************************************)
THEOREM ProgressRight == Spec => []ProgressAccountsForPhases
<1>1. Tracking => ProgressAccountsForPhases
  BY DEF Tracking, Tracks, Trackers, Places, Overall, ProgressAccountsForPhases
<1>2. QED
  BY <1>1, TrackingKept, PTL

(***************************************************************************)
(* badblocks can number the blocks of a drive of any size, and the block   *)
(* is the floor or the smallest that makes their count fit                 *)
(* (device/surfaceArgs.ts:8-34).                                           *)
(***************************************************************************)
THEOREM BlocksAddressable == Spec => []BlocksFitCeiling
<1>1. Tracking => BlocksFitCeiling
  BY BlocksFit DEF Tracking, BlocksFitCeiling
<1>2. QED
  BY <1>1, TrackingKept, PTL
=============================================================================
