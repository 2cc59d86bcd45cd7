------------------------------ MODULE AutoMode ------------------------------
(***************************************************************************)
(* The poller of engine/autoMode.ts on top of TestEngine, of which it is a *)
(* caller like the HTTP routes: the stored setting, the loop, and what the *)
(* loop remembers between two awaits.                                      *)
(***************************************************************************)
EXTENDS TestEngine

CONSTANT Poller     \* the caller the poller is; the other callers are HTTP requests

ASSUME PollerAssumption == Poller \in Callers

VARIABLES
  enabled,      \* autoModeEnabled in the database
  poll,         \* what the loop is at
  todo,         \* drives of this poll still to be looked at that its guard allowed
  enqueued,     \* #enqueued
  started       \* history: drives this process started a run of by itself

loop == <<poll, todo, enqueued, started>>
allVars == <<vars, enabled, loop>>

(* "turn": the loop runs and awaits nothing, so nothing else does. *)
PollStates == {"off", "listing", "turn", "starting", "sleeping"}

AutoInit ==
  /\ Init
  /\ enabled = FALSE        \* off by default
  /\ poll = "off"
  /\ todo = {}
  /\ enqueued = {}
  /\ started = {}

(* main.ts: reconcile() has returned, start(); requests are served after that. *)
PollerStarts ==
  /\ Serving
  /\ poll = "off"
  /\ poll' = "listing"
  /\ UNCHANGED <<vars, enabled, todo, enqueued, started>>

(* listDevices() threw: this cycle is skipped. *)
PollFails ==
  /\ poll = "listing"
  /\ poll' = "sleeping"
  /\ UNCHANGED <<vars, enabled, todo, enqueued, started>>

(* listDevices() answered, probing no drive under test.  The setting and the *)
(* protect list are read once, here.                                         *)
PollListed ==
  /\ poll = "listing"
  /\ IF enabled
     THEN /\ poll' = "turn"
          /\ todo' = {s \in Serials : Allowed(s, FALSE)}
     ELSE /\ poll' = "sleeping"
          /\ UNCHANGED todo
  /\ UNCHANGED <<vars, enabled, enqueued, started>>

(* The loop passes over it. *)
PassedOver(s) == s \in enqueued \/ s \in activeSerials

(* The next drive in the order of the listing, which is any: those before it *)
(* were passed over.                                                         *)
PollTurn(s) ==
  /\ poll = "turn"
  /\ s \in todo
  /\ ~PassedOver(s)
  /\ CallStart(Poller, s)
  /\ poll' = "starting"
  /\ \E before \in SUBSET {d \in todo : PassedOver(d)} : todo' = todo \ (before \cup {s})
  /\ UNCHANGED <<enabled, enqueued, started>>

PollEnds ==
  /\ poll = "turn"
  /\ \A s \in todo : PassedOver(s)
  /\ poll' = "sleeping"
  /\ todo' = {}
  /\ UNCHANGED <<vars, enabled, enqueued, started>>

(* Seeded fault: remembered only once AUTO_ENQUEUE is audited, which can fail. *)
PollStartedAudited(r) ==
  /\ poll = "starting"
  /\ poll' = "turn"
  /\ StartDispatched(Poller, r)
  /\ enqueued' \in {enqueued, enqueued \cup {awaiting[Poller]}}
  /\ started' = started \cup {awaiting[Poller]}
  /\ UNCHANGED <<enabled, todo>>

(* startRun resolved: remembered before anything that can throw. *)
PollStarted(r) ==
  /\ poll = "starting"
  /\ poll' = "turn"
  /\ StartDispatched(Poller, r)
  /\ enqueued' = enqueued \cup {awaiting[Poller]}
  /\ started' = started \cup {awaiting[Poller]}
  /\ UNCHANGED <<enabled, todo>>

(* Seeded fault: a drive that was denied is remembered like one that ran. *)
PollRefusedForGood ==
  /\ poll = "starting"
  /\ poll' = "turn"
  /\ StartRejected(Poller) \/ \E r \in RunIds : StartFaults(Poller, r)
  /\ enqueued' = enqueued \cup {awaiting[Poller]}
  /\ UNCHANGED <<enabled, todo, started>>

(* startRun threw: left for a later poll. *)
PollRefused ==
  /\ poll = "starting"
  /\ poll' = "turn"
  /\ StartRejected(Poller) \/ \E r \in RunIds : StartFaults(Poller, r)
  /\ UNCHANGED <<enabled, todo, enqueued, started>>

PollWakes ==
  /\ poll = "sleeping"
  /\ poll' = "listing"
  /\ UNCHANGED <<vars, enabled, todo, enqueued, started>>

PollStep ==
  \/ PollerStarts \/ PollFails \/ PollListed \/ PollEnds \/ PollRefused \/ PollWakes
  \/ \E s \in Serials : PollTurn(s)
  \/ \E r \in RunIds : PollStarted(r)

(* PUT /settings with autoModeEnabled. *)
Toggle ==
  /\ poll \notin {"off", "turn"}
  /\ enabled' = ~enabled
  /\ UNCHANGED <<vars, loop>>

(* What the process does besides, when the loop awaits something. *)
EngineStep ==
  /\ poll # "turn"
  /\ \/ \E c \in Callers \ {Poller} : poll # "off" /\ CallerStep(c)
     \/ \E r \in RunIds : TaskStep(r) \/ AbortRun(r)
     \/ Boot
     \/ Reconcile
  /\ UNCHANGED <<enabled, loop>>

HostStep ==
  /\ \E s \in Serials : AbandonedExits(s) \/ \E d \in DriveStates : DriveChanges(s, d)
  /\ UNCHANGED <<enabled, loop>>

AutoCrash ==
  /\ Crash
  /\ poll' = "off"
  /\ todo' = {}
  /\ enqueued' = {}
  /\ started' = {}
  /\ UNCHANGED enabled

AutoNext == PollStep \/ Toggle \/ EngineStep \/ HostStep \/ AutoCrash

(***************************************************************************)
(* The loop goes on, and neither discovery nor startRun fails for ever on  *)
(* a drive that is there.                                                  *)
(***************************************************************************)
PollFairness ==
  /\ WF_allVars(PollStep)
  /\ SF_allVars(PollListed)
  /\ \A s \in Serials : SF_allVars(PollTurn(s))
  /\ \A s \in Serials : SF_allVars(awaiting[Poller] = s /\ \E r \in RunIds : PollStarted(r))

AutoSpec == AutoInit /\ [][AutoNext]_allVars /\ PollFairness

-----------------------------------------------------------------------------
AutoTypeOK ==
  /\ enabled \in BOOLEAN
  /\ poll \in PollStates
  /\ todo \subseteq Serials
  /\ enqueued \subseteq Serials
  /\ started \subseteq Serials
  /\ poll = "starting" <=> awaiting[Poller] # None

(***************************************************************************)
(* The poller starts at most one run of a drive in the life of a process,  *)
(* whatever fails after the start (autoMode.ts:46-52, 107-111).            *)
(***************************************************************************)
AutoOncePerProcess ==
  [][\A s \in started : ~(awaiting[Poller] # s /\ awaiting'[Poller] = s)]_allVars

(***************************************************************************)
(* A drive that was denied is started by a later poll once it is eligible  *)
(* for good (autoMode.ts:48-51), unless somebody else tests it or rows     *)
(* have run out.                                                           *)
(***************************************************************************)
Eligible(s) == Serving /\ enabled /\ drive[s] = "free" /\ s \notin abandoned

NoRowsLeft == \A r \in RunIds : status[r] # None

HeldByOthers(s) ==
  \/ \E r \in controllers : driveOf[r] = s
  \/ \E c \in Callers \ {Poller} : awaiting[c] = s

DeniedIsRetried ==
  \A s \in Serials :
    <>[]Eligible(s) => []<>(s \in started \/ HeldByOthers(s) \/ NoRowsLeft)

(***************************************************************************)
(* "Only when auto-mode is enabled does it enqueue destructive runs"       *)
(* (autoMode.ts:36-37).  What the code does not do.                        *)
(***************************************************************************)
OnlyWhileEnabled ==
  [][awaiting[Poller] = None /\ awaiting'[Poller] # None => enabled]_allVars
=============================================================================
