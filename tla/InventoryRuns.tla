---------------------------- MODULE InventoryRuns ----------------------------
(***************************************************************************)
(* The per-inventory runs of backend/main.py (cluster install,             *)
(* connectivity, verify, offline apt, Cilium): the run engine behind lock  *)
(* tables whose entries are created on first use, by whichever handler     *)
(* comes first, on worker threads and without a lock of their own.         *)
(*                                                                         *)
(* A slot is one entry of one table for one inventory.  The _xxx_lock(inv) *)
(* helpers test for the entry, store a new asyncio.Lock and reset the      *)
(* logs in separate statements, between which other threads run.  The      *)
(* Cilium handlers do not call the helper: they rely on /cilium/plan       *)
(* having done so.  Cilium install and uninstall share a slot, and         *)
(* CILIUM_ACTIVE_ACTION tells which of them is running.                    *)
(***************************************************************************)
EXTENDS RunEngine, FiniteSets

CONSTANTS
  Plans,      \* the GETs of .../plan that are made
  Slots,      \* the table entries: one lock and one or two logs each
  SlotOf,     \* the slot of a key
  PlanSlot,   \* the slot a plan is about
  Ensuring,   \* the slots whose run handlers create a missing entry themselves
  Labelled,   \* the slots with an active-action label (Cilium install/uninstall)
  FirstLogs,  \* the keys whose logs come first in a helper: all but "uninstall"
  Preset,     \* the slots whose entry exists from the start
  Scenarios,  \* the sets of callers that may come; the others stay away
  None

Callers == Requests \cup Plans

\* A lock object is named after who creates it; a preset one after its slot.
\* A request is a POST or a GET.
ASSUME RegistryAssumption ==
  /\ Requests \cap Plans = {}
  /\ Callers \cup Slots \subseteq Locks
  /\ SlotOf \in [Keys -> Slots]
  /\ PlanSlot \in [Plans -> Slots]
  /\ Ensuring \subseteq Slots /\ Labelled \subseteq Slots /\ Preset \subseteq Slots
  /\ FirstLogs \subseteq Keys /\ \A k \in Keys \ FirstLogs : SlotOf[k] \in Labelled
  /\ Scenarios \subseteq SUBSET Callers
  /\ None \notin Locks \cup Keys

VARIABLES
  at,       \* the statement each handler thread is at
  table,    \* the lock table, by slot
  logMade,  \* the entry of a key in its log table exists
  active,   \* CILIUM_ACTIVE_ACTION
  stored    \* history: the lock objects ever put into a slot

registryVars == <<table, logMade, active, stored>>
allVars == <<vars, at, registryVars>>

\* "enter": at `if inv not in LOCKS`; "storing", "resetting", and in the helper
\* of a labelled slot "resettingOther", "unlabelling": the statements of its body;
\* "lookup": at locks[key]; "labelling": at CILIUM_ACTIVE_ACTION[inv] = ...;
\* "returned": the handler is over; "failed": it died of a KeyError; "absent":
\* the request is never made.
Creating == {"resetting", "resettingOther", "unlabelling"}
Statements ==
  Creating \cup {"absent", "enter", "storing", "lookup", "labelling", "returned", "failed"}

SlotOfCaller(c) == IF c \in Requests THEN SlotOf[KeyOf[c]] ELSE PlanSlot[c]

\* Whether the caller's handler goes through the helper that creates an entry.
Creates(c) == c \in Plans \/ SlotOfCaller(c) \in Ensuring

RegistryTypeOK ==
  /\ TypeOK
  /\ at \in [Callers -> Statements]
  /\ table \in [Slots -> Locks \cup {None}]
  /\ logMade \in [Keys -> BOOLEAN]
  /\ active \in [Slots -> Keys \cup {None}]
  /\ stored \in [Slots -> SUBSET Locks]

RegistryInit ==
  /\ Init
  /\ \E coming \in Scenarios :
       at = [c \in Callers |->
              CASE c \notin coming -> "absent"
                [] c \in coming /\ Creates(c) -> "enter"
                [] c \in coming /\ ~Creates(c) -> "lookup"]
  /\ table = [s \in Slots |-> IF s \in Preset THEN s ELSE None]
  /\ logMade = [k \in Keys |-> SlotOf[k] \in Preset]
  /\ active = [s \in Slots |-> None]
  /\ stored = [s \in Slots |-> IF s \in Preset THEN {s} ELSE {}]

Advance(c, statement) == at' = [at EXCEPT ![c] = statement]

-----------------------------------------------------------------------------
(* The _xxx_lock(inv) helpers.                                             *)

\* if inv not in LOCKS:
TestEntry(c) ==
  /\ at[c] = "enter"
  /\ Advance(c, IF table[SlotOfCaller(c)] = None THEN "storing" ELSE "lookup")
  /\ UNCHANGED <<vars, registryVars>>

\* Mutant of StoreLock: the helper makes a lock and forgets to keep it.
StoreNothing(c) ==
  /\ at[c] = "storing"
  /\ Advance(c, "resetting")
  /\ UNCHANGED <<vars, registryVars>>

\* LOCKS[inv] = asyncio.Lock(), whatever another thread has stored meanwhile.
StoreLock(c) ==
  /\ at[c] = "storing"
  /\ table' = [table EXCEPT ![SlotOfCaller(c)] = c]
  /\ stored' = [stored EXCEPT ![SlotOfCaller(c)] = @ \cup {c}]
  /\ Advance(c, "resetting")
  /\ UNCHANGED <<vars, logMade, active>>

\* The caller is at this statement, which sets the logs of its slot's keys to "".
ResetLog(c, here, keys) ==
  LET these == {k \in keys : SlotOf[k] = SlotOfCaller(c)} IN
  /\ at[c] = here
  /\ logs' = [k \in Keys |-> IF k \in these THEN <<>> ELSE logs[k]]
  /\ logMade' = [k \in Keys |-> k \in these \/ logMade[k]]
  /\ UNCHANGED <<pc, ref, lockVars, procVars, table, active, stored>>

\* LOGS[inv] = "", the last statement but in the helper of install and uninstall.
ResetFirstLog(c) ==
  /\ ResetLog(c, "resetting", FirstLogs)
  /\ Advance(c, IF SlotOfCaller(c) \in Labelled THEN "resettingOther" ELSE "lookup")

ResetOtherLog(c) ==
  /\ ResetLog(c, "resettingOther", Keys \ FirstLogs)
  /\ Advance(c, "unlabelling")

\* CILIUM_ACTIVE_ACTION[inv] = None
Unlabel(c) ==
  /\ at[c] = "unlabelling"
  /\ active' = [active EXCEPT ![SlotOfCaller(c)] = None]
  /\ Advance(c, "lookup")
  /\ UNCHANGED <<vars, table, logMade, stored>>

-----------------------------------------------------------------------------
(* The run handlers.                                                       *)

\* locks[key] of a table that has no such entry: KeyError, answered with 500.
MissingEntry(r) ==
  /\ at[r] = "lookup"
  /\ table[SlotOfCaller(r)] = None
  /\ Advance(r, "failed")
  /\ UNCHANGED <<vars, registryVars>>

\* Mutant of LookUp: a missing entry is answered with a new, unshared lock.
LookUpDefault(r) ==
  LET lock == IF table[SlotOfCaller(r)] = None THEN r ELSE table[SlotOfCaller(r)] IN
  /\ at[r] = "lookup"
  /\ Check(r, lock)
  /\ Advance(r, IF locked[lock] \/ SlotOfCaller(r) \notin Labelled
                THEN "returned" ELSE "labelling")
  /\ UNCHANGED registryVars

\* Mutant of LookUp: the label is set before the check.
LookUpLabelsFirst(r) ==
  LET lock == table[SlotOfCaller(r)] IN
  /\ at[r] = "lookup"
  /\ lock # None
  /\ Check(r, lock)
  /\ active' = [active EXCEPT ![SlotOfCaller(r)] = KeyOf[r]]
  /\ Advance(r, "returned")
  /\ UNCHANGED <<table, logMade, stored>>

\* _check_not_running with the object that is in the table at this moment.
LookUp(r) ==
  LET lock == table[SlotOfCaller(r)] IN
  /\ at[r] = "lookup"
  /\ lock # None
  /\ Check(r, lock)
  /\ Advance(r, IF locked[lock] \/ SlotOfCaller(r) \notin Labelled
                THEN "returned" ELSE "labelling")
  /\ UNCHANGED registryVars

\* Mutant of Label: the label is the request, not its action.
LabelRequest(r) ==
  /\ at[r] = "labelling"
  /\ active' = [active EXCEPT ![SlotOfCaller(r)] = r]
  /\ Advance(r, "returned")
  /\ UNCHANGED <<vars, table, logMade, stored>>

\* CILIUM_ACTIVE_ACTION[inv] = "install" or "uninstall"
Label(r) ==
  /\ at[r] = "labelling"
  /\ active' = [active EXCEPT ![SlotOfCaller(r)] = KeyOf[r]]
  /\ Advance(r, "returned")
  /\ UNCHANGED <<vars, table, logMade, stored>>

\* The plan handlers read the logs after the lock; they may not be there yet.
PlanReturns(p) ==
  /\ at[p] = "lookup"
  /\ Advance(p, IF \A k \in Keys : SlotOf[k] = PlanSlot[p] => logMade[k]
                THEN "returned" ELSE "failed")
  /\ UNCHANGED <<vars, registryVars>>

-----------------------------------------------------------------------------
\* The event loop gets a request's generator when its handler has returned.
EngineStep(r) ==
  /\ at[r] = "returned"
  /\ LoopStep(r) \/ Stop(r)
  /\ UNCHANGED <<at, registryVars>>

RunStep(r) == ProcStep(r) /\ UNCHANGED <<at, registryVars>>

HandlerStep(c) ==
  \/ TestEntry(c) \/ StoreLock(c) \/ ResetFirstLog(c) \/ ResetOtherLog(c) \/ Unlabel(c)
  \/ c \in Requests /\ (MissingEntry(c) \/ LookUp(c) \/ Label(c))
  \/ c \in Plans /\ PlanReturns(c)

RegistryNext ==
  \/ \E c \in Callers : HandlerStep(c)
  \/ \E r \in Requests : EngineStep(r) \/ RunStep(r)

\* Worker threads, the event loop and the processes go on.  A client that is
\* connected takes what it is sent; nobody owes a disconnection or a failure.
RegistryFairness ==
  /\ \A c \in Callers : WF_allVars(HandlerStep(c))
  /\ \A r \in Requests :
       /\ WF_allVars(at[r] = "returned" /\ LoopStep(r) /\ UNCHANGED <<at, registryVars>>)
       /\ WF_allVars(RunStep(r))

RegistrySpec == RegistryInit /\ [][RegistryNext]_allVars /\ RegistryFairness

-----------------------------------------------------------------------------
(* Properties.                                                             *)

HoldersOf(slot) == {r \in Requests : SlotOf[KeyOf[r]] = slot /\ pc[r] \in Holding}

\* Two runs of one slot overlap only if two threads found the entry missing and
\* each stored a lock: without that race install, uninstall and every other
\* action of a slot exclude each other, and k stored locks let at most k run.
OverlapBoundedByCreations ==
  \A slot \in Slots : Cardinality(HoldersOf(slot)) <= Cardinality(stored[slot])

\* Without the race a slot's logs stay one run's gapless output each; a creator
\* that resets them late may remove a beginning, never mix two runs.
LogCoherentWithoutRace ==
  \A k \in Keys : Cardinality(stored[SlotOf[k]]) = 1 =>
    \A i \in 1..(Len(logs[k]) - 1) :
      LET this == logs[k][i]
          next == logs[k][i + 1]
      IN  /\ next.by = this.by
          /\ this.n # Exit
          /\ next.n = Exit \/ next.n = this.n + 1

\* A run that met no other accepted one is never shown under the other action's
\* name, whoever was refused during it and however late its label was reset.
LabelOfALoneRun ==
  \A r \in Requests :
    LET slot == SlotOf[KeyOf[r]] IN
    /\ slot \in Labelled /\ pc[r] \in Holding
    /\ \A s \in Requests \ {r} : SlotOf[KeyOf[s]] = slot => pc[s] \in {"new", "rejected"}
    => active[slot] \in {KeyOf[r], None}

\* Once the plan of a slot has been served, no handler of it dies of a KeyError
\* any more, and a handler that creates its own entry never does.
NoKeyErrorAfterPlan ==
  [][\A r \in Requests : at[r] # "failed" /\ at'[r] = "failed" =>
       /\ SlotOf[KeyOf[r]] \notin Ensuring
       /\ \A p \in Plans : PlanSlot[p] = SlotOf[KeyOf[r]] => at[p] # "returned"]_allVars

\* Every POST is answered to the end: 409, 500, its command's exit, or its
\* client's departure; no order of creations, refusals and queueing hangs it.
EveryPostAnswered ==
  <>(\A r \in Requests : at[r] \in {"absent", "failed"} \/ pc[r] \in Settled)

-----------------------------------------------------------------------------
(* What a comment of main.py says, and the handlers do not do.             *)

\* main.py:863-866: CILIUM_ACTIVE_ACTION is the action of the current holder
\* of the lock.  Stated for slots whose entry was there from the start.
ActiveIsHolder ==
  \A slot \in Labelled \cap Preset : \A r \in HoldersOf(slot) : active[slot] = KeyOf[r]
=============================================================================
