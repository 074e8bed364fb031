------------------------- MODULE InventoryRunsProofs -------------------------
(***************************************************************************)
(* Theorems about the runs per inventory, for every set of requests and    *)
(* plans, every way the keys share the slots, and whatever handlers create *)
(* the entries.                                                            *)
(*                                                                         *)
(* The engine's own lemmas are about a step with ANY lock object (AnyNext  *)
(* of RunEngineProofs): here the object is the one the table holds at the  *)
(* moment of the check, and the argument is about which objects that can   *)
(* be.  Every lock a request has ever got was once stored in its slot      *)
(* (Kept), so a slot into which one object was stored is one lock, and k   *)
(* objects are at most k locks to be held.                                 *)
(***************************************************************************)
EXTENDS InventoryRuns, RunEngineProofs, FiniteSetTheorems

USE EngineAssumption

-----------------------------------------------------------------------------
(* The steps of the registry, as steps of the engine.                      *)

\* The generator of r, its process or its client goes on; no table changes.
Generates(r) ==
  /\ LoopStep(r) \/ ProcStep(r) \/ Stop(r)
  /\ UNCHANGED <<at, registryVars>>

\* The helper of c resets a log.
LogsReset(c) == ResetFirstLog(c) \/ ResetOtherLog(c)

\* Every step is one statement of a handler or a step of a generator.
LEMMA RegistrySteps ==
  ASSUME RegistryNext
  PROVE  \/ \E c \in Callers : TestEntry(c) \/ StoreLock(c) \/ LogsReset(c) \/ Unlabel(c)
         \/ \E r \in Requests : MissingEntry(r) \/ LookUp(r) \/ Label(r) \/ Generates(r)
         \/ \E p \in Plans : PlanReturns(p)
BY DEF RegistryNext, HandlerStep, EngineStep, RunStep, Generates, LogsReset

LEMMA SlotsOfCallers ==
  /\ \A c \in Callers : SlotOfCaller(c) \in Slots /\ c \in Locks
  /\ \A r \in Requests : r \in Callers /\ SlotOfCaller(r) = SlotOf[KeyOf[r]]
  /\ \A p \in Plans : p \in Callers /\ SlotOfCaller(p) = PlanSlot[p]
  /\ None \notin Locks /\ None \notin Keys
BY RegistryAssumption DEF Callers, SlotOfCaller

\* A statement of a handler leaves the engine alone, or is its check of the
\* lock, with an object of the table; LogsReset writes the logs and no more.
LEMMA EngineView ==
  ASSUME RegistryTypeOK, [RegistryNext]_allVars
  PROVE  [AnyNext]_vars \/ \E c \in Callers : LogsReset(c)
<1>1. CASE UNCHANGED allVars
  BY <1>1 DEF allVars
<1>2. ASSUME NEW c \in Callers, TestEntry(c) \/ StoreLock(c) \/ Unlabel(c) PROVE UNCHANGED vars
  BY <1>2 DEF TestEntry, StoreLock, Unlabel
<1>3. ASSUME NEW p \in Plans, PlanReturns(p) PROVE UNCHANGED vars
  BY <1>3 DEF PlanReturns
<1>4. ASSUME NEW r \in Requests, MissingEntry(r) \/ Label(r) PROVE UNCHANGED vars
  BY <1>4 DEF MissingEntry, Label
<1>5. ASSUME NEW r \in Requests, LookUp(r) PROVE AnyNext
  <2>1. table[SlotOfCaller(r)] \in Locks
    BY <1>5, SlotsOfCallers DEF LookUp, RegistryTypeOK
  <2>2. CheckStep(r)
    BY <1>5, <2>1 DEF LookUp, CheckStep
  <2>3. QED
    BY <2>2 DEF AnyNext
<1>6. ASSUME NEW r \in Requests, Generates(r) PROVE AnyNext
  BY <1>6 DEF Generates, AnyNext
<1>7. QED
  BY <1>1, <1>2, <1>3, <1>4, <1>5, <1>6, RegistrySteps

-----------------------------------------------------------------------------
(* Type correctness.                                                       *)

\* A reset empties some logs, and its handler goes on.
LEMMA ResetEffect ==
  ASSUME RegistryTypeOK, NEW c \in Callers, LogsReset(c)
  PROVE  /\ at[c] \in Creating
         /\ \E next \in Creating \cup {"lookup"} : at' = [at EXCEPT ![c] = next]
         /\ \A k \in Keys : logs'[k] \in {logs[k], <<>>}
         /\ DOMAIN logs' = Keys /\ logs' = [k \in Keys |-> logs'[k]]
         /\ logMade' \in [Keys -> BOOLEAN]
         /\ UNCHANGED <<pc, ref, lockVars, procVars, table, active, stored>>
<1>1. ASSUME NEW keys \in SUBSET Keys, NEW here, ResetLog(c, here, keys)
      PROVE  /\ at[c] = here
             /\ \A k \in Keys : logs'[k] \in {logs[k], <<>>}
             /\ DOMAIN logs' = Keys /\ logs' = [k \in Keys |-> logs'[k]]
             /\ logMade' \in [Keys -> BOOLEAN]
             /\ UNCHANGED <<pc, ref, lockVars, procVars, table, active, stored>>
  <2> DEFINE these == {k \in keys : SlotOf[k] = SlotOfCaller(c)}
  <2>1. /\ at[c] = here
        /\ logs' = [k \in Keys |-> IF k \in these THEN <<>> ELSE logs[k]]
        /\ logMade' = [k \in Keys |-> k \in these \/ logMade[k]]
        /\ UNCHANGED <<pc, ref, lockVars, procVars, table, active, stored>>
    BY <1>1 DEF ResetLog
  <2>2. \A k \in Keys : logMade[k] \in BOOLEAN
    BY DEF RegistryTypeOK
  <2> HIDE DEF these
  <2>3. \A k \in Keys : (k \in these \/ logMade[k]) \in BOOLEAN
    BY <2>2, Zenon
  <2>4. logMade' \in [Keys -> BOOLEAN]
    BY <2>1, <2>3, Zenon
  <2>5. QED
    BY <2>1, <2>4
<1>2. CASE ResetFirstLog(c)
  <2>1. ResetLog(c, "resetting", FirstLogs) /\ FirstLogs \in SUBSET Keys
    BY <1>2, RegistryAssumption DEF ResetFirstLog
  <2>2. \E next \in Creating \cup {"lookup"} : at' = [at EXCEPT ![c] = next]
    BY <1>2 DEF ResetFirstLog, Advance, Creating
  <2>3. QED
    BY <1>1, <2>1, <2>2 DEF Creating
<1>3. CASE ResetOtherLog(c)
  <2>1. ResetLog(c, "resettingOther", Keys \ FirstLogs) /\ Keys \ FirstLogs \in SUBSET Keys
    BY <1>3 DEF ResetOtherLog
  <2>2. \E next \in Creating \cup {"lookup"} : at' = [at EXCEPT ![c] = next]
    BY <1>3 DEF ResetOtherLog, Advance, Creating
  <2>3. QED
    BY <1>1, <2>1, <2>2 DEF Creating
<1>4. QED
  BY <1>2, <1>3 DEF LogsReset

LEMMA ResetTypes ==
  ASSUME RegistryTypeOK, NEW c \in Callers, LogsReset(c)
  PROVE  TypeOK'
<1>1. TypeOK /\ logs \in [Keys -> Seq(Piece)]
  BY DEF RegistryTypeOK, TypeOK
<1>2. logs' \in [Keys -> Seq(Piece)]
  <2>1. \A k \in Keys : logs'[k] \in Seq(Piece)
    <3>1. \A k \in Keys : logs[k] \in Seq(Piece) /\ logs'[k] \in {logs[k], <<>>} /\ <<>> \in Seq(Piece)
      BY <1>1, ResetEffect
    <3>2. QED
      BY <3>1
  <2>2. QED
    BY <2>1, ResetEffect
<1>3. UNCHANGED <<pc, ref, lockVars, procVars>>
  BY ResetEffect
<1>4. QED
  BY <1>1, <1>2, <1>3 DEF TypeOK, lockVars, procVars

LEMMA RegistryTypeStep == RegistryTypeOK /\ [RegistryNext]_allVars => RegistryTypeOK'
<1> SUFFICES ASSUME RegistryTypeOK, [RegistryNext]_allVars PROVE RegistryTypeOK'
  OBVIOUS
<1>1. TypeOK'
  BY EngineView, TypeStep, ResetTypes DEF RegistryTypeOK
<1> DEFINE TablesOK ==
      /\ at \in [Callers -> Statements]
      /\ table \in [Slots -> Locks \cup {None}]
      /\ logMade \in [Keys -> BOOLEAN]
      /\ active \in [Slots -> Keys \cup {None}]
      /\ stored \in [Slots -> SUBSET Locks]
<1>2. TablesOK'
  <2> USE DEF RegistryTypeOK, Statements, Creating, registryVars
  <2>1. CASE UNCHANGED allVars
    BY <2>1 DEF allVars
  <2>2. ASSUME NEW c \in Callers, TestEntry(c) PROVE TablesOK'
    BY <2>2 DEF TestEntry, Advance
  <2>3. ASSUME NEW c \in Callers, StoreLock(c) PROVE TablesOK'
    BY <2>3, SlotsOfCallers DEF StoreLock, Advance
  <2>4. ASSUME NEW c \in Callers, LogsReset(c) PROVE TablesOK'
    BY <2>4, ResetEffect
  <2>5. ASSUME NEW r \in Requests, MissingEntry(r) PROVE TablesOK'
    BY <2>5 DEF MissingEntry, Advance
  <2>6. ASSUME NEW r \in Requests, LookUp(r) PROVE TablesOK'
    BY <2>6 DEF LookUp, Advance
  <2>7. ASSUME NEW r \in Requests, Label(r) PROVE TablesOK'
    BY <2>7 DEF Label, Advance
  <2>8. ASSUME NEW r \in Requests, Generates(r) PROVE TablesOK'
    BY <2>8 DEF Generates
  <2>9. ASSUME NEW p \in Plans, PlanReturns(p) PROVE TablesOK'
    BY <2>9 DEF PlanReturns, Advance
  <2>10. ASSUME NEW c \in Callers, Unlabel(c) PROVE TablesOK'
    BY <2>10, SlotsOfCallers DEF Unlabel, Advance
  <2>11. QED
    BY <2>1, <2>2, <2>3, <2>4, <2>5, <2>6, <2>7, <2>8, <2>9, <2>10, RegistrySteps
<1>3. QED
  BY <1>1, <1>2 DEF RegistryTypeOK

\* The tables hold lock objects, labels that are keys and statements of the
\* handlers, whoever creates an entry while others read it.
THEOREM RegistryTypeCorrect == RegistrySpec => []RegistryTypeOK
<1>1. RegistryInit => RegistryTypeOK
  <2> SUFFICES ASSUME RegistryInit PROVE RegistryTypeOK
    OBVIOUS
  <2>1. TypeOK
    BY DEF RegistryInit, Init, TypeOK, Places
  <2>2. at \in [Callers -> Statements]
    BY DEF RegistryInit, Statements, Creating
  <2>3. /\ table \in [Slots -> Locks \cup {None}]
        /\ logMade \in [Keys -> BOOLEAN]
        /\ active \in [Slots -> Keys \cup {None}]
        /\ stored \in [Slots -> SUBSET Locks]
    BY RegistryAssumption DEF RegistryInit
  <2>4. QED
    BY <2>1, <2>2, <2>3 DEF RegistryTypeOK
<1>2. QED
  BY <1>1, RegistryTypeStep, PTL DEF RegistrySpec

-----------------------------------------------------------------------------
(* The locks.                                                              *)

\* Whichever objects the tables hand out, each is a correct lock.
LocksWork == NoLostWakeup /\ OneRunPerLock

LEMMA LocksWorkStep ==
  RegistryTypeOK /\ LocksWork /\ [RegistryNext]_allVars => LocksWork'
<1> SUFFICES ASSUME RegistryTypeOK, LocksWork, [RegistryNext]_allVars PROVE LocksWork'
  OBVIOUS
<1>1. CASE [AnyNext]_vars
  BY <1>1, WakeupStep, MutexStep DEF LocksWork, RegistryTypeOK
<1>2. ASSUME NEW c \in Callers, LogsReset(c) PROVE LocksWork'
  <2>1. UNCHANGED <<pc, ref, locked, queue, granted>>
    BY <1>2, ResetEffect DEF lockVars
  <2>2. NoLostWakeup'
    BY <2>1 DEF LocksWork, NoLostWakeup, GrantIsDue, WaitersAreQueued, QueuedOnce
  <2>3. OneRunPerLock'
    BY <2>1 DEF LocksWork, OneRunPerLock, Holder
  <2>4. QED
    BY <2>2, <2>3 DEF LocksWork
<1>3. QED
  BY <1>1, <1>2, EngineView

LEMMA LocksWorkAlways == RegistrySpec => []LocksWork
<1>1. RegistryInit => LocksWork
  BY DEF RegistryInit, Init, LocksWork, NoLostWakeup, GrantIsDue, WaitersAreQueued,
     QueuedOnce, OneRunPerLock, Holder, Holding
<1>2. QED
  BY <1>1, LocksWorkStep, RegistryTypeCorrect, PTL DEF RegistrySpec

-----------------------------------------------------------------------------
(* What a generator may do to its request.                                 *)

\* A generator keeps the lock object its handler got, and none runs for a
\* request that was never accepted.
LEMMA GeneratorKeeps ==
  ASSUME RegistryTypeOK, NEW r \in Requests, Generates(r)
  PROVE  /\ UNCHANGED <<ref, at, table, logMade, active, stored>>
         /\ \A s \in Requests : pc'[s] \in {"new", "rejected"} <=> pc[s] \in {"new", "rejected"}
         /\ \A s \in Requests : pc'[s] = "new" <=> pc[s] = "new"
<1>1. \/ AcquireFree(r) \/ AcquireWait(r) \/ AcquireTurn(r)
      \/ CancelWaiting(r) \/ GivesBack(r) \/ LocksUntouched(r)
  BY GeneratorKinds DEF Generates, RegistryTypeOK
<1>2. UNCHANGED <<at, table, logMade, active, stored>>
  BY DEF Generates, registryVars
<1>3. UNCHANGED ref
  BY <1>1 DEF AcquireFree, AcquireWait, AcquireTurn, Begin, CancelWaiting, GivesBack, LocksUntouched
<1>4. \/ UNCHANGED pc
      \/ /\ pc[r] \in {"accepted", "waiting"} \cup Holding
         /\ \E place \in {"waiting", "done", "aborted"} \cup Holding : pc' = [pc EXCEPT ![r] = place]
  BY <1>1 DEF AcquireFree, AcquireWait, AcquireTurn, Begin, CancelWaiting, GivesBack,
     LocksUntouched, GoTo, Holding
<1>5. \A s \in Requests :
        pc'[s] = pc[s] \/ (pc[s] \notin {"new", "rejected"} /\ pc'[s] \notin {"new", "rejected"})
  BY <1>4 DEF RegistryTypeOK, TypeOK, Holding
<1>6. QED
  BY <1>2, <1>3, <1>5

\* The check of r changes the place of r only, and remembers a lock of the table.
LEMMA LookUpChecks ==
  ASSUME RegistryTypeOK, NEW r \in Requests, LookUp(r)
  PROVE  /\ pc[r] = "new" /\ pc'[r] \in {"rejected", "accepted"}
         /\ pc'[r] = "rejected" => at'[r] = "returned"
         /\ table[SlotOfCaller(r)] # None
         /\ ref'[r] = table[SlotOfCaller(r)]
         /\ \A s \in Requests : s # r => pc'[s] = pc[s] /\ ref'[s] = ref[s]
         /\ at'[r] \in {"returned", "labelling"}
         /\ \A c \in Callers : c # r => at'[c] = at[c]
         /\ UNCHANGED <<table, logMade, active, stored, taken, logs>>
BY SlotsOfCallers DEF LookUp, Check, GoTo, Advance, RegistryTypeOK, TypeOK, registryVars, procVars

-----------------------------------------------------------------------------
(* Entries that have been made.                                            *)

\* A caller whose handler creates entries finds one once it is past the
\* creation, and nobody takes an entry away.
EntryIsMade ==
  \A c \in Callers :
    Creates(c) /\ at[c] \in Creating \cup {"lookup", "labelling", "returned"}
      => table[SlotOfCaller(c)] # None

LEMMA EntryIsMadeStep ==
  RegistryTypeOK /\ EntryIsMade /\ [RegistryNext]_allVars => EntryIsMade'
<1> SUFFICES ASSUME RegistryTypeOK, EntryIsMade, [RegistryNext]_allVars,
                    NEW c \in Callers, Creates(c),
                    at'[c] \in Creating \cup {"lookup", "labelling", "returned"}
             PROVE  table'[SlotOfCaller(c)] # None
  BY DEF EntryIsMade, Creates, SlotOfCaller
<1> USE DEF EntryIsMade
<1>1. CASE UNCHANGED <<at, table>>
  BY <1>1
<1>2. ASSUME NEW d \in Callers, TestEntry(d) PROVE table'[SlotOfCaller(c)] # None
  BY <1>2 DEF TestEntry, Advance, registryVars, RegistryTypeOK, Creating
<1>3. ASSUME NEW d \in Callers, StoreLock(d) PROVE table'[SlotOfCaller(c)] # None
  BY <1>3, SlotsOfCallers DEF StoreLock, Advance, RegistryTypeOK
<1>4. ASSUME NEW d \in Callers, LogsReset(d) PROVE table'[SlotOfCaller(c)] # None
  BY <1>4, ResetEffect DEF RegistryTypeOK, Creating
<1>5. ASSUME NEW r \in Requests, MissingEntry(r) PROVE table'[SlotOfCaller(c)] # None
  BY <1>5, SlotsOfCallers DEF MissingEntry, Advance, registryVars, RegistryTypeOK
<1>6. ASSUME NEW r \in Requests, LookUp(r) PROVE table'[SlotOfCaller(c)] # None
  BY <1>6, LookUpChecks
<1>7. ASSUME NEW r \in Requests, Label(r) PROVE table'[SlotOfCaller(c)] # None
  BY <1>7 DEF Label, Advance, RegistryTypeOK
<1>8. ASSUME NEW p \in Plans, PlanReturns(p) PROVE table'[SlotOfCaller(c)] # None
  BY <1>8 DEF PlanReturns, Advance, registryVars, RegistryTypeOK
<1>9. ASSUME NEW d \in Callers, Unlabel(d) PROVE table'[SlotOfCaller(c)] # None
  BY <1>9 DEF Unlabel, Advance, RegistryTypeOK, Creating
<1>10. QED
  BY <1>1, <1>2, <1>3, <1>4, <1>5, <1>6, <1>7, <1>8, <1>9, RegistrySteps
  DEF Generates, allVars, registryVars

LEMMA EntryIsMadeAlways == RegistrySpec => []EntryIsMade
<1>1. RegistryInit => EntryIsMade
  BY DEF RegistryInit, EntryIsMade, Creating
<1>2. QED
  BY <1>1, EntryIsMadeStep, RegistryTypeCorrect, PTL DEF RegistrySpec

\* A handler of a slot whose plan was served, or that creates its own entry,
\* does not die of a KeyError: the entry it looks up was made before, by
\* whoever came first, and stays.
THEOREM NoKeyErrors == RegistrySpec => NoKeyErrorAfterPlan
<1> DEFINE Excused(r) == at[r] # "failed" /\ at'[r] = "failed" =>
             /\ SlotOf[KeyOf[r]] \notin Ensuring
             /\ \A p \in Plans : PlanSlot[p] = SlotOf[KeyOf[r]] => at[p] # "returned"
<1>1. ASSUME RegistryTypeOK, EntryIsMade, [RegistryNext]_allVars, NEW r \in Requests
      PROVE  Excused(r)
  <2> SUFFICES ASSUME at[r] # "failed", at'[r] = "failed"
               PROVE  /\ SlotOf[KeyOf[r]] \notin Ensuring
                      /\ \A p \in Plans : PlanSlot[p] = SlotOf[KeyOf[r]] => at[p] # "returned"
    OBVIOUS
  <2>1. r \in Callers /\ SlotOfCaller(r) = SlotOf[KeyOf[r]] /\ r \notin Plans
    BY SlotsOfCallers, RegistryAssumption
  <2>2. RegistryNext
    BY <1>1 DEF allVars
  <2>3. ASSUME NEW c \in Callers, TestEntry(c) \/ StoreLock(c) \/ LogsReset(c) \/ Unlabel(c)
        PROVE  FALSE
    <3>1. CASE LogsReset(c)
      BY <1>1, <2>1, <3>1, ResetEffect DEF Creating, RegistryTypeOK
    <3>2. CASE TestEntry(c) \/ StoreLock(c) \/ Unlabel(c)
      BY <1>1, <2>1, <3>2 DEF TestEntry, StoreLock, Unlabel, Advance, RegistryTypeOK
    <3>3. QED
      BY <2>3, <3>1, <3>2
  <2>4. ASSUME NEW s \in Requests, LookUp(s) \/ Label(s) \/ Generates(s) PROVE FALSE
    <3>1. ~LookUp(s)
      BY <1>1, <2>1, LookUpChecks
    <3>2. QED
      BY <1>1, <2>1, <2>4, <3>1 DEF Label, Generates, Advance, RegistryTypeOK
  <2>5. ASSUME NEW p \in Plans, PlanReturns(p) PROVE FALSE
    BY <1>1, <2>1, <2>5, SlotsOfCallers DEF PlanReturns, Advance, RegistryTypeOK
  <2>6. PICK s \in Requests : MissingEntry(s)
    BY <2>2, <2>3, <2>4, <2>5, RegistrySteps
  <2>7. s = r
    BY <1>1, <2>1, <2>6, SlotsOfCallers DEF MissingEntry, Advance, RegistryTypeOK
  <2>8. at[r] = "lookup" /\ table[SlotOf[KeyOf[r]]] = None
    BY <2>1, <2>6, <2>7 DEF MissingEntry
  <2>9. SlotOf[KeyOf[r]] \notin Ensuring
    BY <1>1, <2>1, <2>8 DEF EntryIsMade, Creates
  <2>10. ASSUME NEW p \in Plans, PlanSlot[p] = SlotOf[KeyOf[r]] PROVE at[p] # "returned"
    BY <1>1, <2>8, <2>10, SlotsOfCallers DEF EntryIsMade, Creates
  <2>11. QED
    BY <2>9, <2>10
<1>2. RegistryTypeOK /\ EntryIsMade /\ [RegistryNext]_allVars
        => [\A r \in Requests : Excused(r)]_allVars
  BY <1>1
<1>3. QED
  BY <1>2, EntryIsMadeAlways, RegistryTypeCorrect, PTL DEF RegistrySpec, NoKeyErrorAfterPlan

-----------------------------------------------------------------------------
(* The lock objects of a slot.                                             *)

\* What the table holds, and what any request of the slot has got, is one of
\* the objects that were stored there, of which there are finitely many.
Kept ==
  /\ \A slot \in Slots : /\ IsFiniteSet(stored[slot])
                         /\ table[slot] # None => table[slot] \in stored[slot]
  /\ \A r \in Requests : pc[r] # "new" => ref[r] \in stored[SlotOf[KeyOf[r]]]

LEMMA KeptStep == RegistryTypeOK /\ Kept /\ [RegistryNext]_allVars => Kept'
<1> SUFFICES ASSUME RegistryTypeOK, Kept, [RegistryNext]_allVars PROVE Kept'
  OBVIOUS
<1> USE DEF Kept
<1>1. CASE UNCHANGED <<pc, ref, table, stored>>
  BY <1>1
<1>2. ASSUME NEW c \in Callers, StoreLock(c) PROVE Kept'
  <2> DEFINE slot == SlotOfCaller(c)
  <2>1. /\ slot \in Slots
        /\ \A s \in Slots : s # slot => table'[s] = table[s] /\ stored'[s] = stored[s]
        /\ table'[slot] = c /\ stored'[slot] = stored[slot] \cup {c}
        /\ UNCHANGED <<pc, ref>>
    BY <1>2, SlotsOfCallers DEF StoreLock, RegistryTypeOK, vars
  <2> HIDE DEF slot
  <2>2. IsFiniteSet(stored[slot] \cup {c})
    BY <2>1, FS_AddElement
  <2>3. \A s \in Slots : stored[s] \subseteq stored'[s]
    BY <2>1
  <2>4. \A r \in Requests : SlotOf[KeyOf[r]] \in Slots
    BY SlotsOfCallers
  <2>5. QED
    BY <2>1, <2>2, <2>3, <2>4
<1>3. ASSUME NEW r \in Requests, LookUp(r) PROVE Kept'
  <2>1. SlotOfCaller(r) = SlotOf[KeyOf[r]] /\ SlotOf[KeyOf[r]] \in Slots
    BY SlotsOfCallers
  <2>2. QED
    BY <1>3, <2>1, LookUpChecks
<1>4. ASSUME NEW r \in Requests, Generates(r) PROVE Kept'
  BY <1>4, GeneratorKeeps
<1>5. ASSUME NEW c \in Callers, TestEntry(c) \/ LogsReset(c) \/ Unlabel(c)
      PROVE  UNCHANGED <<pc, ref, table, stored>>
  BY <1>5, ResetEffect DEF TestEntry, Unlabel, vars, registryVars
<1>6. ASSUME NEW r \in Requests, MissingEntry(r) \/ Label(r) PROVE UNCHANGED <<pc, ref, table, stored>>
  BY <1>6 DEF MissingEntry, Label, vars, registryVars
<1>7. ASSUME NEW p \in Plans, PlanReturns(p) PROVE UNCHANGED <<pc, ref, table, stored>>
  BY <1>7 DEF PlanReturns, vars, registryVars
<1>8. QED
  BY <1>1, <1>2, <1>3, <1>4, <1>5, <1>6, <1>7, RegistrySteps DEF allVars, vars, registryVars

LEMMA KeptAlways == RegistrySpec => []Kept
<1>1. RegistryInit => Kept
  <2> SUFFICES ASSUME RegistryInit PROVE Kept
    OBVIOUS
  <2>1. \A slot \in Slots : /\ IsFiniteSet(stored[slot])
                            /\ table[slot] # None => table[slot] \in stored[slot]
    BY FS_EmptySet, FS_Singleton DEF RegistryInit
  <2>2. \A r \in Requests : pc[r] = "new"
    BY DEF RegistryInit, Init
  <2>3. QED
    BY <2>1, <2>2 DEF Kept
<1>2. QED
  BY <1>1, KeptStep, RegistryTypeCorrect, PTL DEF RegistrySpec

\* Runs of one slot that overlap hold different locks, each of them stored
\* there by a handler that had found the entry missing: as many runs at most
\* as locks were stored, so a slot whose entry was created once has one.
THEOREM OverlapsAreBounded == RegistrySpec => []OverlapBoundedByCreations
<1>1. ASSUME RegistryTypeOK, LocksWork, Kept PROVE OverlapBoundedByCreations
  <2> SUFFICES ASSUME NEW slot \in Slots
               PROVE  Cardinality(HoldersOf(slot)) <= Cardinality(stored[slot])
    BY DEF OverlapBoundedByCreations
  <2> DEFINE H == HoldersOf(slot)
             held == [r \in H |-> ref[r]]
  <2>1. ASSUME NEW r \in H
        PROVE  /\ ref[r] \in stored[slot]
               /\ ref[r] \in Locks /\ r \in Requests /\ pc[r] \in Holding
    BY <1>1 DEF HoldersOf, Kept, Holding, RegistryTypeOK, TypeOK
  <2>2. ASSUME NEW r \in H, NEW s \in H, ref[r] = ref[s] PROVE r = s
    BY <1>1, <2>1, <2>2 DEF LocksWork, OneRunPerLock, Holder
  <2> HIDE DEF H
  <2>3. held \in Injection(H, stored[slot])
    BY <2>1, <2>2 DEF Injection, IsInjective
  <2>4. IsFiniteSet(stored[slot])
    BY <1>1 DEF Kept
  <2>5. Cardinality(H) <= Cardinality(stored[slot])
    <3> HIDE DEF held
    <3>1. QED
      BY <2>3, <2>4, FS_Injection
  <2>6. QED
    BY <2>5 DEF H
<1>2. QED
  BY <1>1, RegistryTypeCorrect, LocksWorkAlways, KeptAlways, PTL

-----------------------------------------------------------------------------
(* The label of a slot.                                                    *)

Accepted(r) == pc[r] \notin {"new", "rejected"}

\* A label names the action of a request of the slot that was accepted, and
\* only such a request is about to set one.
LabelIsOfAccepted ==
  /\ \A r \in Requests : at[r] = "labelling" => Accepted(r)
  /\ \A slot \in Slots : active[slot] # None =>
       \E r \in Requests : SlotOf[KeyOf[r]] = slot /\ KeyOf[r] = active[slot] /\ Accepted(r)

LEMMA LabelStep == RegistryTypeOK /\ LabelIsOfAccepted /\ [RegistryNext]_allVars => LabelIsOfAccepted'
<1> SUFFICES ASSUME RegistryTypeOK, LabelIsOfAccepted, [RegistryNext]_allVars
             PROVE  LabelIsOfAccepted'
  OBVIOUS
<1>1. ASSUME \A r \in Requests : Accepted(r) => (Accepted(r))',
             \A r \in Requests : at'[r] = "labelling" => at[r] = "labelling",
             \A slot \in Slots : active'[slot] \in {None, active[slot]}
      PROVE  LabelIsOfAccepted'
  BY <1>1 DEF LabelIsOfAccepted
<1>2. ASSUME UNCHANGED pc PROVE \A r \in Requests : Accepted(r) => (Accepted(r))'
  BY <1>2 DEF Accepted
<1>3. CASE UNCHANGED <<pc, at, active>>
  BY <1>1, <1>2, <1>3
<1>4. ASSUME NEW c \in Callers, TestEntry(c) \/ StoreLock(c) PROVE LabelIsOfAccepted'
  BY <1>1, <1>2, <1>4, SlotsOfCallers
  DEF TestEntry, StoreLock, Advance, vars, registryVars, RegistryTypeOK
<1>5. ASSUME NEW c \in Callers, LogsReset(c) \/ Unlabel(c) PROVE LabelIsOfAccepted'
  <2>1. CASE LogsReset(c)
    <3>1. PICK next \in Creating \cup {"lookup"} : at' = [at EXCEPT ![c] = next]
      BY <2>1, ResetEffect
    <3>2. UNCHANGED <<pc, active>>
      BY <2>1, ResetEffect
    <3>3. \A r \in Requests : at'[r] = "labelling" => at[r] = "labelling"
      BY <3>1, SlotsOfCallers DEF Creating, RegistryTypeOK
    <3>4. QED
      BY <1>1, <1>2, <3>2, <3>3
  <2>2. CASE Unlabel(c)
    BY <1>1, <1>2, <2>2, SlotsOfCallers DEF Unlabel, Advance, vars, RegistryTypeOK
  <2>3. QED
    BY <1>5, <2>1, <2>2
<1>6. ASSUME NEW p \in Plans, PlanReturns(p) PROVE LabelIsOfAccepted'
  BY <1>1, <1>2, <1>6, SlotsOfCallers DEF PlanReturns, Advance, vars, registryVars, RegistryTypeOK
<1>7. ASSUME NEW r \in Requests, MissingEntry(r) PROVE LabelIsOfAccepted'
  BY <1>1, <1>2, <1>7, SlotsOfCallers DEF MissingEntry, Advance, vars, registryVars, RegistryTypeOK
<1>8. ASSUME NEW r \in Requests, LookUp(r) PROVE LabelIsOfAccepted'
  <2>1. \A s \in Requests : Accepted(s) => (Accepted(s))'
    BY <1>8, LookUpChecks DEF Accepted
  <2>2. at'[r] = "labelling" => (Accepted(r))'
    BY <1>8, LookUpChecks DEF Accepted
  <2>3. \A s \in Requests : s # r => at'[s] = at[s]
    BY <1>8, LookUpChecks, SlotsOfCallers
  <2>4. UNCHANGED active
    BY <1>8, LookUpChecks
  <2>5. QED
    BY <2>1, <2>2, <2>3, <2>4 DEF LabelIsOfAccepted
<1>9. ASSUME NEW r \in Requests, Label(r) PROVE LabelIsOfAccepted'
  <2> DEFINE slot == SlotOf[KeyOf[r]]
  <2>1. slot \in Slots /\ SlotOfCaller(r) = slot
    BY SlotsOfCallers
  <2> HIDE DEF slot
  <2>2. /\ active' = [active EXCEPT ![slot] = KeyOf[r]]
        /\ at[r] = "labelling" /\ at'[r] = "returned"
        /\ \A s \in Requests : s # r => at'[s] = at[s]
        /\ UNCHANGED pc
    BY <1>9, <2>1, SlotsOfCallers DEF Label, Advance, vars, RegistryTypeOK
  <2>3. \A s \in Requests : Accepted(s) <=> (Accepted(s))'
    BY <2>2 DEF Accepted
  <2>4. Accepted(r)
    BY <2>2 DEF LabelIsOfAccepted
  <2>5. \A s \in Slots : active'[s] = IF s = slot THEN KeyOf[r] ELSE active[s]
    BY <2>2 DEF RegistryTypeOK
  <2>6. SlotOf[KeyOf[r]] = slot
    BY DEF slot
  <2>7. QED
    BY <2>2, <2>3, <2>4, <2>5, <2>6 DEF LabelIsOfAccepted
<1>10. ASSUME NEW r \in Requests, Generates(r) PROVE LabelIsOfAccepted'
  BY <1>1, <1>10, GeneratorKeeps DEF Accepted
<1>11. QED
  BY <1>3, <1>4, <1>5, <1>6, <1>7, <1>8, <1>9, <1>10, RegistrySteps DEF allVars, vars, registryVars

\* The label shows the run that is there, or nothing, when no other request of
\* the slot was ever accepted: refusals and late resets cannot change it into
\* the name of the other action.
THEOREM LoneRunsAreNamed == RegistrySpec => []LabelOfALoneRun
<1>1. RegistryInit => LabelIsOfAccepted
  <2> SUFFICES ASSUME RegistryInit PROVE LabelIsOfAccepted
    OBVIOUS
  <2>1. \A r \in Requests : at[r] # "labelling"
    BY SlotsOfCallers DEF RegistryInit
  <2>2. \A slot \in Slots : active[slot] = None
    BY DEF RegistryInit
  <2>3. QED
    BY <2>1, <2>2 DEF LabelIsOfAccepted
<1>2. ASSUME RegistryTypeOK, LabelIsOfAccepted PROVE LabelOfALoneRun
  <2> SUFFICES ASSUME NEW r \in Requests,
                      \A s \in Requests \ {r} :
                         SlotOf[KeyOf[s]] = SlotOf[KeyOf[r]] => pc[s] \in {"new", "rejected"}
               PROVE  active[SlotOf[KeyOf[r]]] \in {KeyOf[r], None}
    BY DEF LabelOfALoneRun
  <2>1. SlotOf[KeyOf[r]] \in Slots
    BY SlotsOfCallers
  <2>2. QED
    BY <1>2, <2>1 DEF LabelIsOfAccepted, Accepted
<1>3. QED
  BY <1>1, <1>2, LabelStep, RegistryTypeCorrect, PTL DEF RegistrySpec

-----------------------------------------------------------------------------
(* The logs of a slot that has one lock.                                   *)

\* One run's pieces in their order; nothing follows an exit code.
Gapless(log) ==
  \A i \in 1..(Len(log) - 1) :
    /\ log[i + 1].by = log[i].by
    /\ log[i].n # Exit
    /\ log[i + 1].n = Exit \/ log[i + 1].n = log[i].n + 1

\* Chunk t of r is the last piece of the log, unless the log was reset.
EndsAt(log, r, t) ==
  log # <<>> => t # Exit /\ log[Len(log)].by = r /\ log[Len(log)].n = t

\* The next chunk, or the exit code, leaves no gap.
LEMMA GaplessAppend ==
  ASSUME NEW log \in Seq(Piece), Gapless(log), NEW r \in Requests, NEW t \in Nat,
         EndsAt(log, r, t), NEW piece \in Piece,
         piece.by = r, piece.n = t + 1 \/ piece.n = Exit
  PROVE  LET new == Append(log, piece) IN
         /\ new \in Seq(Piece) /\ new # <<>>
         /\ Gapless(new)
         /\ new[Len(new)] = piece
<1> DEFINE new == Append(log, piece)
<1>1. Len(log) \in Nat
  OBVIOUS
<1>2. /\ new \in Seq(Piece) /\ Len(new) = Len(log) + 1
      /\ \A i \in 1..Len(log) : new[i] = log[i]
      /\ new[Len(log) + 1] = piece
  OBVIOUS
<1>3. new # <<>>
  BY <1>1, <1>2
<1> HIDE DEF new
<1>4. ASSUME NEW i \in 1..(Len(new) - 1)
      PROVE  /\ new[i + 1].by = new[i].by
             /\ new[i].n # Exit
             /\ new[i + 1].n = Exit \/ new[i + 1].n = new[i].n + 1
  <2>1. CASE i = Len(log)
    <3>1. log # <<>> /\ new[i] = log[Len(log)] /\ new[i + 1] = piece
      BY <2>1, <1>1, <1>2
    <3>2. QED
      BY <3>1, <1>1 DEF EndsAt
  <2>2. CASE i # Len(log)
    <3>1. i \in 1..(Len(log) - 1) /\ i \in 1..Len(log) /\ i + 1 \in 1..Len(log)
      BY <2>2, <1>1, <1>2
    <3>2. new[i] = log[i] /\ new[i + 1] = log[i + 1]
      BY <3>1, <1>2
    <3>3. QED
      BY <3>1, <3>2 DEF Gapless
  <2>3. QED
    BY <2>1, <2>2
<1>5. Gapless(new)
  BY <1>4 DEF Gapless
<1>6. QED
  BY <1>1, <1>2, <1>3, <1>5 DEF new

\* What LOG_CAP keeps of a log is its end.
LEMMA GaplessClip ==
  ASSUME NEW log \in Seq(Piece), log # <<>>, Gapless(log)
  PROVE  /\ Gapless(Clip(log)) /\ Clip(log) # <<>>
         /\ Clip(log)[Len(Clip(log))] = log[Len(log)]
<1>1. CASE Len(log) <= LogCap
  BY <1>1 DEF Clip
<1>2. CASE ~(Len(log) <= LogCap)
  <2> DEFINE d == Len(log) - LogCap
             end == SubSeq(log, d + 1, Len(log))
  <2>1. d \in Nat \ {0} /\ Len(log) = d + LogCap /\ LogCap \in Nat \ {0}
    BY <1>2
  <2>2. Clip(log) = end
    BY <1>2 DEF Clip
  <2> HIDE DEF d
  <2>3. Len(end) = LogCap /\ \A i \in 1..LogCap : end[i] = log[d + i]
    BY <2>1
  <2>4. end # <<>>
    BY <2>1, <2>3
  <2> HIDE DEF end
  <2>5. ASSUME NEW i \in 1..(LogCap - 1)
        PROVE  /\ end[i + 1].by = end[i].by
               /\ end[i].n # Exit
               /\ end[i + 1].n = Exit \/ end[i + 1].n = end[i].n + 1
    <3>1. /\ d + i \in 1..(Len(log) - 1)
          /\ i \in 1..LogCap /\ i + 1 \in 1..LogCap
          /\ d + (i + 1) = (d + i) + 1
      BY <2>1
    <3>2. end[i] = log[d + i] /\ end[i + 1] = log[(d + i) + 1]
      BY <2>3, <3>1
    <3>3. QED
      BY <3>1, <3>2 DEF Gapless
  <2>6. Gapless(end)
    BY <2>3, <2>5 DEF Gapless
  <2>7. end[Len(end)] = log[Len(log)]
    BY <2>1, <2>3
  <2>8. QED
    BY <2>2, <2>4, <2>6, <2>7
<1>3. QED
  BY <1>1, <1>2

\* The next chunk of a log, as ReadChunk mirrors it.
LEMMA NextChunk ==
  ASSUME NEW log \in Seq(Piece), Gapless(log), NEW r \in Requests, NEW t \in Nat,
         EndsAt(log, r, t)
  PROVE  LET new == Clip(Append(log, [by |-> r, n |-> t + 1])) IN
         Gapless(new) /\ EndsAt(new, r, t + 1)
<1> DEFINE piece == [by |-> r, n |-> t + 1]
           long == Append(log, piece)
<1>1. piece \in Piece /\ piece.by = r /\ piece.n = t + 1 /\ t + 1 # Exit
  BY DEF Piece, Exit
<1> HIDE DEF piece
<1>2. long \in Seq(Piece) /\ long # <<>> /\ Gapless(long) /\ long[Len(long)] = piece
  BY <1>1, GaplessAppend
<1> HIDE DEF long
<1>3. Gapless(Clip(long)) /\ Clip(long)[Len(Clip(long))] = piece
  BY <1>2, GaplessClip
<1>4. EndsAt(Clip(long), r, t + 1)
  BY <1>1, <1>3 DEF EndsAt
<1>5. QED
  BY <1>3, <1>4 DEF long, piece

\* The exit code, as ReadEnd appends it.
LEMMA LastPiece ==
  ASSUME NEW log \in Seq(Piece), Gapless(log), NEW r \in Requests, NEW t \in Nat,
         EndsAt(log, r, t)
  PROVE  Gapless(Append(log, [by |-> r, n |-> Exit]))
<1> DEFINE piece == [by |-> r, n |-> Exit]
<1>1. piece \in Piece /\ piece.by = r /\ piece.n = Exit
  BY DEF Piece, Exit
<1> HIDE DEF piece
<1>2. Gapless(Append(log, piece))
  BY <1>1, GaplessAppend
<1>3. QED
  BY <1>2 DEF piece

\* At most one object was ever stored in the slot.
OneLock(slot) == \A l, m \in stored[slot] : l = m

Coherent(k) ==
  /\ Gapless(logs[k])
  /\ \A r \in Requests : KeyOf[r] = k =>
       /\ pc[r] = "starting" => logs[k] = <<>>
       /\ pc[r] \in {"reading", "sending"} => EndsAt(logs[k], r, taken[r])

CoherentLogs == \A k \in Keys : OneLock(SlotOf[k]) => Coherent(k)

\* An empty log is whoever's.
LEMMA EmptyLog == Gapless(<<>>) /\ \A r, t : EndsAt(<<>>, r, t)
BY DEF Gapless, EndsAt

\* A step that writes no log: a generator of the key begins nothing and reads
\* nothing, or the log is emptied.
LEMMA LogLeftAlone ==
  ASSUME NEW k \in Keys, Coherent(k), logs'[k] \in {logs[k], <<>>},
         \A s \in Requests : KeyOf[s] = k =>
           /\ taken'[s] = taken[s]
           /\ pc'[s] = "starting" => pc[s] = "starting"
           /\ pc'[s] \in {"reading", "sending"} => pc[s] \in {"starting", "reading", "sending"}
  PROVE  (Coherent(k))'
<1>1. Gapless(logs'[k])
  BY EmptyLog DEF Coherent
<1>2. ASSUME NEW r \in Requests, KeyOf[r] = k
      PROVE  /\ pc'[r] = "starting" => logs'[k] = <<>>
             /\ pc'[r] \in {"reading", "sending"} => EndsAt(logs'[k], r, taken'[r])
  BY <1>2, EmptyLog DEF Coherent
<1>3. QED
  BY <1>1, <1>2 DEF Coherent

\* In a slot with one lock, whoever holds it holds off every other run.
LEMMA SoleHolder ==
  ASSUME RegistryTypeOK, LocksWork, Kept, NEW r \in Requests, NEW s \in Requests,
         OneLock(SlotOf[KeyOf[r]]), KeyOf[s] = KeyOf[r],
         pc[r] \notin {"new"}, pc[s] \in Holding
  PROVE  /\ locked[ref[r]]
         /\ pc[r] \in Holding => s = r
<1>1. ref[r] \in stored[SlotOf[KeyOf[r]]] /\ ref[s] \in stored[SlotOf[KeyOf[r]]]
  BY DEF Kept, Holding
<1>2. ref[s] = ref[r] /\ ref[r] \in Locks
  BY <1>1 DEF OneLock, RegistryTypeOK, TypeOK
<1>3. QED
  BY <1>2 DEF LocksWork, OneRunPerLock, Holder

LEMMA GeneratorKeepsCoherence ==
  ASSUME RegistryTypeOK, LocksWork, Kept, NEW r \in Requests, Generates(r),
         NEW k \in Keys, OneLock(SlotOf[k]), Coherent(k)
  PROVE  (Coherent(k))'
<1>0. /\ pc \in [Requests -> Places] /\ taken \in [Requests -> Nat] /\ logs \in [Keys -> Seq(Piece)]
      /\ KeyOf \in [Requests -> Keys]
  BY DEF RegistryTypeOK, TypeOK
<1>1. LoopStep(r) \/ ProcStep(r) \/ Stop(r)
  BY DEF Generates
<1>2. CASE AcquireFree(r) \/ AcquireTurn(r)
  <2>1. /\ pc[r] \in {"accepted", "waiting"} /\ pc' = [pc EXCEPT ![r] = "starting"]
        /\ logs' = [logs EXCEPT ![KeyOf[r]] = <<>>]
        /\ UNCHANGED taken
    BY <1>2 DEF AcquireFree, AcquireTurn, Begin, GoTo, procVars
  <2>2. ~locked[ref[r]]
    BY <1>2 DEF AcquireFree, AcquireTurn, Free, LocksWork, NoLostWakeup, GrantIsDue,
       RegistryTypeOK, TypeOK
  <2>3. CASE k = KeyOf[r]
    <3>1. \A s \in Requests : KeyOf[s] = k => pc[s] \notin Holding
      BY <1>0, <2>1, <2>2, <2>3, SoleHolder
    <3>2. logs'[k] = <<>>
      BY <1>0, <2>1, <2>3
    <3>3. QED
      BY <1>0, <2>1, <3>1, <3>2, EmptyLog DEF Coherent, Holding
  <2>4. CASE k # KeyOf[r]
    BY <1>0, <2>1, <2>4, LogLeftAlone
  <2>5. QED
    BY <2>3, <2>4
<1>3. CASE ReadChunk(r)
  <2>1. /\ pc[r] = "reading" /\ pc' = [pc EXCEPT ![r] = "sending"]
        /\ taken' = [taken EXCEPT ![r] = taken[r] + 1]
        /\ logs' = [logs EXCEPT ![KeyOf[r]] =
                      Clip(Append(logs[KeyOf[r]], [by |-> r, n |-> taken[r] + 1]))]
    BY <1>3 DEF ReadChunk, GoTo
  <2>2. CASE k = KeyOf[r]
    <3>1. /\ logs[k] \in Seq(Piece) /\ taken[r] \in Nat
          /\ Gapless(logs[k]) /\ EndsAt(logs[k], r, taken[r])
      BY <1>0, <2>1, <2>2 DEF Coherent
    <3>2. /\ logs'[k] = Clip(Append(logs[k], [by |-> r, n |-> taken[r] + 1]))
          /\ taken'[r] = taken[r] + 1
      BY <1>0, <2>1, <2>2
    <3>3. Gapless(logs'[k]) /\ EndsAt(logs'[k], r, taken'[r])
      BY <3>1, <3>2, NextChunk
    <3>4. ASSUME NEW s \in Requests, KeyOf[s] = k, s # r
          PROVE  pc'[s] \notin {"starting", "reading", "sending"}
      <4>1. pc[s] \notin Holding /\ pc'[s] = pc[s]
        BY <1>0, <2>1, <2>2, <3>4, SoleHolder DEF Holding
      <4>2. QED
        BY <4>1 DEF Holding
    <3>5. pc'[r] = "sending"
      BY <1>0, <2>1
    <3>6. QED
      BY <3>3, <3>4, <3>5 DEF Coherent
  <2>3. CASE k # KeyOf[r]
    BY <1>0, <2>1, <2>3, LogLeftAlone
  <2>4. QED
    BY <2>2, <2>3
<1>4. CASE ReadEnd(r)
  <2>1. /\ pc[r] = "reading" /\ pc' = [pc EXCEPT ![r] = "closing"]
        /\ UNCHANGED taken
        /\ logs' = [logs EXCEPT ![KeyOf[r]] = Append(logs[KeyOf[r]], [by |-> r, n |-> Exit])]
    BY <1>4 DEF ReadEnd, GoTo, procVars
  <2>2. CASE k = KeyOf[r]
    <3>1. /\ logs[k] \in Seq(Piece) /\ taken[r] \in Nat
          /\ Gapless(logs[k]) /\ EndsAt(logs[k], r, taken[r])
      BY <1>0, <2>1, <2>2 DEF Coherent
    <3>2. Gapless(Append(logs[k], [by |-> r, n |-> Exit]))
      BY <3>1, LastPiece
    <3>3. Gapless(logs'[k])
      BY <1>0, <2>1, <2>2, <3>2
    <3>4. ASSUME NEW s \in Requests, KeyOf[s] = k
          PROVE  pc'[s] \notin {"starting", "reading", "sending"}
      <4>1. CASE s = r
        BY <1>0, <2>1, <4>1
      <4>2. CASE s # r
        <5>1. pc[s] \notin Holding /\ pc'[s] = pc[s]
          BY <1>0, <2>1, <2>2, <3>4, <4>2, SoleHolder DEF Holding
        <5>2. QED
          BY <5>1 DEF Holding
      <4>3. QED
        BY <4>1, <4>2
    <3>5. QED
      BY <3>3, <3>4 DEF Coherent
  <2>3. CASE k # KeyOf[r]
    BY <1>0, <2>1, <2>3, LogLeftAlone
  <2>4. QED
    BY <2>2, <2>3
<1>5. CASE Spawn(r) \/ Sent(r)
  <2>1. /\ pc[r] \in {"starting", "sending"} /\ pc' = [pc EXCEPT ![r] = "reading"]
        /\ UNCHANGED <<taken, logs>>
    BY <1>5 DEF Spawn, Sent, GoTo, procVars
  <2>2. QED
    BY <1>0, <2>1, LogLeftAlone
<1>6. CASE AcquireWait(r) \/ Finish(r) \/ Finalize(r) \/ Stop(r)
  <2>1. PICK place \in {"waiting", "done", "aborted", "abandoned"} :
          pc' = [pc EXCEPT ![r] = place]
    BY <1>6 DEF AcquireWait, Finish, Finalize, Stop, SpawnFails, Disconnect, DropUnstarted,
       CancelWaiting, CancelRunning, AbandonSend, GoTo
  <2>2. UNCHANGED <<taken, logs>>
    BY <1>6 DEF AcquireWait, Finish, Finalize, Stop, SpawnFails, Disconnect, DropUnstarted,
       CancelWaiting, CancelRunning, AbandonSend, procVars
  <2>3. QED
    BY <1>0, <2>1, <2>2, LogLeftAlone
<1>7. CASE ProcStep(r)
  <2>1. UNCHANGED <<pc, taken, logs>>
    BY <1>7 DEF ProcStep, Write, ProcExit
  <2>2. QED
    BY <1>0, <2>1, LogLeftAlone
<1>8. QED
  BY <1>1, <1>2, <1>3, <1>4, <1>5, <1>6, <1>7 DEF LoopStep

LEMMA CoherenceStep ==
  RegistryTypeOK /\ LocksWork /\ Kept /\ CoherentLogs /\ [RegistryNext]_allVars => CoherentLogs'
<1> SUFFICES ASSUME RegistryTypeOK, LocksWork, Kept, CoherentLogs, [RegistryNext]_allVars,
                    NEW k \in Keys, (OneLock(SlotOf[k]))'
             PROVE  (Coherent(k))'
  BY DEF CoherentLogs
<1>1. SlotOf[k] \in Slots
  BY RegistryAssumption
<1>2. OneLock(SlotOf[k])
  <2>1. stored[SlotOf[k]] \subseteq stored'[SlotOf[k]]
    <3>1. ASSUME NEW c \in Callers, StoreLock(c) PROVE stored[SlotOf[k]] \subseteq stored'[SlotOf[k]]
      BY <1>1, <3>1, SlotsOfCallers DEF StoreLock, RegistryTypeOK
    <3>2. ASSUME NEW c \in Callers, TestEntry(c) \/ LogsReset(c) \/ Unlabel(c) PROVE UNCHANGED stored
      BY <3>2, ResetEffect DEF TestEntry, Unlabel, registryVars
    <3>3. ASSUME NEW r \in Requests, MissingEntry(r) \/ LookUp(r) \/ Label(r) \/ Generates(r)
          PROVE  UNCHANGED stored
      BY <3>3 DEF MissingEntry, LookUp, Label, Generates, registryVars
    <3>4. ASSUME NEW p \in Plans, PlanReturns(p) PROVE UNCHANGED stored
      BY <3>4 DEF PlanReturns, registryVars
    <3>5. QED
      BY <3>1, <3>2, <3>3, <3>4, RegistrySteps DEF allVars, registryVars
  <2>2. QED
    BY <2>1 DEF OneLock
<1>3. Coherent(k)
  BY <1>2 DEF CoherentLogs
<1>4. CASE UNCHANGED vars
  BY <1>3, <1>4, LogLeftAlone DEF vars, procVars
<1>5. ASSUME NEW c \in Callers, LogsReset(c) PROVE (Coherent(k))'
  <2>1. logs'[k] \in {logs[k], <<>>} /\ UNCHANGED <<pc, taken>>
    BY <1>5, ResetEffect DEF procVars
  <2>2. QED
    BY <1>3, <2>1, LogLeftAlone
<1>6. ASSUME NEW r \in Requests, LookUp(r) PROVE (Coherent(k))'
  BY <1>3, <1>6, LookUpChecks, LogLeftAlone
<1>7. ASSUME NEW r \in Requests, Generates(r) PROVE (Coherent(k))'
  BY <1>2, <1>3, <1>7, GeneratorKeepsCoherence
<1>8. ASSUME NEW c \in Callers, TestEntry(c) \/ StoreLock(c) \/ Unlabel(c) PROVE UNCHANGED vars
  BY <1>8 DEF TestEntry, StoreLock, Unlabel
<1>9. ASSUME NEW r \in Requests, MissingEntry(r) \/ Label(r) PROVE UNCHANGED vars
  BY <1>9 DEF MissingEntry, Label
<1>10. ASSUME NEW p \in Plans, PlanReturns(p) PROVE UNCHANGED vars
  BY <1>10 DEF PlanReturns
<1>11. QED
  BY <1>4, <1>5, <1>6, <1>7, <1>8, <1>9, <1>10, RegistrySteps DEF allVars

\* A slot whose entry was created once keeps each log one run's, in order and
\* without a gap, however late the creator resets it and whoever is refused,
\* queued or cancelled meanwhile.
THEOREM LogsOfOneLock == RegistrySpec => []LogCoherentWithoutRace
<1>1. RegistryInit => CoherentLogs
  <2> SUFFICES ASSUME RegistryInit, NEW k \in Keys PROVE Coherent(k)
    BY DEF CoherentLogs
  <2>1. logs[k] = <<>> /\ \A r \in Requests : pc[r] = "new"
    BY DEF RegistryInit, Init
  <2>2. QED
    BY <2>1, EmptyLog DEF Coherent
<1>2. RegistrySpec => []CoherentLogs
  BY <1>1, CoherenceStep, RegistryTypeCorrect, LocksWorkAlways, KeptAlways, PTL DEF RegistrySpec
<1>3. ASSUME RegistryTypeOK, Kept, CoherentLogs PROVE LogCoherentWithoutRace
  <2> SUFFICES ASSUME NEW k \in Keys, Cardinality(stored[SlotOf[k]]) = 1
               PROVE  Gapless(logs[k])
    BY DEF LogCoherentWithoutRace, Gapless
  <2>1. SlotOf[k] \in Slots
    BY RegistryAssumption
  <2>2. \E x : stored[SlotOf[k]] = {x}
    BY <1>3, <2>1, FS_Singleton DEF Kept
  <2>3. OneLock(SlotOf[k])
    BY <2>2 DEF OneLock
  <2>4. QED
    BY <1>3, <2>3 DEF CoherentLogs, Coherent
<1>4. QED
  BY <1>2, <1>3, RegistryTypeCorrect, KeptAlways, PTL
=============================================================================
