--------------------------- MODULE RunEngineProofs ---------------------------
(***************************************************************************)
(* Theorems about the run engine, for every set of requests, keys and      *)
(* locks, every assignment of keys to locks and every output length.       *)
(***************************************************************************)
EXTENDS RunEngine, SequenceFacts, TLAPS

USE EngineAssumption

-----------------------------------------------------------------------------
(* Facts about the operators the engine is built from.                     *)

\* [-LOG_CAP:] returns a log, never longer than LOG_CAP.
LEMMA ClipProperties ==
  ASSUME NEW S, NEW s \in Seq(S)
  PROVE  Clip(s) \in Seq(S) /\ Len(Clip(s)) <= LogCap
  BY DEF Clip

\* The engine whatever lock object the handler found: the one its key is
\* registered with (Post), or the one a table of locks holds at that moment.
CheckStep(r) == \E l \in Locks : Check(r, l)

AnyNext == \E r \in Requests : CheckStep(r) \/ LoopStep(r) \/ ProcStep(r) \/ Stop(r)

LEMMA PostIsCheck == ASSUME NEW r \in Requests, Post(r) PROVE CheckStep(r)
BY DEF Post, CheckStep

LEMMA NextIsAnyNext == Next => AnyNext
BY PostIsCheck DEF Next, AnyNext

-----------------------------------------------------------------------------
(* Type correctness.                                                       *)

\* Every step keeps every variable in its type: no pc outside Places, no
\* request in a queue that was not made, no piece in a log that nobody wrote.
LEMMA TypeStep == TypeOK /\ [AnyNext]_vars => TypeOK'
<1> SUFFICES ASSUME TypeOK, [AnyNext]_vars PROVE TypeOK'
  OBVIOUS
<1> USE DEF TypeOK, Places, Holding, Settled, GoTo, lockVars, procVars
<1>1. ASSUME NEW r \in Requests, CheckStep(r) PROVE TypeOK'
  BY <1>1 DEF CheckStep, Check
<1>2. ASSUME NEW r \in Requests, AcquireFree(r) PROVE TypeOK'
  BY <1>2 DEF AcquireFree, Begin
<1>3. ASSUME NEW r \in Requests, AcquireWait(r) PROVE TypeOK'
  BY <1>3 DEF AcquireWait
<1>4. ASSUME NEW r \in Requests, AcquireTurn(r) PROVE TypeOK'
  <2>1. Tail(queue[ref[r]]) \in Seq(Requests)
    BY <1>4 DEF AcquireTurn
  <2>2. queue' \in [Locks -> Seq(Requests)]
    BY <1>4, <2>1 DEF AcquireTurn
  <2>3. /\ locked' \in [Locks -> BOOLEAN]
        /\ granted' \in [Locks -> BOOLEAN]
    BY <1>4 DEF AcquireTurn
  <2>4. /\ pc' \in [Requests -> Places]
        /\ logs' \in [Keys -> Seq(Piece)]
        /\ UNCHANGED <<ref, proc, written, taken>>
    <3>1. Begin(r)
      BY <1>4 DEF AcquireTurn
    <3>2. QED
      BY <3>1 DEF Begin
  <2>5. QED
    BY <2>2, <2>3, <2>4
<1>5. ASSUME NEW r \in Requests, Spawn(r) PROVE TypeOK'
  BY <1>5 DEF Spawn
<1>6. ASSUME NEW r \in Requests, ReadChunk(r) PROVE TypeOK'
  <2> DEFINE piece == [by |-> r, n |-> taken[r] + 1]
  <2>1. piece \in Piece
    BY DEF Piece
  <2> HIDE DEF piece
  <2>2. Append(logs[KeyOf[r]], piece) \in Seq(Piece)
    BY <2>1
  <2>3. Clip(Append(logs[KeyOf[r]], piece)) \in Seq(Piece)
    BY <2>2, ClipProperties
  <2>4. QED
    BY <1>6, <2>3 DEF ReadChunk, piece
<1>7. ASSUME NEW r \in Requests, Sent(r) PROVE TypeOK'
  BY <1>7 DEF Sent
<1>8. ASSUME NEW r \in Requests, ReadEnd(r) PROVE TypeOK'
  <2> DEFINE verdict == [by |-> r, n |-> Exit]
  <2>1. verdict \in Piece
    BY DEF Piece, Exit
  <2> HIDE DEF verdict
  <2>2. Append(logs[KeyOf[r]], verdict) \in Seq(Piece)
    BY <2>1
  <2>3. QED
    BY <1>8, <2>2 DEF ReadEnd, verdict
<1>9. ASSUME NEW r \in Requests, Finish(r) PROVE TypeOK'
  BY <1>9 DEF Finish, Release
<1>10. ASSUME NEW r \in Requests, Finalize(r) PROVE TypeOK'
  BY <1>10 DEF Finalize, Release
<1>11. ASSUME NEW r \in Requests, SpawnFails(r) PROVE TypeOK'
  BY <1>11 DEF SpawnFails, Release
<1>12. ASSUME NEW r \in Requests, DropUnstarted(r) PROVE TypeOK'
  BY <1>12 DEF DropUnstarted
<1>13. ASSUME NEW r \in Requests, CancelWaiting(r) PROVE TypeOK'
  <2>1. PICK i \in 1..Len(queue[ref[r]]) :
          queue' = [queue EXCEPT ![ref[r]] = RemoveAt(@, i)]
    BY <1>13 DEF CancelWaiting, LeaveQueue
  <2>2. RemoveAt(queue[ref[r]], i) \in Seq(Requests)
    BY RemoveAtProperties
  <2>3. QED
    BY <1>13, <2>1, <2>2 DEF CancelWaiting, LeaveQueue
<1>14. ASSUME NEW r \in Requests, CancelRunning(r) PROVE TypeOK'
  BY <1>14 DEF CancelRunning, Release
<1>15. ASSUME NEW r \in Requests, AbandonSend(r) PROVE TypeOK'
  BY <1>15 DEF AbandonSend
<1>16. ASSUME NEW r \in Requests, Write(r) PROVE TypeOK'
  BY <1>16 DEF Write
<1>17. ASSUME NEW r \in Requests, ProcExit(r) PROVE TypeOK'
  BY <1>17 DEF ProcExit
<1>18. CASE UNCHANGED vars
  BY <1>18 DEF vars
<1>19. QED
  BY <1>1, <1>2, <1>3, <1>4, <1>5, <1>6, <1>7, <1>8, <1>9, <1>10, <1>11,
     <1>12, <1>13, <1>14, <1>15, <1>16, <1>17, <1>18
  DEF AnyNext, LoopStep, ProcStep, Stop, Disconnect

\* Every variable keeps its type, whatever the requests, locks and outputs.
THEOREM TypeCorrect == Spec => []TypeOK
<1>1. Init => TypeOK
  BY DEF Init, TypeOK, Places
<1>2. QED
  BY <1>1, TypeStep, NextIsAnyNext, PTL DEF Spec

-----------------------------------------------------------------------------
(* The engine's steps, by what they do to a lock.                          *)

\* r leaves the protected section and releases its lock.
GivesBack(r) ==
  /\ pc[r] \in Holding
  /\ \E place \in {"done", "aborted"} : GoTo(r, place)
  /\ Release(ref[r])
  /\ UNCHANGED ref

\* No lock changes hands, and nobody joins or leaves a queue.
LocksUntouched(r) ==
  /\ UNCHANGED <<ref, locked, queue, granted>>
  /\ \/ UNCHANGED pc
     \/ pc[r] \in Holding /\ \E place \in Holding : GoTo(r, place)
     \/ pc[r] = "accepted" /\ GoTo(r, "aborted")

\* A step of the generator, of its process or of its client is one of the
\* three ways to acquire, the cancellation of a waiter, a release, or leaves
\* the locks alone.
LEMMA GeneratorKinds ==
  ASSUME TypeOK, NEW r \in Requests, LoopStep(r) \/ ProcStep(r) \/ Stop(r)
  PROVE  \/ AcquireFree(r) \/ AcquireWait(r) \/ AcquireTurn(r)
         \/ CancelWaiting(r) \/ GivesBack(r) \/ LocksUntouched(r)
<1>1. ASSUME Finish(r) \/ Finalize(r) \/ SpawnFails(r) \/ CancelRunning(r)
      PROVE  GivesBack(r)
  BY <1>1 DEF Finish, Finalize, SpawnFails, CancelRunning, GivesBack, Holding
<1>2. ASSUME \/ Spawn(r) \/ ReadChunk(r) \/ Sent(r) \/ ReadEnd(r)
             \/ DropUnstarted(r) \/ AbandonSend(r) \/ Write(r) \/ ProcExit(r)
      PROVE  LocksUntouched(r)
  BY <1>2 DEF Spawn, ReadChunk, Sent, ReadEnd, DropUnstarted, AbandonSend,
     Write, ProcExit, LocksUntouched, Holding, lockVars
<1>3. QED
  BY <1>1, <1>2 DEF LoopStep, ProcStep, Stop, Disconnect

LEMMA StepKinds ==
  ASSUME TypeOK, AnyNext
  PROVE  \E r \in Requests :
           \/ CheckStep(r) \/ AcquireFree(r) \/ AcquireWait(r) \/ AcquireTurn(r)
           \/ CancelWaiting(r) \/ GivesBack(r) \/ LocksUntouched(r)
BY GeneratorKinds DEF AnyNext

LEMMA PostKinds ==
  ASSUME TypeOK, Next
  PROVE  \E r \in Requests :
           \/ Post(r) \/ AcquireFree(r) \/ AcquireWait(r) \/ AcquireTurn(r)
           \/ CancelWaiting(r) \/ GivesBack(r) \/ LocksUntouched(r)
BY GeneratorKinds DEF Next

-----------------------------------------------------------------------------
(* The queue of a lock.                                                    *)

\* A step that leaves the queues and those who wait alone keeps them in line.
LEMMA QueueUntouched ==
  ASSUME WaitersAreQueued, QueuedOnce, UNCHANGED queue,
         \A s \in Requests :
            /\ pc'[s] = "waiting" <=> pc[s] = "waiting"
            /\ pc[s] = "waiting" => ref'[s] = ref[s]
  PROVE  WaitersAreQueued' /\ QueuedOnce'
BY DEF WaitersAreQueued, QueuedOnce

\* Joining at the end, leaving from the front or from anywhere, and handing
\* the lock on keep the queue and the wake-up in step.
LEMMA WakeupStep == TypeOK /\ NoLostWakeup /\ [AnyNext]_vars => NoLostWakeup'
<1> SUFFICES ASSUME TypeOK, NoLostWakeup, [AnyNext]_vars PROVE NoLostWakeup'
  OBVIOUS
<1> USE DEF NoLostWakeup
<1>1. CASE UNCHANGED vars
  BY <1>1 DEF vars, GrantIsDue, WaitersAreQueued, QueuedOnce
<1>2. CASE AnyNext
  <2>1. PICK r \in Requests :
          \/ CheckStep(r) \/ AcquireFree(r) \/ AcquireWait(r) \/ AcquireTurn(r)
          \/ CancelWaiting(r) \/ GivesBack(r) \/ LocksUntouched(r)
    BY <1>2, StepKinds
  <2>2. CASE CheckStep(r)
    <3>1. GrantIsDue'
      BY <2>2 DEF CheckStep, Check, lockVars, GrantIsDue
    <3>2. \A s \in Requests :
            /\ pc'[s] = "waiting" <=> pc[s] = "waiting"
            /\ pc[s] = "waiting" => ref'[s] = ref[s]
      BY <2>2 DEF CheckStep, Check, GoTo, TypeOK
    <3>3. QED
      BY <2>2, <3>1, <3>2, QueueUntouched DEF CheckStep, Check, lockVars
  <2>3. CASE AcquireFree(r)
    <3>1. GrantIsDue'
      BY <2>3 DEF AcquireFree, Free, GrantIsDue, TypeOK
    <3>2. \A s \in Requests :
            /\ pc'[s] = "waiting" <=> pc[s] = "waiting"
            /\ pc[s] = "waiting" => ref'[s] = ref[s]
      BY <2>3 DEF AcquireFree, Begin, GoTo, TypeOK
    <3>3. QED
      BY <2>3, <3>1, <3>2, QueueUntouched DEF AcquireFree
  <2>4. CASE AcquireWait(r)
    <3> DEFINE l == ref[r]
    <3>1. /\ l \in Locks /\ queue[l] \in Seq(Requests)
          /\ queue'[l] = Append(queue[l], r)
          /\ \A m \in Locks : m # l => queue'[m] = queue[m]
          /\ pc[r] = "accepted" /\ pc'[r] = "waiting"
          /\ \A s \in Requests : s # r => pc'[s] = pc[s]
          /\ UNCHANGED <<ref, locked, granted>>
          /\ locked[l] \/ queue[l] # <<>>
          /\ ref[r] = l
      BY <2>4 DEF AcquireWait, Free, GoTo, TypeOK
    <3> HIDE DEF l
    <3>2. /\ Len(queue'[l]) = Len(queue[l]) + 1
          /\ queue'[l][Len(queue[l]) + 1] = r
          /\ \A i \in 1..Len(queue[l]) : queue'[l][i] = queue[l][i]
          /\ queue'[l] # <<>>
      <4>1. /\ Len(queue'[l]) = Len(queue[l]) + 1
            /\ queue'[l][Len(queue[l]) + 1] = r
            /\ \A i \in 1..Len(queue[l]) : queue'[l][i] = queue[l][i]
        BY <3>1, AppendProperties
      <4>2. queue'[l] # <<>>
        BY <3>1, AppendProperties
      <4>3. QED
        BY <4>1, <4>2
    <3>3. GrantIsDue'
      <4>1. \A m \in Locks : queue'[m] = queue[m] \/ (m = l /\ queue'[m] # <<>>)
        BY <3>1, <3>2
      <4>2. \A m \in Locks : granted[m] <=> ~locked[m] /\ queue[m] # <<>>
        BY DEF GrantIsDue
      <4>3. \A m \in Locks : granted[m] <=> ~locked[m] /\ queue'[m] # <<>>
        BY <3>1, <4>1, <4>2
      <4>4. QED
        BY <3>1, <4>3 DEF GrantIsDue
    <3>4. \A i \in 1..Len(queue[l]) : queue[l][i] # r
      <4>1. l \in Locks /\ pc[r] # "waiting"
        BY <3>1
      <4>2. pc[r] = "waiting" /\ ref[r] = l <=> \E i \in 1..Len(queue[l]) : queue[l][i] = r
        BY <4>1, Zenon DEF WaitersAreQueued
      <4>3. QED
        BY <4>1, <4>2
    <3>5. QueuedOnce'
      <4>1. ASSUME NEW i \in 1..(Len(queue[l]) + 1), NEW j \in 1..(Len(queue[l]) + 1),
                   queue'[l][i] = queue'[l][j]
            PROVE  i = j
        <5>1. /\ i = Len(queue[l]) + 1 \/ i \in 1..Len(queue[l])
              /\ j = Len(queue[l]) + 1 \/ j \in 1..Len(queue[l])
          BY <3>1
        <5>2. QED
          BY <4>1, <5>1, <3>1, <3>2, <3>4 DEF QueuedOnce
      <4>2. ASSUME NEW m \in Locks, NEW i \in 1..Len(queue'[m]), NEW j \in 1..Len(queue'[m]),
                   queue'[m][i] = queue'[m][j]
            PROVE  i = j
        <5>1. CASE m = l
          BY <5>1, <4>1, <4>2, <3>2
        <5>2. CASE m # l
          BY <5>2, <4>2, <3>1 DEF QueuedOnce
        <5>3. QED
          BY <5>1, <5>2
      <4>3. QED
        BY <4>2 DEF QueuedOnce
    <3>6. WaitersAreQueued'
      <4>1. ASSUME NEW m \in Locks, NEW s \in Requests
            PROVE  (pc[s] = "waiting" /\ ref[s] = m <=>
                      \E i \in 1..Len(queue[m]) : queue[m][i] = s)'
        <5>1. CASE m # l
          <6>1. pc[s] = "waiting" /\ ref[s] = m <=> \E i \in 1..Len(queue[m]) : queue[m][i] = s
            BY DEF WaitersAreQueued
          <6>2. queue'[m] = queue[m] /\ (pc'[s] = "waiting" /\ ref'[s] = m <=> pc[s] = "waiting" /\ ref[s] = m)
            BY <5>1, <3>1
          <6>3. QED
            BY <6>1, <6>2
        <5>2. CASE m = l /\ s = r
          BY <5>2, <3>1, <3>2
        <5>3. CASE m = l /\ s # r
          <6>1. (\E i \in 1..Len(queue'[l]) : queue'[l][i] = s) <=>
                   \E i \in 1..Len(queue[l]) : queue[l][i] = s
            BY <5>3, <3>1, <3>2
          <6>2. pc[s] = "waiting" /\ ref[s] = l <=> \E i \in 1..Len(queue[l]) : queue[l][i] = s
            BY <3>1 DEF WaitersAreQueued
          <6>3. pc'[s] = pc[s] /\ ref'[s] = ref[s]
            BY <5>3, <3>1
          <6>4. QED
            BY <5>3, <6>1, <6>2, <6>3
        <5>4. QED
          BY <5>1, <5>2, <5>3
      <4>2. QED
        BY <4>1 DEF WaitersAreQueued
    <3>7. QED
      BY <3>3, <3>5, <3>6
  <2>5. CASE AcquireTurn(r)
    <3> DEFINE l == ref[r]
    <3>1. /\ l \in Locks /\ queue[l] \in Seq(Requests)
          /\ queue[l] # <<>> /\ queue[l][1] = r
          /\ queue'[l] = Tail(queue[l])
          /\ \A m \in Locks : m # l => queue'[m] = queue[m]
          /\ pc[r] = "waiting" /\ pc'[r] = "starting"
          /\ \A s \in Requests : s # r => pc'[s] = pc[s]
          /\ UNCHANGED ref /\ ref[r] = l
          /\ locked'[l] /\ ~granted'[l]
          /\ \A m \in Locks : m # l => locked'[m] = locked[m] /\ granted'[m] = granted[m]
      BY <2>5 DEF AcquireTurn, Begin, GoTo, TypeOK
    <3> HIDE DEF l
    <3>2. /\ Len(queue'[l]) = Len(queue[l]) - 1
          /\ Len(queue[l]) \in Nat \ {0}
          /\ \A i \in 1..(Len(queue[l]) - 1) : queue'[l][i] = queue[l][i + 1]
      BY <3>1
    <3>3. GrantIsDue'
      BY <3>1 DEF GrantIsDue
    <3>4. QueuedOnce'
      <4>1. ASSUME NEW i \in 1..(Len(queue[l]) - 1), NEW j \in 1..(Len(queue[l]) - 1),
                   queue'[l][i] = queue'[l][j]
            PROVE  i = j
        <5>1. /\ i + 1 \in 1..Len(queue[l]) /\ queue[l][i + 1] = queue'[l][i]
              /\ j + 1 \in 1..Len(queue[l]) /\ queue[l][j + 1] = queue'[l][j]
          BY <3>2
        <5>2. i + 1 = j + 1
          BY <4>1, <5>1, <3>1 DEF QueuedOnce
        <5>3. QED
          BY <5>2, <3>2
      <4>2. ASSUME NEW m \in Locks, NEW i \in 1..Len(queue'[m]), NEW j \in 1..Len(queue'[m]),
                   queue'[m][i] = queue'[m][j]
            PROVE  i = j
        <5>1. CASE m = l
          BY <5>1, <4>1, <4>2, <3>2
        <5>2. CASE m # l
          BY <5>2, <4>2, <3>1 DEF QueuedOnce
        <5>3. QED
          BY <5>1, <5>2
      <4>3. QED
        BY <4>2 DEF QueuedOnce
    <3>5. WaitersAreQueued'
      <4>1. ASSUME NEW m \in Locks, NEW s \in Requests
            PROVE  (pc[s] = "waiting" /\ ref[s] = m <=>
                      \E i \in 1..Len(queue[m]) : queue[m][i] = s)'
        <5>1. CASE m # l
          <6>1. pc[s] = "waiting" /\ ref[s] = m <=> \E i \in 1..Len(queue[m]) : queue[m][i] = s
            BY DEF WaitersAreQueued
          <6>2. queue'[m] = queue[m] /\ (pc'[s] = "waiting" /\ ref'[s] = m <=> pc[s] = "waiting" /\ ref[s] = m)
            BY <5>1, <3>1
          <6>3. QED
            BY <6>1, <6>2
        <5>2. CASE m = l /\ s = r
          <6>1. ASSUME NEW j \in 1..Len(queue'[l]), queue'[l][j] = r PROVE FALSE
            <7>1. /\ j + 1 \in 1..Len(queue[l]) /\ 1 \in 1..Len(queue[l])
                  /\ queue[l][j + 1] = queue[l][1] /\ j + 1 # 1
              BY <6>1, <3>1, <3>2
            <7>2. QED
              BY <7>1, <3>1 DEF QueuedOnce
          <6>2. QED
            BY <5>2, <6>1, <3>1
        <5>3. CASE m = l /\ s # r
          <6>1. ASSUME NEW i \in 1..Len(queue[l]), queue[l][i] = s
                PROVE  \E j \in 1..Len(queue'[l]) : queue'[l][j] = s
            <7>1. i # 1
              BY <6>1, <5>3, <3>1
            <7>2. i - 1 \in 1..Len(queue'[l]) /\ queue'[l][i - 1] = s
              BY <6>1, <7>1, <3>2
            <7>3. QED
              BY <7>2
          <6>2. ASSUME NEW j \in 1..Len(queue'[l]), queue'[l][j] = s
                PROVE  \E i \in 1..Len(queue[l]) : queue[l][i] = s
            <7>1. j + 1 \in 1..Len(queue[l]) /\ queue[l][j + 1] = s
              BY <6>2, <3>2
            <7>2. QED
              BY <7>1
          <6>3. pc'[s] = pc[s] /\ ref'[s] = ref[s] /\ l \in Locks
            BY <5>3, <3>1, <3>2
          <6>4. pc[s] = "waiting" /\ ref[s] = l <=>
                  \E i \in 1..Len(queue[l]) : queue[l][i] = s
            BY <6>3 DEF WaitersAreQueued
          <6>5. QED
            BY <5>3, <6>1, <6>2, <6>3, <6>4
        <5>4. QED
          BY <5>1, <5>2, <5>3
      <4>2. QED
        BY <4>1 DEF WaitersAreQueued
    <3>6. QED
      BY <3>3, <3>4, <3>5
  <2>6. CASE CancelWaiting(r)
    <3> DEFINE l == ref[r]
    <3>1. PICK k \in 1..Len(queue[l]) :
            queue[l][k] = r /\ queue' = [queue EXCEPT ![l] = RemoveAt(@, k)]
      BY <2>6 DEF CancelWaiting, LeaveQueue
    <3>2. /\ l \in Locks /\ queue[l] \in Seq(Requests)
          /\ queue'[l] = RemoveAt(queue[l], k)
          /\ \A m \in Locks : m # l => queue'[m] = queue[m]
      BY <3>1 DEF TypeOK
    <3>3. /\ pc[r] = "waiting" /\ pc'[r] = "aborted"
          /\ \A s \in Requests : s # r => pc'[s] = pc[s]
          /\ UNCHANGED <<ref, locked>> /\ ref[r] = l
          /\ granted'[l] = (~locked[l] /\ queue'[l] # <<>>)
          /\ \A m \in Locks : m # l => granted'[m] = granted[m]
      <4>1. l \in Locks
        BY DEF TypeOK
      <4>2. /\ granted' = [granted EXCEPT ![l] = ~locked[l] /\ queue'[l] # <<>>]
            /\ UNCHANGED <<ref, locked>> /\ ref[r] = l
        BY <2>6 DEF CancelWaiting, LeaveQueue
      <4>3. /\ granted'[l] = (~locked[l] /\ queue'[l] # <<>>)
            /\ \A m \in Locks : m # l => granted'[m] = granted[m]
        BY <4>1, <4>2, Zenon DEF TypeOK
      <4>4. /\ pc[r] = "waiting" /\ pc'[r] = "aborted"
            /\ \A s \in Requests : s # r => pc'[s] = pc[s]
        BY <2>6 DEF CancelWaiting, GoTo, TypeOK
      <4>5. QED
        BY <4>2, <4>3, <4>4
    <3> HIDE DEF l
    <3>4. /\ Len(queue[l]) \in Nat
          /\ Len(queue'[l]) = Len(queue[l]) - 1
          /\ \A j \in 1..(Len(queue[l]) - 1) :
               queue'[l][j] = IF j < k THEN queue[l][j] ELSE queue[l][j + 1]
      <4>1. k \in 1..Len(queue[l])
        BY <3>1
      <4>2. Len(queue[l]) \in Nat
        BY <3>2
      <4> DEFINE q == queue[l]
      <4>3. q \in Seq(Requests) /\ queue'[l] = RemoveAt(q, k)
        BY <3>2
      <4> HIDE DEF q
      <4>4. /\ Len(RemoveAt(q, k)) = Len(q) - 1
            /\ \A j \in 1..(Len(q) - 1) : RemoveAt(q, k)[j] = IF j < k THEN q[j] ELSE q[j + 1]
        BY <4>1, <4>3, RemoveAtProperties DEF q
      <4>5. QED
        BY <4>2, <4>3, <4>4 DEF q
    <3>5. GrantIsDue'
      BY <3>2, <3>3 DEF GrantIsDue
    <3>6. QueuedOnce'
      <4>1. ASSUME NEW i \in 1..(Len(queue[l]) - 1), NEW j \in 1..(Len(queue[l]) - 1),
                   queue'[l][i] = queue'[l][j]
            PROVE  i = j
        <5> DEFINE was(x) == IF x < k THEN x ELSE x + 1
        <5>1. /\ was(i) \in 1..Len(queue[l]) /\ was(j) \in 1..Len(queue[l])
              /\ queue[l][was(i)] = queue'[l][i] /\ queue[l][was(j)] = queue'[l][j]
          BY <3>1, <3>4
        <5>2. \A a, b \in 1..Len(queue[l]) : queue[l][a] = queue[l][b] => a = b
          BY <3>2 DEF QueuedOnce
        <5>3. was(i) = was(j)
          <6> HIDE DEF was
          <6>1. queue[l][was(i)] = queue[l][was(j)]
            BY <4>1, <5>1
          <6>2. QED
            BY <5>1, <5>2, <6>1
        <5>4. QED
          BY <5>3, <3>1, <3>4
      <4>2. ASSUME NEW m \in Locks, NEW i \in 1..Len(queue'[m]), NEW j \in 1..Len(queue'[m]),
                   queue'[m][i] = queue'[m][j]
            PROVE  i = j
        <5>1. CASE m = l
          BY <5>1, <4>1, <4>2, <3>4
        <5>2. CASE m # l
          BY <5>2, <4>2, <3>2 DEF QueuedOnce
        <5>3. QED
          BY <5>1, <5>2
      <4>3. QED
        BY <4>2 DEF QueuedOnce
    <3>7. WaitersAreQueued'
      <4>1. ASSUME NEW m \in Locks, NEW s \in Requests
            PROVE  (pc[s] = "waiting" /\ ref[s] = m <=>
                      \E i \in 1..Len(queue[m]) : queue[m][i] = s)'
        <5>1. CASE m # l
          <6>1. queue'[m] = queue[m] /\ (s = r => ref[s] # m)
            BY <5>1, <3>2, <3>3
          <6>2. ref'[s] = ref[s] /\ (s # r => pc'[s] = pc[s])
            BY <3>3
          <6>3. pc[s] = "waiting" /\ ref[s] = m <=>
                  \E i \in 1..Len(queue[m]) : queue[m][i] = s
            BY DEF WaitersAreQueued
          <6>4. QED
            BY <6>1, <6>2, <6>3
        <5>2. CASE m = l /\ s = r
          <6>1. ASSUME NEW j \in 1..(Len(queue[l]) - 1), queue'[l][j] = r PROVE FALSE
            <7>1. CASE j < k
              <8>1. j \in 1..Len(queue[l]) /\ queue[l][j] = r /\ j # k
                BY <7>1, <6>1, <3>1, <3>4
              <8>2. QED
                BY <8>1, <3>1, <3>2 DEF QueuedOnce
            <7>2. CASE j >= k
              <8>1. j + 1 \in 1..Len(queue[l]) /\ j + 1 # k
                BY <7>2, <3>4
              <8>2. queue[l][j + 1] = r
                BY <7>2, <6>1, <3>4
              <8>3. QED
                BY <8>1, <8>2, <3>1, <3>2 DEF QueuedOnce
            <7>3. QED
              BY <7>1, <7>2, <3>1
          <6>2. QED
            BY <5>2, <6>1, <3>3, <3>4
        <5>3. CASE m = l /\ s # r
          <6>1. ASSUME NEW i \in 1..Len(queue[l]), queue[l][i] = s
                PROVE  \E j \in 1..Len(queue'[l]) : queue'[l][j] = s
            <7>1. i # k
              BY <6>1, <5>3, <3>1
            <7>2. CASE i < k
              <8>1. i \in 1..(Len(queue[l]) - 1)
                BY <7>2, <3>4
              <8>2. queue'[l][i] = queue[l][i]
                BY <8>1, <7>2, <3>4
              <8>3. QED
                BY <8>1, <8>2, <6>1, <3>4
            <7>3. CASE i > k
              <8>1. /\ i - 1 \in 1..(Len(queue[l]) - 1) /\ ~(i - 1 < k)
                    /\ (i - 1) + 1 = i
                BY <7>3, <3>4
              <8>2. queue'[l][i - 1] = queue[l][i]
                BY <8>1, <3>4
              <8>3. QED
                BY <8>1, <8>2, <6>1, <3>4
            <7>4. QED
              BY <7>1, <7>2, <7>3, <3>1
          <6>2. ASSUME NEW j \in 1..Len(queue'[l]), queue'[l][j] = s
                PROVE  \E i \in 1..Len(queue[l]) : queue[l][i] = s
            <7>1. /\ j \in 1..Len(queue[l]) /\ j + 1 \in 1..Len(queue[l])
                  /\ queue[l][j] = s \/ queue[l][j + 1] = s
              BY <6>2, <3>1, <3>4
            <7>2. QED
              BY <7>1
          <6>3. pc'[s] = pc[s] /\ ref'[s] = ref[s] /\ l \in Locks
            BY <5>3, <3>3, <3>2
          <6>4. pc[s] = "waiting" /\ ref[s] = l <=>
                  \E i \in 1..Len(queue[l]) : queue[l][i] = s
            BY <6>3 DEF WaitersAreQueued
          <6>5. QED
            BY <5>3, <6>1, <6>2, <6>3, <6>4
        <5>4. QED
          BY <5>1, <5>2, <5>3
      <4>2. QED
        BY <4>1 DEF WaitersAreQueued
    <3>8. QED
      BY <3>5, <3>6, <3>7
  <2>7. CASE GivesBack(r)
    <3>1. GrantIsDue'
      BY <2>7 DEF GivesBack, Release, GrantIsDue, TypeOK
    <3>2. \A s \in Requests :
            /\ pc'[s] = "waiting" <=> pc[s] = "waiting"
            /\ pc[s] = "waiting" => ref'[s] = ref[s]
      BY <2>7 DEF GivesBack, GoTo, Holding, TypeOK
    <3>3. QED
      BY <2>7, <3>1, <3>2, QueueUntouched DEF GivesBack, Release
  <2>8. CASE LocksUntouched(r)
    <3>1. GrantIsDue'
      BY <2>8 DEF LocksUntouched, GrantIsDue
    <3>2. \A s \in Requests :
            /\ pc'[s] = "waiting" <=> pc[s] = "waiting"
            /\ pc[s] = "waiting" => ref'[s] = ref[s]
      BY <2>8 DEF LocksUntouched, GoTo, Holding, TypeOK
    <3>3. QED
      BY <2>8, <3>1, <3>2, QueueUntouched DEF LocksUntouched
  <2>9. QED
    BY <2>1, <2>2, <2>3, <2>4, <2>5, <2>6, <2>7, <2>8
<1>3. QED
  BY <1>1, <1>2

\* In every reachable state of every instance, whoever should be woken has
\* been, and the queue of a lock holds exactly those who wait for it.
THEOREM WakeupsAreNotLost == Spec => []NoLostWakeup
<1>1. Init => NoLostWakeup
  BY DEF Init, NoLostWakeup, GrantIsDue, WaitersAreQueued, QueuedOnce
<1>2. QED
  BY <1>1, WakeupStep, NextIsAnyNext, TypeCorrect, PTL DEF Spec

-----------------------------------------------------------------------------
(* Mutual exclusion.                                                       *)

\* OneRunPerLock is inductive once a resolved waiter is known to find the
\* lock free (GrantIsDue): that is what lets AcquireTurn take it unasked.
LEMMA MutexStep ==
  TypeOK /\ NoLostWakeup /\ OneRunPerLock /\ [AnyNext]_vars => OneRunPerLock'
<1> SUFFICES ASSUME TypeOK, NoLostWakeup, OneRunPerLock, [AnyNext]_vars
             PROVE  OneRunPerLock'
  OBVIOUS
<1>1. CASE UNCHANGED vars
  BY <1>1 DEF vars, OneRunPerLock, Holder
<1>2. CASE AnyNext
  <2>1. PICK r \in Requests :
          \/ CheckStep(r) \/ AcquireFree(r) \/ AcquireWait(r) \/ AcquireTurn(r)
          \/ CancelWaiting(r) \/ GivesBack(r) \/ LocksUntouched(r)
    BY <1>2, StepKinds
  <2>2. CASE \/ CheckStep(r) \/ AcquireWait(r) \/ CancelWaiting(r) \/ LocksUntouched(r)
    <3>1. UNCHANGED locked
      BY <2>2 DEF CheckStep, Check, AcquireWait, CancelWaiting, LeaveQueue,
         LocksUntouched, lockVars
    <3>2. \A l \in Locks, s \in Requests : Holder(l, s)' <=> Holder(l, s)
      <4>1. CASE CheckStep(r)
        BY <4>1 DEF CheckStep, Check, Holder, Holding, GoTo, TypeOK
      <4>2. CASE AcquireWait(r) \/ CancelWaiting(r)
        BY <4>2 DEF AcquireWait, CancelWaiting, Holder, Holding, GoTo, TypeOK
      <4>3. CASE LocksUntouched(r)
        BY <4>3 DEF LocksUntouched, Holder, Holding, GoTo, TypeOK
      <4>4. QED
        BY <2>2, <4>1, <4>2, <4>3
    <3>3. QED
      BY <3>1, <3>2 DEF OneRunPerLock
  <2>3. CASE AcquireFree(r) \/ AcquireTurn(r)
    <3> DEFINE l == ref[r]
    <3>1. l \in Locks
      BY DEF TypeOK
    <3>2. ~locked[l]
      BY <2>3, <3>1 DEF AcquireFree, Free, AcquireTurn, NoLostWakeup, GrantIsDue
    <3>3. \A s \in Requests : ~Holder(l, s)
      BY <3>1, <3>2 DEF OneRunPerLock
    <3>4. locked' = [locked EXCEPT ![l] = TRUE]
      BY <2>3 DEF AcquireFree, AcquireTurn
    <3>5. /\ pc' = [pc EXCEPT ![r] = "starting"]
          /\ ref' = ref
      BY <2>3 DEF AcquireFree, AcquireTurn, Begin, GoTo
    <3>6. /\ \A m \in Locks : Holder(m, r)' <=> m = l
          /\ \A m \in Locks, s \in Requests :
               s # r => (Holder(m, s)' <=> Holder(m, s))
      BY <3>5 DEF Holder, Holding, TypeOK
    <3>7. \A m \in Locks : locked'[m] <=> (m = l \/ locked[m])
      BY <3>1, <3>4, Zenon DEF TypeOK
    <3>8. \A m \in Locks : m # l => ~Holder(m, r)
      BY DEF Holder
    <3>9. ASSUME NEW m \in Locks
          PROVE  /\ locked'[m] <=> \E s \in Requests : Holder(m, s)'
                 /\ \A s, t \in Requests : Holder(m, s)' /\ Holder(m, t)' => s = t
      <4>1. CASE m = l
        BY <4>1, <3>3, <3>6, <3>7
      <4>2. CASE m # l
        <5>1. \A s \in Requests : Holder(m, s)' <=> Holder(m, s)
          BY <4>2, <3>6, <3>8
        <5>2. QED
          BY <4>2, <5>1, <3>7 DEF OneRunPerLock
      <4>3. QED
        BY <4>1, <4>2
    <3>10. QED
      BY <3>9 DEF OneRunPerLock
  <2>4. CASE GivesBack(r)
    <3> DEFINE l == ref[r]
    <3>1. l \in Locks /\ Holder(l, r)
      BY <2>4 DEF GivesBack, Holder, TypeOK
    <3>2. locked' = [locked EXCEPT ![l] = FALSE]
      BY <2>4 DEF GivesBack, Release
    <3>3. \A m \in Locks, s \in Requests :
            Holder(m, s)' <=> Holder(m, s) /\ s # r
      BY <2>4 DEF GivesBack, GoTo, Holder, Holding, TypeOK
    <3>4. \A m \in Locks : locked'[m] <=> (m # l /\ locked[m])
      BY <3>1, <3>2, Zenon DEF TypeOK
    <3>5. \A m \in Locks : m # l => ~Holder(m, r)
      BY DEF Holder
    <3>6. QED
      BY <3>1, <3>3, <3>4, <3>5 DEF OneRunPerLock
  <2>5. QED
    BY <2>1, <2>2, <2>3, <2>4
<1>3. QED
  BY <1>1, <1>2

\* At most one generator of a lock is between acquire() and release(), and
\* lock.locked() says whether there is one: in every reachable state, however
\* requests queue, are cancelled, fail to start or are finalized late.
THEOREM MutualExclusion == Spec => []OneRunPerLock
<1>1. Init => OneRunPerLock
  BY DEF Init, OneRunPerLock, Holder, Holding
<1>2. QED
  BY <1>1, MutexStep, NextIsAnyNext, TypeCorrect, WakeupsAreNotLost, PTL DEF Spec

-----------------------------------------------------------------------------
(* Refinement.                                                             *)

\* A request keeps the lock object its key is registered with.
RefIsRegistered == ref = [r \in Requests |-> LockOf[KeyOf[r]]]

LEMMA RefStep == TypeOK /\ RefIsRegistered /\ [Next]_vars => RefIsRegistered'
<1> SUFFICES ASSUME TypeOK, RefIsRegistered, [Next]_vars PROVE RefIsRegistered'
  OBVIOUS
<1>1. CASE UNCHANGED vars
  BY <1>1 DEF vars, RefIsRegistered
<1>2. CASE Next
  <2>1. PICK r \in Requests :
          \/ Post(r) \/ AcquireFree(r) \/ AcquireWait(r) \/ AcquireTurn(r)
          \/ CancelWaiting(r) \/ GivesBack(r) \/ LocksUntouched(r)
    BY <1>2, PostKinds
  <2>2. CASE Post(r)
    BY <2>2 DEF Post, Check, RefIsRegistered
  <2>3. CASE ~Post(r)
    BY <2>1, <2>3 DEF AcquireFree, AcquireWait, AcquireTurn, Begin, CancelWaiting,
       GivesBack, LocksUntouched, RefIsRegistered
  <2>4. QED
    BY <2>2, <2>3
<1>3. QED
  BY <1>1, <1>2

\* The abstract phase of each place.
LEMMA PhaseOfPlaces ==
  /\ PhaseOf("new") = "new" /\ PhaseOf("rejected") = "refused"
  /\ PhaseOf("accepted") = "pending" /\ PhaseOf("waiting") = "pending"
  /\ \A place \in Holding : PhaseOf(place) = "running"
  /\ PhaseOf("done") = "over" /\ PhaseOf("aborted") = "over"
BY DEF PhaseOf, Holding

\* Each step of the engine is one of the abstract service or changes nothing
\* it can see.  Mutual exclusion is what makes an acquire an abstract Start,
\* and what makes the 409 of a locked lock an abstract Refuse.
LEMMA ServiceStep ==
  TypeOK /\ RefIsRegistered /\ NoLostWakeup /\ OneRunPerLock /\ [Next]_vars
    => [Service!Next]_phaseOf
<1> SUFFICES ASSUME TypeOK, RefIsRegistered, NoLostWakeup, OneRunPerLock, [Next]_vars
             PROVE  [Service!Next]_phaseOf
  OBVIOUS
<1>1. CASE UNCHANGED vars
  BY <1>1 DEF vars, phaseOf
<1>2. CASE Next
  <2>1. PICK r \in Requests :
          \/ Post(r) \/ AcquireFree(r) \/ AcquireWait(r) \/ AcquireTurn(r)
          \/ CancelWaiting(r) \/ GivesBack(r) \/ LocksUntouched(r)
    BY <1>2, PostKinds
  <2>2. \A l \in Locks : locked[l] <=> \E s \in Requests : Holder(l, s)
    BY DEF OneRunPerLock
  <2>3. \A s \in Requests :
          /\ guardOf[s] = ref[s] /\ guardOf[s] \in Locks
          /\ phaseOf[s] = "running" <=> pc[s] \in Holding
    BY DEF guardOf, phaseOf, PhaseOf, RefIsRegistered, TypeOK, Places, Holding, Settled
  <2>4. \A s \in Requests : Service!Busy(s) <=> locked[ref[s]]
    BY <2>2, <2>3 DEF Service!Busy, Holder
  <2>5. ASSUME NEW p, NEW q, pc' = [pc EXCEPT ![r] = p], PhaseOf(p) = q
        PROVE  phaseOf' = [phaseOf EXCEPT ![r] = q]
    BY <2>5 DEF phaseOf, TypeOK
  <2>6. CASE Post(r)
    <3>1. pc[r] = "new" /\ phaseOf[r] = "new"
      BY <2>6, PhaseOfPlaces DEF Post, Check, phaseOf
    <3>2. ref[r] = LockOf[KeyOf[r]]
      BY DEF RefIsRegistered
    <3>3. CASE locked[ref[r]]
      <4>1. pc' = [pc EXCEPT ![r] = "rejected"] /\ PhaseOf("rejected") = "refused"
        BY <2>6, <3>2, <3>3, PhaseOfPlaces DEF Post, Check, GoTo
      <4>2. Service!Refuse(r)
        BY <3>1, <3>3, <4>1, <2>4, <2>5 DEF Service!Refuse, Service!Become
      <4>3. QED
        BY <4>2 DEF Service!Next
    <3>4. CASE ~locked[ref[r]]
      <4>1. pc' = [pc EXCEPT ![r] = "accepted"] /\ PhaseOf("accepted") = "pending"
        BY <2>6, <3>2, <3>4, PhaseOfPlaces DEF Post, Check, GoTo
      <4>2. Service!Accept(r)
        BY <3>1, <3>4, <4>1, <2>4, <2>5 DEF Service!Accept, Service!Become
      <4>3. QED
        BY <4>2 DEF Service!Next
    <3>5. QED
      BY <3>3, <3>4
  <2>7. CASE AcquireFree(r) \/ AcquireTurn(r)
    <3>1. ~locked[ref[r]]
      BY <2>7 DEF AcquireFree, Free, AcquireTurn, NoLostWakeup, GrantIsDue, TypeOK
    <3>2. phaseOf[r] = "pending"
      BY <2>7, PhaseOfPlaces DEF AcquireFree, AcquireTurn, phaseOf
    <3>3. pc' = [pc EXCEPT ![r] = "starting"] /\ PhaseOf("starting") = "running"
      BY <2>7, PhaseOfPlaces DEF AcquireFree, AcquireTurn, Begin, GoTo, Holding
    <3>4. Service!Start(r)
      BY <3>1, <3>2, <3>3, <2>4, <2>5 DEF Service!Start, Service!Become
    <3>5. QED
      BY <3>4 DEF Service!Next
  <2>8. CASE AcquireWait(r)
    <3>1. phaseOf[r] = "pending"
      BY <2>8, PhaseOfPlaces DEF AcquireWait, phaseOf
    <3>2. pc' = [pc EXCEPT ![r] = "waiting"] /\ PhaseOf("waiting") = "pending"
      BY <2>8, PhaseOfPlaces DEF AcquireWait, GoTo
    <3>3. phaseOf' = [phaseOf EXCEPT ![r] = "pending"]
      BY <3>2, <2>5
    <3>4. UNCHANGED phaseOf
      BY <3>1, <3>3 DEF phaseOf
    <3>5. QED
      BY <3>4
  <2>9. CASE CancelWaiting(r) \/ GivesBack(r)
    <3>1. phaseOf[r] \in {"pending", "running"}
      BY <2>9, PhaseOfPlaces DEF CancelWaiting, GivesBack, phaseOf
    <3>2. PICK place \in {"done", "aborted"} : pc' = [pc EXCEPT ![r] = place]
      BY <2>9 DEF CancelWaiting, GivesBack, GoTo
    <3>3. PhaseOf(place) = "over"
      BY PhaseOfPlaces
    <3>4. Service!End(r)
      BY <3>1, <3>2, <3>3, <2>5 DEF Service!End, Service!Become
    <3>5. QED
      BY <3>4 DEF Service!Next
  <2>10. CASE LocksUntouched(r)
    <3>1. CASE UNCHANGED pc
      BY <3>1 DEF phaseOf
    <3>2. CASE pc[r] \in Holding /\ \E place \in Holding : GoTo(r, place)
      <4>1. PICK place \in Holding : pc' = [pc EXCEPT ![r] = place]
        BY <3>2 DEF GoTo
      <4>2. phaseOf[r] = "running" /\ PhaseOf(place) = "running"
        BY <3>2, PhaseOfPlaces DEF phaseOf
      <4>3. phaseOf' = [phaseOf EXCEPT ![r] = "running"]
        BY <4>1, <4>2, <2>5
      <4>4. UNCHANGED phaseOf
        BY <4>2, <4>3 DEF phaseOf
      <4>5. QED
        BY <4>4
    <3>3. CASE pc[r] = "accepted" /\ GoTo(r, "aborted")
      <4>1. phaseOf[r] = "pending" /\ PhaseOf("aborted") = "over"
        BY <3>3, PhaseOfPlaces DEF phaseOf
      <4>2. Service!End(r)
        BY <3>3, <4>1, <2>5 DEF GoTo, Service!End, Service!Become
      <4>3. QED
        BY <4>2 DEF Service!Next
    <3>4. QED
      BY <2>10, <3>1, <3>2, <3>3 DEF LocksUntouched
  <2>11. QED
    BY <2>1, <2>6, <2>7, <2>8, <2>9, <2>10
<1>3. QED
  BY <1>1, <1>2

\* The engine implements the service it promises, for any number of requests.
THEOREM Refinement == Spec => ImplementsService
<1>1. Init => Service!Init
  BY PhaseOfPlaces DEF Init, Service!Init, phaseOf
<1>2. Init => RefIsRegistered
  BY DEF Init, RefIsRegistered
<1>3. Spec => []RefIsRegistered
  BY <1>2, RefStep, TypeCorrect, PTL DEF Spec
<1>4. QED
  BY <1>1, <1>3, ServiceStep, TypeCorrect, WakeupsAreNotLost, MutualExclusion, PTL
  DEF Spec, ImplementsService, Service!Spec

-----------------------------------------------------------------------------
(* The logs, for every output length and every LOG_CAP.  A log says nothing  *)
(* of who may still write to it.  What makes its properties inductive is the *)
(* link with the generators: the one that is between its acquire() and its   *)
(* last chunk owns the log of its key, which is then exactly the end of what *)
(* it has read (OwnersLog); and mutual exclusion makes it the only one.      *)

-----------------------------------------------------------------------------
(* Stretches of output.                                                    *)

ChunkOf(r, m) == [by |-> r, n |-> m]

LEMMA ChunkFields == \A r, m : ChunkOf(r, m).by = r /\ ChunkOf(r, m).n = m
BY DEF ChunkOf

\* The log is the last Len(log) of the first t chunks of r, and LOG_CAP if
\* anything is the reason that it is not all of them.
Stretch(log, r, t) ==
  /\ log \in Seq(Piece)
  /\ Len(log) <= t /\ Len(log) <= LogCap
  /\ \A i \in 1..Len(log) : log[i] = ChunkOf(r, t - Len(log) + i)
  /\ t > Len(log) => Len(log) = LogCap

\* A log that is reset before anything was read.
LEMMA EmptyStretch == \A r \in Requests : Stretch(<<>>, r, 0)
BY DEF Stretch

\* Appending the next chunk and clipping gives the next stretch.
LEMMA GrownStretch ==
  ASSUME NEW r \in Requests, NEW t \in Nat, NEW log, Stretch(log, r, t)
  PROVE  Stretch(Clip(Append(log, ChunkOf(r, t + 1))), r, t + 1)
<1> DEFINE new == Append(log, ChunkOf(r, t + 1))
<1>1. log \in Seq(Piece) /\ Len(log) \in Nat /\ ChunkOf(r, t + 1) \in Piece
  BY DEF Stretch, ChunkOf, Piece
<1>2. /\ new \in Seq(Piece) /\ Len(new) = Len(log) + 1
      /\ \A i \in 1..Len(log) : new[i] = log[i]
      /\ new[Len(log) + 1] = ChunkOf(r, t + 1)
  BY <1>1
<1>3. \A i \in 1..Len(new) : new[i] = ChunkOf(r, t - Len(log) + i)
  <2> SUFFICES ASSUME NEW i \in 1..Len(new) PROVE new[i] = ChunkOf(r, t - Len(log) + i)
    OBVIOUS
  <2>1. CASE i = Len(log) + 1
    <3>1. t - Len(log) + i = t + 1
      BY <2>1, <1>1
    <3>2. QED
      BY <3>1, <2>1, <1>2
  <2>2. CASE i # Len(log) + 1
    <3>1. i \in 1..Len(log)
      BY <2>2, <1>1, <1>2
    <3>2. QED
      BY <3>1, <1>2 DEF Stretch
  <2>3. QED
    BY <2>1, <2>2
<1> HIDE DEF new
<1>4. CASE Len(new) <= LogCap
  <2>1. Clip(new) = new
    BY <1>4, <1>1, <1>2 DEF Clip
  <2>2. t + 1 - Len(new) = t - Len(log)
    BY <1>1, <1>2
  <2>3. \A i \in 1..Len(new) : new[i] = ChunkOf(r, t + 1 - Len(new) + i)
    BY <1>3, <2>2
  <2>4. Len(new) <= t + 1 /\ (t + 1 > Len(new) => Len(new) = LogCap)
    BY <1>1, <1>2, <1>4 DEF Stretch
  <2>5. QED
    <3>1. Stretch(new, r, t + 1)
      BY <2>3, <2>4, <1>2, <1>4 DEF Stretch
    <3>2. QED
      BY <3>1, <2>1 DEF new
<1>5. CASE Len(new) > LogCap
  <2> DEFINE clipped == SubSeq(new, 2, Len(new))
  <2>1. Len(log) = LogCap /\ Len(new) - LogCap + 1 = 2
    BY <1>5, <1>1, <1>2 DEF Stretch
  <2>2. Clip(new) = clipped
    BY <2>1, <1>5 DEF Clip
  <2>3. /\ clipped \in Seq(Piece) /\ Len(clipped) = LogCap
        /\ \A i \in 1..LogCap : clipped[i] = new[i + 1]
    <3>1. Len(new) = LogCap + 1 /\ 2 \in Nat /\ LogCap + 1 \in Nat
      BY <2>1, <1>2
    <3>2. QED
      BY <3>1, <1>2
  <2> HIDE DEF clipped
  <2>4. LogCap <= t + 1
    BY <2>1 DEF Stretch
  <2>5. ASSUME NEW i \in 1..Len(clipped)
        PROVE  clipped[i] = ChunkOf(r, t + 1 - Len(clipped) + i)
    <3>1. i + 1 \in 1..Len(new) /\ t - Len(log) + (i + 1) = t + 1 - Len(clipped) + i
      BY <2>1, <2>3, <1>1, <1>2
    <3>2. QED
      BY <3>1, <2>3, <1>3
  <2>6. QED
    <3>1. Stretch(clipped, r, t + 1)
      BY <2>3, <2>4, <2>5 DEF Stretch
    <3>2. QED
      BY <3>1, <2>2 DEF new
<1>6. QED
  BY <1>4, <1>5, <1>1, <1>2

\* A stretch of output holds no exit code.
LEMMA StretchHasNoExit ==
  ASSUME NEW r \in Requests, NEW t \in Nat, NEW log, Stretch(log, r, t)
  PROVE  \A i \in 1..Len(log) : log[i].n # Exit
<1> SUFFICES ASSUME NEW i \in 1..Len(log) PROVE log[i].n # Exit
  OBVIOUS
<1>1. Len(log) \in Nat /\ Len(log) <= t
  BY DEF Stretch
<1>2. log[i].n = t - Len(log) + i
  BY ChunkFields DEF Stretch
<1>3. QED
  BY <1>1, <1>2 DEF Exit

-----------------------------------------------------------------------------
(* The invariant.                                                          *)

\* What is read was written, what was written is not more than there is; a
\* process that was not started wrote nothing, one that exited wrote all; and
\* a generator past its end of file read all of it.
Progress ==
  \A r \in Requests :
    /\ taken[r] <= written[r] /\ written[r] <= OutputLen[r]
    /\ proc[r] = "none" => written[r] = 0
    /\ proc[r] = "exited" => written[r] = OutputLen[r]
    /\ pc[r] \in {"new", "accepted", "waiting", "rejected", "starting"} => proc[r] = "none"
    /\ pc[r] \in {"closing", "done"} => proc[r] = "exited" /\ taken[r] = OutputLen[r]

Reads(r) == pc[r] \in {"starting", "reading", "sending"}

\* A generator that still has output to expect owns the log of its key.
OwnersLog == \A r \in Requests : Reads(r) => Stretch(logs[KeyOf[r]], r, taken[r])

\* The log of r with the exit code.
Closed(log, r) ==
  /\ proc[r] = "exited" /\ taken[r] = OutputLen[r]
  /\ \E body : Stretch(body, r, taken[r]) /\ log = Append(body, ChunkOf(r, Exit))

\* Whoever wrote a log, running or not, it is a stretch of what it has read.
LogIsStretch ==
  \A k \in Keys : logs[k] # <<>> =>
    \E r \in Requests :
      KeyOf[r] = k /\ (Stretch(logs[k], r, taken[r]) \/ Closed(logs[k], r))

LogInv == Progress /\ OwnersLog /\ LogIsStretch

LEMMA ProgressStep == TypeOK /\ Progress /\ [Next]_vars => Progress'
<1> SUFFICES ASSUME TypeOK, Progress, [Next]_vars PROVE Progress'
  OBVIOUS
<1> USE DEF TypeOK, Progress, procVars, GoTo
<1>1. CASE UNCHANGED vars
  BY <1>1 DEF vars
<1>2. ASSUME NEW r \in Requests, Post(r) PROVE Progress'
  BY <1>2 DEF Post, Check
<1>3. ASSUME NEW r \in Requests, AcquireFree(r) \/ AcquireTurn(r) PROVE Progress'
  <2>1. /\ pc' = [pc EXCEPT ![r] = "starting"] /\ UNCHANGED <<proc, written, taken>>
        /\ pc[r] \in {"accepted", "waiting"}
    BY <1>3 DEF AcquireFree, AcquireTurn, Begin
  <2>2. \A s \in Requests : pc'[s] = IF s = r THEN "starting" ELSE pc[s]
    BY <2>1
  <2>3. QED
    BY <2>1, <2>2
<1>4. ASSUME NEW r \in Requests, AcquireWait(r) PROVE Progress'
  BY <1>4 DEF AcquireWait
<1>5. ASSUME NEW r \in Requests, Spawn(r) PROVE Progress'
  BY <1>5 DEF Spawn
<1>6. ASSUME NEW r \in Requests, ReadChunk(r) PROVE Progress'
  BY <1>6 DEF ReadChunk
<1>7. ASSUME NEW r \in Requests, ReadEnd(r) PROVE Progress'
  BY <1>7 DEF ReadEnd
<1>8. ASSUME NEW r \in Requests, Sent(r) \/ AbandonSend(r) PROVE Progress'
  BY <1>8 DEF Sent, AbandonSend
<1>9. ASSUME NEW r \in Requests, Finish(r) PROVE Progress'
  BY <1>9 DEF Finish
<1>10. ASSUME NEW r \in Requests,
              SpawnFails(r) \/ Finalize(r) \/ CancelRunning(r) \/ CancelWaiting(r) \/ DropUnstarted(r)
       PROVE  Progress'
  BY <1>10 DEF SpawnFails, Finalize, CancelRunning, CancelWaiting, DropUnstarted
<1>11. ASSUME NEW r \in Requests, Write(r) PROVE Progress'
  <2>1. /\ written' = [written EXCEPT ![r] = written[r] + 1] /\ UNCHANGED <<pc, proc, taken>>
        /\ proc[r] = "live" /\ written[r] < OutputLen[r]
    BY <1>11 DEF Write
  <2>2. written[r] \in Nat /\ OutputLen[r] \in Nat /\ taken[r] \in Nat
    BY EngineAssumption
  <2>3. \A s \in Requests : written'[s] = IF s = r THEN written[r] + 1 ELSE written[s]
    BY <2>1
  <2>4. QED
    BY <2>1, <2>2, <2>3
<1>12. ASSUME NEW r \in Requests, ProcExit(r) PROVE Progress'
  BY <1>12 DEF ProcExit
<1>13. QED
  BY <1>1, <1>2, <1>3, <1>4, <1>5, <1>6, <1>7, <1>8, <1>9, <1>10, <1>11, <1>12
  DEF Next, LoopStep, ProcStep, Stop, Disconnect

\* Two generators that hold the lock of one key are the same.
LEMMA OneGeneratorPerKey ==
  ASSUME TypeOK, RefIsRegistered, OneRunPerLock,
         NEW r \in Requests, NEW s \in Requests, KeyOf[r] = KeyOf[s],
         pc[r] \in Holding, pc[s] \in Holding
  PROVE  r = s
BY DEF TypeOK, RefIsRegistered, OneRunPerLock, Holder

\* A generator that gets past acquire() finds nobody on its key, and empties
\* the log.
Begins(r) ==
  /\ pc[r] \in {"accepted", "waiting"}
  /\ pc' = [pc EXCEPT ![r] = "starting"]
  /\ logs' = [logs EXCEPT ![KeyOf[r]] = <<>>]
  /\ UNCHANGED procVars
  /\ \A s \in Requests : KeyOf[s] = KeyOf[r] => pc[s] \notin Holding

LEMMA AcquireBegins ==
  ASSUME TypeOK, RefIsRegistered, NoLostWakeup, OneRunPerLock,
         NEW r \in Requests, AcquireFree(r) \/ AcquireTurn(r)
  PROVE  Begins(r)
<1>1. ref[r] \in Locks /\ ref[r] = LockOf[KeyOf[r]]
  BY DEF TypeOK, RefIsRegistered
<1>2. ~locked[ref[r]]
  BY <1>1 DEF AcquireFree, AcquireTurn, Free, NoLostWakeup, GrantIsDue
<1>3. \A s \in Requests : KeyOf[s] = KeyOf[r] => pc[s] \notin Holding
  BY <1>1, <1>2 DEF OneRunPerLock, Holder, RefIsRegistered
<1>4. QED
  BY <1>3 DEF AcquireFree, AcquireTurn, Begin, Begins, GoTo

\* A step that neither reads nor touches a log: a generator only leaves its
\* place, or goes between reading and sending.
LogsUntouched(r) ==
  /\ UNCHANGED <<logs, taken>>
  /\ \A s \in Requests : (Reads(s))' => Reads(s)
  /\ \A s \in Requests : proc[s] = "exited" => proc'[s] = "exited"

LEMMA LogStepKinds ==
  ASSUME TypeOK, RefIsRegistered, NoLostWakeup, OneRunPerLock, Progress, Next
  PROVE  \E r \in Requests : Begins(r) \/ ReadChunk(r) \/ ReadEnd(r) \/ LogsUntouched(r)
<1>1. PICK r \in Requests : Post(r) \/ LoopStep(r) \/ ProcStep(r) \/ Stop(r)
  BY DEF Next
<1>2. CASE AcquireFree(r) \/ AcquireTurn(r)
  BY <1>2, AcquireBegins
<1>3. CASE Post(r) \/ AcquireWait(r) \/ Finish(r) \/ Finalize(r)
  BY <1>3 DEF TypeOK, Post, Check, AcquireWait, Finish, Finalize,
     LogsUntouched, Reads, GoTo, procVars
<1>4. CASE Spawn(r) \/ Sent(r)
  BY <1>4 DEF TypeOK, Progress, Spawn, Sent, LogsUntouched, Reads, GoTo, procVars
<1>5. CASE ProcStep(r) \/ Stop(r)
  BY <1>5 DEF TypeOK, ProcStep, Write, ProcExit, Stop, SpawnFails, Disconnect, DropUnstarted,
     CancelWaiting, CancelRunning, AbandonSend, LogsUntouched, Reads, GoTo, procVars
<1>6. QED
  BY <1>1, <1>2, <1>3, <1>4, <1>5 DEF LoopStep

LEMMA OwnersLogStep ==
  ASSUME TypeOK, RefIsRegistered, NoLostWakeup, OneRunPerLock, LogInv, [Next]_vars
  PROVE  OwnersLog'
<1> SUFFICES ASSUME NEW s \in Requests, (Reads(s))'
             PROVE  Stretch(logs'[KeyOf[s]], s, taken'[s])
  BY DEF OwnersLog, Reads
<1> USE DEF LogInv
<1>1. CASE UNCHANGED vars
  BY <1>1 DEF vars, OwnersLog, Reads
<1>2. CASE Next
  <2>1. PICK r \in Requests : Begins(r) \/ ReadChunk(r) \/ ReadEnd(r) \/ LogsUntouched(r)
    BY <1>2, LogStepKinds
  <2>2. CASE Begins(r)
    <3>1. CASE s = r
      <4>1. proc[r] = "none" /\ written[r] = 0 /\ taken[r] <= written[r]
        BY <2>2 DEF Begins, Progress
      <4>2. taken'[r] = 0 /\ logs'[KeyOf[r]] = <<>>
        BY <4>1, <2>2 DEF Begins, TypeOK, procVars
      <4>3. QED
        BY <3>1, <4>2, EmptyStretch
    <3>2. CASE s # r
      <4>1. Reads(s)
        BY <3>2, <2>2 DEF Begins, Reads, TypeOK
      <4>2. KeyOf[s] # KeyOf[r]
        BY <4>1, <2>2 DEF Begins, Reads, Holding
      <4>3. logs'[KeyOf[s]] = logs[KeyOf[s]] /\ taken'[s] = taken[s]
        BY <4>2, <2>2 DEF Begins, TypeOK, procVars
      <4>4. QED
        BY <4>1, <4>3 DEF OwnersLog
    <3>3. QED
      BY <3>1, <3>2
  <2>3. CASE ReadChunk(r)
    <3>1. Reads(r) /\ pc[r] \in Holding
      BY <2>3 DEF ReadChunk, Reads, Holding
    <3>2. CASE s = r
      <4>1. Stretch(logs[KeyOf[r]], r, taken[r]) /\ taken[r] \in Nat
        BY <3>1 DEF OwnersLog, TypeOK
      <4>2. /\ logs'[KeyOf[r]] = Clip(Append(logs[KeyOf[r]], ChunkOf(r, taken[r] + 1)))
            /\ taken'[r] = taken[r] + 1
        BY <2>3 DEF ReadChunk, ChunkOf, TypeOK
      <4>3. QED
        BY <3>2, <4>1, <4>2, GrownStretch
    <3>3. CASE s # r
      <4>1. Reads(s) /\ pc[s] \in Holding
        BY <3>3, <2>3 DEF ReadChunk, GoTo, Reads, Holding, TypeOK
      <4>2. KeyOf[s] # KeyOf[r]
        BY <3>1, <3>3, <4>1, OneGeneratorPerKey
      <4>3. logs'[KeyOf[s]] = logs[KeyOf[s]] /\ taken'[s] = taken[s]
        BY <3>3, <4>2, <2>3 DEF ReadChunk, TypeOK
      <4>4. QED
        BY <4>1, <4>3 DEF OwnersLog
    <3>4. QED
      BY <3>2, <3>3
  <2>4. CASE ReadEnd(r)
    <3>1. s # r /\ Reads(s) /\ pc[s] \in Holding /\ pc[r] \in Holding
      BY <2>4 DEF ReadEnd, GoTo, Reads, Holding, TypeOK
    <3>2. KeyOf[s] # KeyOf[r]
      BY <3>1, OneGeneratorPerKey
    <3>3. logs'[KeyOf[s]] = logs[KeyOf[s]] /\ taken'[s] = taken[s]
      BY <3>2, <2>4 DEF ReadEnd, TypeOK, procVars
    <3>4. QED
      BY <3>1, <3>3 DEF OwnersLog
  <2>5. CASE LogsUntouched(r)
    BY <2>5 DEF LogsUntouched, OwnersLog
  <2>6. QED
    BY <2>1, <2>2, <2>3, <2>4, <2>5
<1>3. QED
  BY <1>1, <1>2

\* A log that a step leaves alone, and whose writer it lets read nothing.
LEMMA KeptLog ==
  ASSUME LogIsStretch, NEW k \in Keys, logs'[k] = logs[k], logs[k] # <<>>,
         \A r \in Requests : KeyOf[r] = k =>
           taken'[r] = taken[r] /\ (proc[r] = "exited" => proc'[r] = "exited")
  PROVE  \E r \in Requests :
           KeyOf[r] = k /\ (Stretch(logs'[k], r, taken'[r]) \/ (Closed(logs[k], r))')
BY DEF LogIsStretch, Closed

LEMMA LogIsStretchStep ==
  ASSUME TypeOK, RefIsRegistered, NoLostWakeup, OneRunPerLock, LogInv, [Next]_vars
  PROVE  LogIsStretch'
<1> SUFFICES ASSUME NEW k \in Keys, logs'[k] # <<>>
             PROVE  \E r \in Requests :
                      KeyOf[r] = k /\ (Stretch(logs'[k], r, taken'[r]) \/ (Closed(logs[k], r))')
  BY DEF LogIsStretch
<1> USE DEF LogInv
<1>1. CASE UNCHANGED vars
  BY <1>1, KeptLog DEF vars
<1>2. CASE Next
  <2>1. PICK r \in Requests : Begins(r) \/ ReadChunk(r) \/ ReadEnd(r) \/ LogsUntouched(r)
    BY <1>2, LogStepKinds
  <2>2. CASE Begins(r)
    <3>1. k # KeyOf[r]
      BY <2>2 DEF Begins, TypeOK
    <3>2. logs'[k] = logs[k] /\ UNCHANGED <<taken, proc>>
      BY <3>1, <2>2 DEF Begins, procVars, TypeOK
    <3>3. QED
      BY <3>2, KeptLog
  <2>3. CASE ReadChunk(r)
    <3>1. CASE k = KeyOf[r]
      <4>1. Reads(r) /\ pc[r] \in Holding
        BY <2>3 DEF ReadChunk, Reads, Holding
      <4>2. Stretch(logs[k], r, taken[r]) /\ taken[r] \in Nat
        BY <3>1, <4>1 DEF OwnersLog, TypeOK
      <4>3. /\ logs'[k] = Clip(Append(logs[k], ChunkOf(r, taken[r] + 1)))
            /\ taken'[r] = taken[r] + 1
        BY <2>3, <3>1 DEF ReadChunk, ChunkOf, TypeOK
      <4>4. QED
        BY <3>1, <4>2, <4>3, GrownStretch
    <3>2. CASE k # KeyOf[r]
      <4>1. logs'[k] = logs[k] /\ proc' = proc
            /\ \A s \in Requests : KeyOf[s] = k => taken'[s] = taken[s]
        BY <2>3, <3>2 DEF ReadChunk, TypeOK
      <4>2. QED
        BY <4>1, KeptLog
    <3>3. QED
      BY <3>1, <3>2
  <2>4. CASE ReadEnd(r)
    <3>1. CASE k = KeyOf[r]
      <4>1. Reads(r)
        BY <2>4 DEF ReadEnd, Reads
      <4>2. Stretch(logs[k], r, taken[r])
        BY <3>1, <4>1 DEF OwnersLog
      <4>3. logs'[k] = Append(logs[k], ChunkOf(r, Exit)) /\ UNCHANGED <<taken, proc>>
        BY <2>4, <3>1 DEF ReadEnd, ChunkOf, procVars, TypeOK
      <4>4. proc[r] = "exited" /\ taken[r] = OutputLen[r]
        BY <2>4 DEF ReadEnd, Progress
      <4>5. (Closed(logs[k], r))'
        BY <4>2, <4>3, <4>4 DEF Closed
      <4>6. QED
        BY <3>1, <4>5
    <3>2. CASE k # KeyOf[r]
      <4>1. logs'[k] = logs[k] /\ UNCHANGED <<taken, proc>>
        BY <2>4, <3>2 DEF ReadEnd, procVars, TypeOK
      <4>2. QED
        BY <4>1, KeptLog
    <3>3. QED
      BY <3>1, <3>2
  <2>5. CASE LogsUntouched(r)
    BY <2>5, KeptLog DEF LogsUntouched
  <2>6. QED
    BY <2>1, <2>2, <2>3, <2>4, <2>5
<1>3. QED
  BY <1>1, <1>2

LEMMA LogInvariant == Spec => []LogInv
<1>1. Init => LogInv
  BY DEF Init, LogInv, Progress, OwnersLog, Reads, LogIsStretch
<1>2. Init => RefIsRegistered
  BY DEF Init, RefIsRegistered
<1>3. Spec => []RefIsRegistered
  BY <1>2, RefStep, TypeCorrect, PTL DEF Spec
<1>4. TypeOK /\ RefIsRegistered /\ NoLostWakeup /\ OneRunPerLock /\ LogInv /\ [Next]_vars => LogInv'
  <2> SUFFICES ASSUME TypeOK, RefIsRegistered, NoLostWakeup, OneRunPerLock, LogInv, [Next]_vars
               PROVE  LogInv'
    OBVIOUS
  <2>1. Progress'
    BY ProgressStep DEF LogInv
  <2>2. QED
    BY <2>1, OwnersLogStep, LogIsStretchStep DEF LogInv
<1>5. QED
  BY <1>1, <1>3, <1>4, TypeCorrect, WakeupsAreNotLost, MutualExclusion, PTL DEF Spec

-----------------------------------------------------------------------------
(* What the runs check.                                                    *)

\* A log with its exit code: the pieces of the body, then the exit code.
LEMMA ClosedPieces ==
  ASSUME NEW r \in Requests, taken[r] \in Nat, NEW log, Closed(log, r)
  PROVE  /\ log \in Seq(Piece) /\ Len(log) \in Nat /\ log # <<>>
         /\ log[Len(log)] = ChunkOf(r, Exit)
         /\ LET End == Len(log) - 1 IN
            /\ End \in Nat /\ End <= taken[r]
            /\ \A i \in 1..End : log[i] = ChunkOf(r, taken[r] - End + i)
            /\ taken[r] > End => End = LogCap
<1>1. PICK body : Stretch(body, r, taken[r]) /\ log = Append(body, ChunkOf(r, Exit))
  BY DEF Closed
<1>2. body \in Seq(Piece) /\ Len(body) \in Nat /\ ChunkOf(r, Exit) \in Piece
  BY <1>1 DEF Stretch, ChunkOf, Piece, Exit
<1>3. /\ log \in Seq(Piece) /\ Len(log) = Len(body) + 1
      /\ \A i \in 1..Len(body) : log[i] = body[i]
      /\ log[Len(body) + 1] = ChunkOf(r, Exit)
  BY <1>1, <1>2
<1>4. Len(log) - 1 = Len(body) /\ log # <<>>
  BY <1>2, <1>3
<1>5. /\ Len(body) <= taken[r] /\ (taken[r] > Len(body) => Len(body) = LogCap)
      /\ \A i \in 1..Len(body) : log[i] = ChunkOf(r, taken[r] - Len(body) + i)
  BY <1>1, <1>3 DEF Stretch
<1>6. log[Len(log)] = ChunkOf(r, Exit) /\ Len(log) \in Nat
  BY <1>2, <1>3
<1>7. QED
  BY <1>2, <1>3, <1>4, <1>5, <1>6

\* The log that /plan returns and the page shows is one run's, without a gap.
THEOREM LogsAreWhole == Spec => []LogIsOneRunsOutput
<1>1. ASSUME TypeOK, LogInv PROVE LogIsOneRunsOutput
  <2> SUFFICES ASSUME NEW k \in Keys, logs[k] # <<>>
               PROVE  LET log == logs[k]
                          r   == log[1].by
                          End == IF Last(log).n = Exit THEN Len(log) - 1 ELSE Len(log)
                      IN  /\ KeyOf[r] = k
                          /\ \A i \in 1..Len(log) : log[i].by = r
                          /\ \A i \in 1..End : log[i].n = taken[r] - End + i
                          /\ taken[r] > End => End = LogCap
    BY DEF LogIsOneRunsOutput
  <2> DEFINE log == logs[k]
  <2>1. PICK r \in Requests : KeyOf[r] = k /\ (Stretch(log, r, taken[r]) \/ Closed(log, r))
    BY <1>1 DEF LogInv, LogIsStretch
  <2>2. taken[r] \in Nat
    BY <1>1 DEF TypeOK
  <2>3. log \in Seq(Piece) /\ log # <<>>
    BY <1>1 DEF TypeOK
  <2> HIDE DEF log
  <2>4. Len(log) \in Nat \ {0} /\ 1 \in 1..Len(log) /\ Len(log) \in 1..Len(log) /\ Last(log) = log[Len(log)]
    BY <2>3, EmptySeq DEF Last
  <2>5. CASE Stretch(log, r, taken[r])
    <3>1. \A i \in 1..Len(log) : log[i].by = r /\ log[i].n = taken[r] - Len(log) + i
      BY <2>5, ChunkFields DEF Stretch
    <3>2. Last(log).n # Exit
      BY <2>2, <2>4, <2>5, StretchHasNoExit
    <3>3. log[1].by = r
      BY <3>1, <2>4
    <3>4. taken[r] > Len(log) => Len(log) = LogCap
      BY <2>5 DEF Stretch
    <3>5. QED
      BY <2>1, <3>1, <3>2, <3>3, <3>4 DEF log
  <2>6. CASE Closed(log, r)
    <3> DEFINE End == Len(log) - 1
    <3>1. /\ Last(log).n = Exit /\ Last(log).by = r
          /\ \A i \in 1..End : log[i].by = r /\ log[i].n = taken[r] - End + i
          /\ taken[r] > End => End = LogCap
      <4>1. /\ log[Len(log)] = ChunkOf(r, Exit)
            /\ \A i \in 1..End : log[i] = ChunkOf(r, taken[r] - End + i)
            /\ taken[r] > End => End = LogCap
        BY <2>2, <2>6, ClosedPieces
      <4> HIDE DEF End
      <4>2. QED
        BY <2>4, <4>1, ChunkFields
    <3>2. \A i \in 1..Len(log) : log[i].by = r
      <4>1. \A i \in 1..Len(log) : i = Len(log) \/ i \in 1..End
        BY <2>4
      <4>2. QED
        BY <3>1, <2>4, <4>1
    <3>3. log[1].by = r
      BY <3>2, <2>4
    <3>4. QED
      BY <2>1, <3>1, <3>2, <3>3 DEF log
  <2>7. QED
    BY <2>1, <2>5, <2>6
<1>2. QED
  BY <1>1, TypeCorrect, LogInvariant, PTL

\* The exit code that the page parses is that of a run that is over and whose
\* output is all in.
THEOREM VerdictsAreTrue == Spec => []VerdictIsTrue
<1>1. ASSUME TypeOK, LogInv PROVE VerdictIsTrue
  <2>1. ASSUME NEW k \in Keys, NEW i \in DOMAIN logs[k], logs[k][i].n = Exit
        PROVE  LET r == logs[k][i].by IN
               proc[r] = "exited" /\ taken[r] = OutputLen[r] /\ i = Len(logs[k])
    <3> DEFINE log == logs[k]
    <3>1. log \in Seq(Piece)
      BY <1>1 DEF TypeOK
    <3>2. i \in 1..Len(log) /\ Len(log) \in Nat /\ log # <<>>
      BY <3>1, <2>1
    <3>3. PICK r \in Requests : KeyOf[r] = k /\ (Stretch(log, r, taken[r]) \/ Closed(log, r))
      BY <1>1, <3>2 DEF LogInv, LogIsStretch
    <3>4. taken[r] \in Nat
      BY <1>1 DEF TypeOK
    <3> HIDE DEF log
    <3>5. Closed(log, r)
      BY <3>2, <3>3, <3>4, <2>1, StretchHasNoExit DEF log
    <3>6. \A j \in 1..(Len(log) - 1) : log[j].n # Exit
      <4> SUFFICES ASSUME NEW j \in 1..(Len(log) - 1) PROVE log[j].n # Exit
        OBVIOUS
      <4>1. log[j].n = taken[r] - (Len(log) - 1) + j /\ Len(log) - 1 <= taken[r]
        <5>1. /\ Len(log) - 1 <= taken[r]
              /\ \A m \in 1..(Len(log) - 1) : log[m] = ChunkOf(r, taken[r] - (Len(log) - 1) + m)
          BY <3>4, <3>5, ClosedPieces
        <5>2. QED
          BY <5>1, ChunkFields
      <4>2. QED
        BY <4>1, <3>2, <3>4 DEF Exit
    <3>7. i = Len(log)
      BY <3>2, <3>6, <2>1 DEF log
    <3>8. log[i].by = r
      <4>1. log[Len(log)] = ChunkOf(r, Exit)
        BY <3>4, <3>5, ClosedPieces
      <4>2. QED
        BY <3>7, <4>1, ChunkFields
    <3>9. QED
      BY <3>5, <3>7, <3>8 DEF Closed, log
  <2>2. \A r \in Requests : pc[r] = "done" => proc[r] = "exited" /\ taken[r] = OutputLen[r]
    BY <1>1 DEF LogInv, Progress
  <2>3. QED
    BY <2>1, <2>2 DEF VerdictIsTrue
<1>2. QED
  BY <1>1, TypeCorrect, LogInvariant, PTL

\* A log with a verdict is left alone until the next run of its key begins.
THEOREM VerdictsStay == Spec => VerdictStays
<1> DEFINE Stays(k) ==
      logs[k] # <<>> /\ Last(logs[k]).n = Exit /\ logs'[k] # logs[k] =>
        /\ logs'[k] = <<>>
        /\ \E r \in Requests : KeyOf[r] = k /\ pc[r] \notin Holding /\ pc'[r] \in Holding
<1>1. ASSUME TypeOK, RefIsRegistered, NoLostWakeup, OneRunPerLock, LogInv, [Next]_vars,
             NEW k \in Keys
      PROVE  Stays(k)
  <2> SUFFICES ASSUME logs[k] # <<>>, Last(logs[k]).n = Exit, logs'[k] # logs[k]
               PROVE  /\ logs'[k] = <<>>
                      /\ \E r \in Requests : KeyOf[r] = k /\ pc[r] \notin Holding /\ pc'[r] \in Holding
    OBVIOUS
  <2>1. Next
    BY <1>1 DEF vars
  <2>2. PICK r \in Requests : Begins(r) \/ ReadChunk(r) \/ ReadEnd(r) \/ LogsUntouched(r)
    BY <1>1, <2>1, LogStepKinds DEF LogInv
  <2>3. ~LogsUntouched(r)
    BY DEF LogsUntouched
  <2>4. KeyOf[r] = k
    BY <1>1, <2>2, <2>3 DEF Begins, ReadChunk, ReadEnd, TypeOK
  <2>5. ~ReadChunk(r) /\ ~ReadEnd(r)
    <3> SUFFICES ASSUME ReadChunk(r) \/ ReadEnd(r) PROVE FALSE
      OBVIOUS
    <3>1. Stretch(logs[k], r, taken[r]) /\ taken[r] \in Nat
      BY <1>1, <2>4 DEF ReadChunk, ReadEnd, Reads, LogInv, OwnersLog, TypeOK
    <3>2. Len(logs[k]) \in 1..Len(logs[k]) /\ Last(logs[k]) = logs[k][Len(logs[k])]
      BY <1>1, EmptySeq DEF TypeOK, Last
    <3>3. QED
      BY <3>1, <3>2, StretchHasNoExit
  <2>6. Begins(r)
    BY <2>2, <2>3, <2>5
  <2>7. pc[r] \notin Holding /\ pc'[r] \in Holding /\ logs'[k] = <<>>
    BY <1>1, <2>4, <2>6 DEF Begins, Holding, TypeOK
  <2>8. QED
    BY <2>4, <2>7
<1>2. TypeOK /\ RefIsRegistered /\ NoLostWakeup /\ OneRunPerLock /\ LogInv /\ [Next]_vars
        => [\A k \in Keys : Stays(k)]_vars
  BY <1>1
<1>3. Init => RefIsRegistered
  BY DEF Init, RefIsRegistered
<1>4. Spec => []RefIsRegistered
  BY <1>3, RefStep, TypeCorrect, PTL DEF Spec
<1>5. QED
  BY <1>2, <1>4, TypeCorrect, WakeupsAreNotLost, MutualExclusion, LogInvariant, PTL
  DEF Spec, VerdictStays
=============================================================================
