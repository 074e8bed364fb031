------------------------------ MODULE RunEngine ------------------------------
(***************************************************************************)
(* The streaming run engine of backend/main.py: _check_not_running and the *)
(* async generator _stream_shell, through which every long-running command *)
(* of the web UI (offline stages, transfer, Molecule, cluster install,     *)
(* connectivity, verify, offline apt, Cilium) is executed.                 *)
(*                                                                         *)
(* A request is one POST to a .../run handler.  Its handler runs on a      *)
(* thread pool and only LOOKS at the lock; the generator runs later on the *)
(* event loop and TAKES it.  In between, other requests may pass the same  *)
(* check.  A client may disconnect at any await; the generator is then     *)
(* cancelled or finalized, its subprocess is not killed.                   *)
(***************************************************************************)
EXTENDS Naturals, Sequences, SequencesExt

CONSTANTS
  Requests,    \* the POSTs that are made, each at most once
  Keys,        \* the logs: one per stage, role or inventory and action
  Locks,       \* the asyncio.Lock objects
  KeyOf,       \* the key a request asks to run
  LockOf,      \* the lock object guarding a key (two keys may share one)
  OutputLen,   \* how many chunks the command of a request prints
  LogCap,      \* LOG_CAP, in chunks
  PipeCap      \* chunks the StreamReader and the OS pipe hold unread

ASSUME EngineAssumption ==
  /\ KeyOf \in [Requests -> Keys]
  /\ LockOf \in [Keys -> Locks]
  /\ OutputLen \in [Requests -> Nat]
  /\ LogCap \in Nat \ {0}
  /\ PipeCap \in Nat \ {0}

VARIABLES
  pc,       \* where each request's handler or generator stands
  ref,      \* the lock object its handler got from _check_not_running
  locked,   \* Lock._locked
  queue,    \* Lock._waiters: the requests suspended in acquire(), oldest first
  granted,  \* the future of the oldest waiter is resolved, it has not resumed yet
  proc,     \* the subprocess of each request
  written,  \* chunks the subprocess has written to its pipe
  taken,    \* chunks the generator has read from it
  logs      \* the server-side copy of the output, by key

lockVars == <<locked, queue, granted>>
procVars == <<proc, written, taken>>
vars == <<pc, ref, locked, queue, granted, proc, written, taken, logs>>

-----------------------------------------------------------------------------
(* Program counters of a request.  "accepted": the handler has returned a  *)
(* StreamingResponse whose generator has not been started.  "waiting": in  *)
(* lock.acquire().  "starting": in create_subprocess_shell.  "reading": in *)
(* proc.stdout.read or proc.wait.  "sending", "closing": suspended at      *)
(* `yield text`, `yield tail`.  "abandoned": the response is gone while    *)
(* the generator was suspended at a yield; it waits for the event loop's   *)
(* async-generator finalizer.                                              *)
Holding == {"starting", "reading", "sending", "closing", "abandoned"}
Settled == {"rejected", "done", "aborted"}
Places == {"new", "accepted", "waiting"} \cup Holding \cup Settled

\* A piece of a log: chunk n of a run's output, or its exit code when n = 0.
Exit == 0
Piece == [by : Requests, n : Nat]

Holder(l, r) == ref[r] = l /\ pc[r] \in Holding

TypeOK ==
  /\ pc \in [Requests -> Places]
  /\ ref \in [Requests -> Locks]
  /\ locked \in [Locks -> BOOLEAN]
  /\ queue \in [Locks -> Seq(Requests)]
  /\ granted \in [Locks -> BOOLEAN]
  /\ proc \in [Requests -> {"none", "live", "exited"}]
  /\ written \in [Requests -> Nat]
  /\ taken \in [Requests -> Nat]
  /\ logs \in [Keys -> Seq(Piece)]

\* Mutant of Init: the logs are not created with the locks, so /plan of a key
\* that never ran has nothing to return.
InitWithoutLogs ==
  /\ pc = [r \in Requests |-> "new"]
  /\ ref = [r \in Requests |-> LockOf[KeyOf[r]]]
  /\ locked = [l \in Locks |-> FALSE]
  /\ queue = [l \in Locks |-> <<>>]
  /\ granted = [l \in Locks |-> FALSE]
  /\ proc = [r \in Requests |-> "none"]
  /\ written = [r \in Requests |-> 0]
  /\ taken = [r \in Requests |-> 0]
  /\ logs = [k \in {} |-> <<>>]

\* Before its handler has looked a lock up, a request refers to the one its
\* key is registered with; nothing reads ref before Post has set it.
Init ==
  /\ pc = [r \in Requests |-> "new"]
  /\ ref = [r \in Requests |-> LockOf[KeyOf[r]]]
  /\ locked = [l \in Locks |-> FALSE]
  /\ queue = [l \in Locks |-> <<>>]
  /\ granted = [l \in Locks |-> FALSE]
  /\ proc = [r \in Requests |-> "none"]
  /\ written = [r \in Requests |-> 0]
  /\ taken = [r \in Requests |-> 0]
  /\ logs = [k \in Keys |-> <<>>]

GoTo(r, place) == pc' = [pc EXCEPT ![r] = place]

-----------------------------------------------------------------------------
(* asyncio.Lock, as _stream_shell uses it.                                 *)

\* acquire() returns at once only when nobody holds the lock and nobody waits.
Free(l) == ~locked[l] /\ queue[l] = <<>>

\* release(): unlock, and resolve the future of the oldest waiter.
Release(l) ==
  /\ locked' = [locked EXCEPT ![l] = FALSE]
  /\ granted' = [granted EXCEPT ![l] = queue[l] # <<>>]
  /\ UNCHANGED queue

\* Mutant of LeaveQueue: the wake-up dies with the cancelled waiter.
LeaveQueueSilently(l, r) ==
  /\ \E i \in 1..Len(queue[l]) :
        /\ queue[l][i] = r
        /\ queue' = [queue EXCEPT ![l] = RemoveAt(@, i)]
        /\ granted' = [granted EXCEPT ![l] = @ /\ i # 1]
  /\ UNCHANGED locked

\* A cancelled waiter leaves the queue; if the lock is free it passes the
\* wake-up on to whoever is then the oldest.
LeaveQueue(l, r) ==
  /\ \E i \in 1..Len(queue[l]) :
        /\ queue[l][i] = r
        /\ queue' = [queue EXCEPT ![l] = RemoveAt(@, i)]
  /\ granted' = [granted EXCEPT ![l] = ~locked[l] /\ queue'[l] # <<>>]
  /\ UNCHANGED locked

-----------------------------------------------------------------------------
(* The handler, on a worker thread.                                        *)

\* Mutant of Check: no 409, everything is left to the lock.
CheckNothing(r, l) ==
  /\ pc[r] = "new"
  /\ GoTo(r, "accepted")
  /\ ref' = [ref EXCEPT ![r] = l]
  /\ UNCHANGED <<lockVars, procVars, logs>>

\* _check_not_running: 409 while the lock is held, else a response is
\* returned that refers to the lock object l.  Nothing is reserved.
Check(r, l) ==
  /\ pc[r] = "new"
  /\ GoTo(r, IF locked[l] THEN "rejected" ELSE "accepted")
  /\ ref' = [ref EXCEPT ![r] = l]
  /\ UNCHANGED <<lockVars, procVars, logs>>

Post(r) == Check(r, LockOf[KeyOf[r]])

-----------------------------------------------------------------------------
(* The generator, on the event loop.                                       *)

\* Mutant of Begin: the previous run's log is kept.
BeginAppending(r) ==
  /\ GoTo(r, "starting")
  /\ UNCHANGED <<ref, procVars, logs>>

\* What follows lock.acquire() without an await: the key's log is reset.
Begin(r) ==
  /\ GoTo(r, "starting")
  /\ logs' = [logs EXCEPT ![KeyOf[r]] = <<>>]
  /\ UNCHANGED <<ref, procVars>>

AcquireFree(r) ==
  /\ pc[r] = "accepted"
  /\ Free(ref[r])
  /\ locked' = [locked EXCEPT ![ref[r]] = TRUE]
  /\ UNCHANGED <<queue, granted>>
  /\ Begin(r)

\* Mutant of AcquireWait: the log is reset before lock.acquire().
AcquireWaitResetting(r) ==
  /\ pc[r] = "accepted"
  /\ ~Free(ref[r])
  /\ queue' = [queue EXCEPT ![ref[r]] = Append(@, r)]
  /\ GoTo(r, "waiting")
  /\ logs' = [logs EXCEPT ![KeyOf[r]] = <<>>]
  /\ UNCHANGED <<ref, locked, granted, procVars>>

AcquireWait(r) ==
  /\ pc[r] = "accepted"
  /\ ~Free(ref[r])
  /\ queue' = [queue EXCEPT ![ref[r]] = Append(@, r)]
  /\ GoTo(r, "waiting")
  /\ UNCHANGED <<ref, locked, granted, procVars, logs>>

\* The oldest waiter resumes after its future was resolved.
AcquireTurn(r) ==
  /\ pc[r] = "waiting"
  /\ granted[ref[r]]
  /\ queue[ref[r]] # <<>> /\ Head(queue[ref[r]]) = r
  /\ queue' = [queue EXCEPT ![ref[r]] = Tail(@)]
  /\ locked' = [locked EXCEPT ![ref[r]] = TRUE]
  /\ granted' = [granted EXCEPT ![ref[r]] = FALSE]
  /\ Begin(r)

Spawn(r) ==
  /\ pc[r] = "starting"
  /\ GoTo(r, "reading")
  /\ proc' = [proc EXCEPT ![r] = "live"]
  /\ UNCHANGED <<ref, lockVars, written, taken, logs>>

\* create_subprocess_shell raises (its cwd is missing, no more processes).
SpawnFails(r) ==
  /\ pc[r] = "starting"
  /\ GoTo(r, "aborted")
  /\ Release(ref[r])
  /\ UNCHANGED <<ref, procVars, logs>>

\* [-LOG_CAP:]
Clip(log) ==
  IF Len(log) > LogCap THEN SubSeq(log, Len(log) - LogCap + 1, Len(log)) ELSE log

\* A chunk is mirrored into the log before it is yielded to the client.
ReadChunk(r) ==
  /\ pc[r] = "reading"
  /\ taken[r] < written[r]
  /\ taken' = [taken EXCEPT ![r] = @ + 1]
  /\ logs' = [logs EXCEPT ![KeyOf[r]] = Clip(Append(@, [by |-> r, n |-> taken[r] + 1]))]
  /\ GoTo(r, "sending")
  /\ UNCHANGED <<ref, lockVars, proc, written>>

\* The client has taken the chunk and the generator is resumed.
Sent(r) ==
  /\ pc[r] = "sending"
  /\ GoTo(r, "reading")
  /\ UNCHANGED <<ref, lockVars, procVars, logs>>

\* Mutant of ReadEnd: an empty buffer is taken for the end of the output.
ReadEndWhenIdle(r) ==
  /\ pc[r] = "reading"
  /\ taken[r] = written[r]
  /\ logs' = [logs EXCEPT ![KeyOf[r]] = Append(@, [by |-> r, n |-> Exit])]
  /\ GoTo(r, "closing")
  /\ UNCHANGED <<ref, lockVars, procVars>>

\* End of file, proc.wait(), and the "[exit code N]" line, which LOG_CAP
\* does not clip.
ReadEnd(r) ==
  /\ pc[r] = "reading"
  /\ proc[r] = "exited"
  /\ taken[r] = written[r]
  /\ logs' = [logs EXCEPT ![KeyOf[r]] = Append(@, [by |-> r, n |-> Exit])]
  /\ GoTo(r, "closing")
  /\ UNCHANGED <<ref, lockVars, procVars>>

Finish(r) ==
  /\ pc[r] = "closing"
  /\ GoTo(r, "done")
  /\ Release(ref[r])
  /\ UNCHANGED <<ref, procVars, logs>>

-----------------------------------------------------------------------------
(* The client goes away: the response task is cancelled.                   *)

\* The generator was never started: it holds nothing.
DropUnstarted(r) ==
  /\ pc[r] = "accepted"
  /\ GoTo(r, "aborted")
  /\ UNCHANGED <<ref, lockVars, procVars, logs>>

\* Mutant of CancelWaiting: acquire() moved inside the try.
CancelWaitingReleases(r) ==
  /\ pc[r] = "waiting"
  /\ \E i \in 1..Len(queue[ref[r]]) :
        /\ queue[ref[r]][i] = r
        /\ queue' = [queue EXCEPT ![ref[r]] = RemoveAt(@, i)]
  /\ locked' = [locked EXCEPT ![ref[r]] = FALSE]
  /\ granted' = [granted EXCEPT ![ref[r]] = queue'[ref[r]] # <<>>]
  /\ GoTo(r, "aborted")
  /\ UNCHANGED <<ref, procVars, logs>>

\* Cancelled inside acquire(), which is before the try: nothing to release.
CancelWaiting(r) ==
  /\ pc[r] = "waiting"
  /\ LeaveQueue(ref[r], r)
  /\ GoTo(r, "aborted")
  /\ UNCHANGED <<ref, procVars, logs>>

\* Mutant of CancelRunning: release() after the loop instead of in `finally`.
CancelRunningLeaks(r) ==
  /\ pc[r] \in {"starting", "reading"}
  /\ GoTo(r, "aborted")
  /\ UNCHANGED <<ref, lockVars, procVars, logs>>

\* Cancelled inside create_subprocess_shell, which kills what it started, or
\* inside read(): `finally` releases and the subprocess is left running.
CancelRunning(r) ==
  /\ pc[r] \in {"starting", "reading"}
  /\ GoTo(r, "aborted")
  /\ Release(ref[r])
  /\ UNCHANGED <<ref, procVars, logs>>

\* Cancelled while the response was sending: the suspended generator keeps
\* the lock until the event loop closes it.
AbandonSend(r) ==
  /\ pc[r] \in {"sending", "closing"}
  /\ GoTo(r, "abandoned")
  /\ UNCHANGED <<ref, lockVars, procVars, logs>>

Finalize(r) ==
  /\ pc[r] = "abandoned"
  /\ GoTo(r, "aborted")
  /\ Release(ref[r])
  /\ UNCHANGED <<ref, procVars, logs>>

Disconnect(r) ==
  DropUnstarted(r) \/ CancelWaiting(r) \/ CancelRunning(r) \/ AbandonSend(r)

-----------------------------------------------------------------------------
(* The subprocess.  The event loop takes its output into the reader's      *)
(* buffer, attached or not, until that and the pipe are full.              *)

Write(r) ==
  /\ proc[r] = "live"
  /\ written[r] < OutputLen[r]
  /\ written[r] - taken[r] < PipeCap
  /\ written' = [written EXCEPT ![r] = @ + 1]
  /\ UNCHANGED <<pc, ref, lockVars, proc, taken, logs>>

ProcExit(r) ==
  /\ proc[r] = "live"
  /\ written[r] = OutputLen[r]
  /\ proc' = [proc EXCEPT ![r] = "exited"]
  /\ UNCHANGED <<pc, ref, lockVars, written, taken, logs>>

-----------------------------------------------------------------------------
LoopStep(r) ==
  \/ AcquireFree(r) \/ AcquireWait(r) \/ AcquireTurn(r)
  \/ Spawn(r) \/ ReadChunk(r) \/ Sent(r) \/ ReadEnd(r) \/ Finish(r)
  \/ Finalize(r)

ProcStep(r) == Write(r) \/ ProcExit(r)

Stop(r) == SpawnFails(r) \/ Disconnect(r)

Next == \E r \in Requests : Post(r) \/ LoopStep(r) \/ ProcStep(r) \/ Stop(r)

Spec == Init /\ [][Next]_vars

\* The event loop runs every ready coroutine and a process that can write
\* does; nobody owes the system a request, a disconnection or a failure.
Fairness == \A r \in Requests : WF_vars(LoopStep(r)) /\ WF_vars(ProcStep(r))

FairSpec == Spec /\ Fairness

-----------------------------------------------------------------------------
(* Properties.                                                             *)

\* Of the generators that share a lock object, at most one is between its
\* acquire() and its release(), and the flag that /plan reports as "running"
\* (lock.locked()) says exactly whether there is one: no cancellation, failed
\* spawn or late finalizer leaks the lock or frees it under somebody else.
OneRunPerLock ==
  \A l \in Locks :
    /\ locked[l] <=> \E r \in Requests : Holder(l, r)
    /\ \A r, s \in Requests : Holder(l, r) /\ Holder(l, s) => r = s

GrantIsDue == \A l \in Locks : granted[l] <=> ~locked[l] /\ queue[l] # <<>>

WaitersAreQueued ==
  \A l \in Locks, r \in Requests :
    pc[r] = "waiting" /\ ref[r] = l <=> \E i \in 1..Len(queue[l]) : queue[l][i] = r

QueuedOnce ==
  \A l \in Locks : \A i, j \in 1..Len(queue[l]) : queue[l][i] = queue[l][j] => i = j

\* Those who wait for a lock are in its queue, once, and the oldest has been
\* told to go ahead exactly when the lock is free: no release and no cancelled
\* waiter loses the wake-up that the next one in line depends on.
NoLostWakeup == GrantIsDue /\ WaitersAreQueued /\ QueuedOnce

\* A log is a gapless stretch of ONE run's output that ends where that run's
\* generator stands, whoever else was cancelled, queued or orphaned meanwhile,
\* and only LOG_CAP may have cut its beginning.
LogIsOneRunsOutput ==
  \A k \in Keys : logs[k] # <<>> =>
    LET log == logs[k]
        r   == log[1].by
        End == IF Last(log).n = Exit THEN Len(log) - 1 ELSE Len(log)
    IN  /\ KeyOf[r] = k
        /\ \A i \in 1..Len(log) : log[i].by = r
        /\ \A i \in 1..End : log[i].n = taken[r] - End + i
        /\ taken[r] > End => End = LogCap

\* "[exit code N]" appears in a log only when that run's process has exited
\* and all it printed was read; a response that ended normally implies it.
VerdictIsTrue ==
  /\ \A k \in Keys : \A i \in DOMAIN logs[k] :
       LET r == logs[k][i].by
       IN  logs[k][i].n = Exit => /\ proc[r] = "exited"
                                  /\ taken[r] = OutputLen[r]
                                  /\ i = Len(logs[k])
  /\ \A r \in Requests :
       pc[r] = "done" => proc[r] = "exited" /\ taken[r] = OutputLen[r]

\* A finished run's log stays as it is until another run of that key takes the
\* lock: neither a late generator nor an orphaned process writes after it.
VerdictStays ==
  [][\A k \in Keys :
       logs[k] # <<>> /\ Last(logs[k]).n = Exit /\ logs'[k] # logs[k] =>
         /\ logs'[k] = <<>>
         /\ \E r \in Requests : KeyOf[r] = k /\ pc[r] \notin Holding /\ pc'[r] \in Holding]_vars

\* An accepted request does not hang: its response ends, with the exit code or
\* because its client left or its command could not be started, even when it
\* queued behind others that were cancelled.
EventuallySettles ==
  \A r \in Requests : pc[r] = "accepted" ~> pc[r] \in Settled

\* The abstract service, and the engine as an implementation of it.
PhaseOf(place) ==
  CASE place = "new" -> "new"
    [] place = "rejected" -> "refused"
    [] place \in {"accepted", "waiting"} -> "pending"
    [] place \in Holding -> "running"
    [] place \in {"done", "aborted"} -> "over"

guardOf == [r \in Requests |-> LockOf[KeyOf[r]]]

phaseOf == [r \in Requests |-> PhaseOf(pc[r])]

Service == INSTANCE RunService WITH Guard <- guardOf, phase <- phaseOf

\* Every behaviour of the engine is one of the abstract service: one running
\* request per lock, refusals only while one runs, no second start.
ImplementsService == Service!Spec

-----------------------------------------------------------------------------
(* What the comments of main.py say, and the engine does not do.           *)

\* main.py:443-449: two runs of the same stage must not race each other, so
\* there is one lock per stage.
NoTwoProcesses ==
  \A r, s \in Requests :
    proc[r] = "live" /\ proc[s] = "live" /\ ref[r] = ref[s] => r = s

\* main.py:416-417, 460-462: the subprocess keeps going regardless of any tab.
ProcessKeepsGoing ==
  \A r \in Requests : proc[r] = "live" ~> proc[r] = "exited"
=============================================================================
