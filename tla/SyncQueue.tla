----------------------------- MODULE SyncQueue ------------------------------
(***************************************************************************)
(* The sync queue and its worker (app/services/sync_queue.py): a pipeline  *)
(* writes the parquet file of a key and schedules an `enqueue` coroutine;  *)
(* the worker takes tasks, copies the parquet file into LanceDB (delete    *)
(* the old rows, add the new ones), retries after a backoff, and gives up  *)
(* after max_attempts.  The queue, the dedup dictionary and the timers die *)
(* with the process; parquet, LanceDB and the JSONL sidecar survive.  A    *)
(* sidecar line may be lost: a failed write is logged and swallowed.       *)
(*                                                                         *)
(* A task is named by the number of the parquet write that created it, so  *)
(* the version of a parquet file is the name of its latest task.           *)
(***************************************************************************)
EXTENDS Naturals, Sequences

LOCAL INSTANCE Functions

CONSTANTS Keys,         \* dedup keys: (ws, col, entity, rep)
          MaxWrites,    \* bound: parquet writes of a behaviour
          QMax,         \* asyncio.Queue maxsize
          MaxAttempts,  \* SyncTask.max_attempts
          MaxCrashes,   \* bound: crashes of a behaviour
          MaxLost       \* bound: sidecar lines lost of a behaviour

ASSUME KeysAssumption == Keys # {}
ASSUME BoundsAssumption ==
    /\ MaxWrites \in Nat
    /\ QMax \in Nat \ {0}
    /\ MaxAttempts \in Nat \ {0}
    /\ MaxCrashes \in Nat
    /\ MaxLost \in Nat

Tasks == 1..MaxWrites
None == 0               \* no task, no version
Status == {"pending", "running", "done", "failed"}

VARIABLES
    \* durable
    parquet,        \* [Keys -> version of the parquet file]
    lance,          \* [Keys -> version of the rows in LanceDB]
    sidecar,        \* [Tasks -> status of the latest line of the task]
    sidecarTries,   \* [Tasks -> attempts of the latest line of the task]
    \* memory of the process
    proc,           \* "down", "recovering", "up"
    cursor,         \* last sidecar entry that recover_pending has handled
    ready,          \* scheduled enqueue coroutines, in event loop order
    queue,          \* the asyncio.Queue
    timers,         \* tasks waiting for their backoff timer
    pending,        \* [Keys -> task in the dedup dictionary]
    status,         \* [Tasks -> SyncTask.status]
    attempts,       \* [Tasks -> SyncTask.attempts]
    wpc,            \* where the worker is
    wtask,          \* the task the worker holds
    snapshot,       \* the version the worker read
    \* history
    keyOf,          \* [Tasks -> key], fixed when the task is created
    writes,         \* parquet writes so far
    crashes,        \* crashes so far
    failures,       \* [Tasks -> failed synchronisations of the task]
    carrier,        \* [Keys -> task answerable for the key's version]
    lost,           \* [Tasks -> sidecar lines of the task that were lost]
    dropped,        \* tasks refused or given up, with a log line
    vanished        \* tasks nothing remembers, and no log line told of it

durable == <<parquet, lance, sidecar, sidecarTries>>
workerVars == <<wpc, wtask, snapshot>>
procVars == <<proc, cursor, crashes>>
history == <<keyOf, writes, failures, carrier, lost, dropped, vanished>>
vars == <<durable, procVars, ready, queue, timers, pending, status, attempts,
          workerVars, history>>

Members(s) == {s[i] : i \in DOMAIN s}

\* The worker is between get() and mark_done or mark_failed, having read the
\* parquet file.
Working == wpc \in {"read", "deleted", "added"}

\* The task the worker holds, from the moment it has left the queue.
Held == IF wpc = "idle" THEN {} ELSE {wtask}

\* The tasks the process will still run: queued, in backoff, or held.
Scheduled == Members(queue) \cup timers \cup Held

Init ==
    /\ parquet = [k \in Keys |-> None]
    /\ lance = [k \in Keys |-> None]
    /\ sidecar = [t \in Tasks |-> "none"]
    /\ sidecarTries = [t \in Tasks |-> 0]
    /\ proc = "recovering"
    /\ cursor = 0
    /\ ready = <<>>
    /\ queue = <<>>
    /\ timers = {}
    /\ pending = [k \in Keys |-> None]
    /\ status = [t \in Tasks |-> "pending"]
    /\ attempts = [t \in Tasks |-> 0]
    /\ wpc = "idle"
    /\ wtask = None
    /\ snapshot = None
    /\ keyOf \in [Tasks -> Keys]
    /\ writes = 0
    /\ crashes = 0
    /\ failures = [t \in Tasks |-> 0]
    /\ carrier = [k \in Keys |-> None]
    /\ lost = [t \in Tasks |-> 0]
    /\ dropped = {}
    /\ vanished = {}

-----------------------------------------------------------------------------
(* Pipeline: upsert_chunks, then _enqueue_sync, with no await in between.  *)

WriteParquet(k) ==
    /\ proc = "up"
    /\ writes < MaxWrites
    /\ LET t == writes + 1 IN
       /\ keyOf[t] = k
       /\ writes' = t
       /\ parquet' = [parquet EXCEPT ![k] = t]
       /\ ready' = Append(ready, t)
       /\ carrier' = [carrier EXCEPT ![k] = t]
    /\ UNCHANGED <<lance, sidecar, sidecarTries, procVars, queue, timers,
                   pending, status, attempts, workerVars, keyOf, failures,
                   lost, dropped, vanished>>

-----------------------------------------------------------------------------
(* The sidecar.                                                            *)

LinesLost == FoldFunction(+, 0, lost)

\* _append_sidecar: the line of t reaches the file, or it does not (a write
\* that raised, or a line glued to one torn before, which recovery skips).
Persist(t, s, tries) ==
    \/ /\ sidecar' = [sidecar EXCEPT ![t] = s]
       /\ sidecarTries' = [sidecarTries EXCEPT ![t] = tries]
       /\ UNCHANGED lost
    \/ /\ LinesLost < MaxLost
       /\ lost' = [lost EXCEPT ![t] = @ + 1]
       /\ UNCHANGED <<sidecar, sidecarTries>>

-----------------------------------------------------------------------------
(* SyncQueue.enqueue: the event loop runs the oldest scheduled coroutine.  *)

\* Mutant of Deduplicates: a task that is running counts as well.
DeduplicatesRunning(k) ==
    pending[k] # None /\ status[pending[k]] \in {"pending", "running"}

Deduplicates(k) == pending[k] # None /\ status[pending[k]] = "pending"

\* The task that pending holds answers for the write from now on, if it is
\* still going to run, now or after a restart; if not, the write has vanished.
EnqueueDedup ==
    /\ proc = "up"
    /\ ready # <<>>
    /\ LET t == Head(ready)
           k == keyOf[t]
           old == pending[k] IN
       /\ Deduplicates(k)
       /\ attempts' = [attempts EXCEPT ![old] = @ + 1]
       /\ IF old \in Scheduled \/ sidecar[old] = "pending"
          THEN /\ carrier' = [carrier EXCEPT ![k] = IF @ = t THEN old ELSE @]
               /\ UNCHANGED vanished
          ELSE /\ vanished' = vanished \cup {t}
               /\ UNCHANGED carrier
    /\ ready' = Tail(ready)
    /\ UNCHANGED <<durable, procVars, queue, timers, pending, status,
                   workerVars, keyOf, writes, failures, lost, dropped>>

\* Mutant of EnqueuePut: the line is written by the worker, not here.
EnqueuePutUnwritten ==
    /\ proc = "up"
    /\ ready # <<>>
    /\ Len(queue) < QMax
    /\ LET t == Head(ready)
           k == keyOf[t] IN
       /\ ~Deduplicates(k)
       /\ queue' = Append(queue, t)
       /\ pending' = [pending EXCEPT ![k] = t]
    /\ ready' = Tail(ready)
    /\ UNCHANGED <<durable, procVars, timers, status, attempts, workerVars,
                   history>>

EnqueuePut ==
    /\ proc = "up"
    /\ ready # <<>>
    /\ Len(queue) < QMax
    /\ LET t == Head(ready)
           k == keyOf[t] IN
       /\ ~Deduplicates(k)
       /\ queue' = Append(queue, t)
       /\ pending' = [pending EXCEPT ![k] = t]
       /\ Persist(t, "pending", attempts[t])
    /\ ready' = Tail(ready)
    /\ UNCHANGED <<parquet, lance, procVars, timers, status, attempts,
                   workerVars, keyOf, writes, failures, carrier, dropped,
                   vanished>>

\* put_nowait raises QueueFull: the caller gets False, which nobody reads.
EnqueueFull ==
    /\ proc = "up"
    /\ ready # <<>>
    /\ Len(queue) >= QMax
    /\ LET t == Head(ready) IN
       /\ ~Deduplicates(keyOf[t])
       /\ dropped' = dropped \cup {t}
    /\ ready' = Tail(ready)
    /\ UNCHANGED <<durable, procVars, queue, timers, pending, status,
                   attempts, workerVars, keyOf, writes, failures, carrier, lost,
                   vanished>>

-----------------------------------------------------------------------------
(* SyncQueue.get.  wait_for runs Queue.get in an inner task: the item has  *)
(* left the queue one or more event loop turns before status is RUNNING.   *)

WorkerTake ==
    /\ proc = "up"
    /\ wpc = "idle"
    /\ queue # <<>>
    /\ wpc' = "taken"
    /\ wtask' = Head(queue)
    /\ queue' = Tail(queue)
    /\ UNCHANGED <<durable, procVars, ready, timers, pending, status,
                   attempts, snapshot, history>>

\* get() times out and the loop goes round.
WorkerPoll ==
    /\ proc = "up"
    /\ wpc = "idle"
    /\ queue = <<>>
    /\ UNCHANGED vars

\* get() returns and sync_to_lance reads the parquet file before its first
\* await.
WorkerRead ==
    /\ proc = "up"
    /\ wpc = "taken"
    /\ wpc' = "read"
    /\ status' = [status EXCEPT ![wtask] = "running"]
    /\ snapshot' = parquet[keyOf[wtask]]
    /\ carrier' = [carrier EXCEPT ![keyOf[wtask]] = wtask]
    /\ UNCHANGED <<durable, procVars, ready, queue, timers, pending, attempts,
                   wtask, keyOf, writes, failures, lost, dropped, vanished>>

\* The executor thread: delete the key's rows, then add those it was given.
\* create_table is the case where there were no rows to delete.
SyncDelete ==
    /\ proc = "up"
    /\ wpc = "read"
    /\ wpc' = "deleted"
    /\ lance' = [lance EXCEPT ![keyOf[wtask]] = None]
    /\ UNCHANGED <<parquet, sidecar, sidecarTries, procVars, ready, queue,
                   timers, pending, status, attempts, wtask, snapshot,
                   history>>

SyncAdd ==
    /\ proc = "up"
    /\ wpc = "deleted"
    /\ wpc' = "added"
    /\ lance' = [lance EXCEPT ![keyOf[wtask]] = snapshot]
    /\ UNCHANGED <<parquet, sidecar, sidecarTries, procVars, ready, queue,
                   timers, pending, status, attempts, wtask, snapshot,
                   history>>

-----------------------------------------------------------------------------
(* mark_done and mark_failed: both act on the dedup entry of the key,      *)
(* whichever task it holds.                                                *)

Release ==
    /\ wpc' = "idle"
    /\ wtask' = None
    /\ snapshot' = None

MarkDone ==
    /\ proc = "up"
    /\ wpc = "added"
    /\ status' = [status EXCEPT ![wtask] = "done"]
    /\ pending' = [pending EXCEPT ![keyOf[wtask]] = None]
    /\ Persist(wtask, "done", attempts[wtask])
    /\ Release
    /\ UNCHANGED <<parquet, lance, procVars, ready, queue, timers, attempts,
                   keyOf, writes, failures, carrier, dropped, vanished>>

\* Mutant of Fails: the sidecar line has the attempts before this one.
FailsUncounted(s) ==
    /\ proc = "up"
    /\ wpc \in {"read", "deleted"}
    /\ failures' = [failures EXCEPT ![wtask] = @ + 1]
    /\ attempts' = [attempts EXCEPT ![wtask] = @ + 1]
    /\ status' = [status EXCEPT ![wtask] = s]
    /\ Persist(wtask, s, attempts[wtask])
    /\ Release
    /\ UNCHANGED <<parquet, lance, procVars, ready, queue, keyOf, writes,
                   carrier, vanished>>

\* Mutant of Fails: attempts counts down.
FailsCountingDown(s) ==
    /\ proc = "up"
    /\ wpc \in {"read", "deleted"}
    /\ failures' = [failures EXCEPT ![wtask] = @ + 1]
    /\ attempts' = [attempts EXCEPT ![wtask] = @ - 1]
    /\ status' = [status EXCEPT ![wtask] = s]
    /\ Persist(wtask, s, attempts[wtask] - 1)
    /\ Release
    /\ UNCHANGED <<parquet, lance, procVars, ready, queue, keyOf, writes,
                   carrier, vanished>>

\* sync_to_lance raises, before or after it has deleted the rows; the sidecar
\* line has the new status s.
Fails(s) ==
    /\ proc = "up"
    /\ wpc \in {"read", "deleted"}
    /\ failures' = [failures EXCEPT ![wtask] = @ + 1]
    /\ attempts' = [attempts EXCEPT ![wtask] = @ + 1]
    /\ status' = [status EXCEPT ![wtask] = s]
    /\ Persist(wtask, s, attempts[wtask] + 1)
    /\ Release
    /\ UNCHANGED <<parquet, lance, procVars, ready, queue, keyOf, writes,
                   carrier, vanished>>

MarkFailedRetry ==
    /\ Fails("pending")
    /\ attempts[wtask] + 1 < MaxAttempts
    /\ timers' = timers \cup {wtask}
    /\ UNCHANGED <<pending, dropped>>

MarkFailedGiveUp ==
    /\ Fails("failed")
    /\ attempts[wtask] + 1 >= MaxAttempts
    /\ pending' = [pending EXCEPT ![keyOf[wtask]] = None]
    /\ dropped' = dropped \cup {wtask}
    /\ UNCHANGED timers

\* The backoff timer of t fires; when the queue is full the task is dropped
\* with a warning, for good unless the sidecar has it as pending, and
\* whatever pending holds stays there.
Reenqueue(t) ==
    /\ proc = "up"
    /\ t \in timers
    /\ timers' = timers \ {t}
    /\ \/ /\ Len(queue) < QMax
          /\ queue' = Append(queue, t)
          /\ pending' = [pending EXCEPT ![keyOf[t]] = t]
          /\ UNCHANGED dropped
       \/ /\ Len(queue) >= QMax
          /\ dropped' = IF sidecar[t] = "pending" THEN dropped
                                                 ELSE dropped \cup {t}
          /\ UNCHANGED <<queue, pending>>
    /\ UNCHANGED <<durable, procVars, ready, status, attempts, workerVars,
                   keyOf, writes, failures, carrier, lost, vanished>>

-----------------------------------------------------------------------------
(* Process death and restart.                                              *)

\* Everything in memory is lost.  A coroutine that had not run yet, and a task
\* none of whose lines reached the sidecar, leave no trace: they vanish.
Crash ==
    /\ proc # "down"
    /\ crashes < MaxCrashes
    /\ crashes' = crashes + 1
    /\ proc' = "down"
    /\ cursor' = 0
    /\ vanished' = vanished \cup Members(ready)
                   \cup {t \in Scheduled : sidecar[t] # "pending"}
    /\ ready' = <<>>
    /\ queue' = <<>>
    /\ timers' = {}
    /\ pending' = [k \in Keys |-> None]
    /\ wpc' = "idle"
    /\ wtask' = None
    /\ snapshot' = None
    /\ UNCHANGED <<durable, status, attempts, keyOf, writes, failures,
                   carrier, lost, dropped>>

Boot ==
    /\ proc = "down"
    /\ proc' = "recovering"
    /\ UNCHANGED <<durable, cursor, crashes, ready, queue, timers, pending,
                   status, attempts, workerVars, history>>

\* recover_pending handles the next sidecar entry: a new SyncTask object with
\* the persisted attempts, unless the queue is full.  A task that had been
\* given up, but whose last line was lost, is taken up again.
RecoverEntry ==
    /\ proc = "recovering"
    /\ cursor < MaxWrites
    /\ cursor' = cursor + 1
    /\ LET t == cursor + 1 IN
       IF sidecar[t] \in {"pending", "running"} /\ Len(queue) < QMax
       THEN /\ queue' = Append(queue, t)
            /\ pending' = [pending EXCEPT ![keyOf[t]] = t]
            /\ status' = [status EXCEPT ![t] = "pending"]
            /\ attempts' = [attempts EXCEPT ![t] = sidecarTries[t]]
            /\ dropped' = dropped \ {t}
       ELSE UNCHANGED <<queue, pending, status, attempts, dropped>>
    /\ UNCHANGED <<durable, proc, crashes, ready, timers, workerVars, keyOf,
                   writes, failures, carrier, lost, vanished>>

\* The sidecar cannot be read: the worker starts without recovering, and
\* without compacting.
RecoverFails ==
    /\ proc = "recovering"
    /\ cursor = 0
    /\ \E t \in Tasks : sidecar[t] # "none"
    /\ proc' = "up"
    /\ cursor' = MaxWrites
    /\ UNCHANGED <<durable, crashes, ready, queue, timers, pending, status,
                   attempts, workerVars, history>>

\* Mutant of StartWorker: compaction keeps the failed tasks only.
StartWorkerForgetful ==
    /\ proc = "recovering"
    /\ cursor = MaxWrites
    /\ proc' = "up"
    /\ sidecar' = [t \in Tasks |->
                      IF sidecar[t] = "failed" THEN "failed" ELSE "none"]
    /\ UNCHANGED <<parquet, lance, sidecarTries, cursor, crashes, ready, queue,
                   timers, pending, status, attempts, workerVars, history>>

\* _compact_sidecar forgets the done tasks, unless writing the new file fails,
\* and the worker loop starts.
StartWorker ==
    /\ proc = "recovering"
    /\ cursor = MaxWrites
    /\ proc' = "up"
    /\ \/ UNCHANGED sidecar
       \/ sidecar' = [t \in Tasks |->
                         IF sidecar[t] = "done" THEN "none" ELSE sidecar[t]]
    /\ UNCHANGED <<parquet, lance, sidecarTries, cursor, crashes, ready, queue,
                   timers, pending, status, attempts, workerVars, history>>

-----------------------------------------------------------------------------
RunEnqueue == EnqueueDedup \/ EnqueuePut \/ EnqueueFull

WorkerStep ==
    \/ WorkerTake
    \/ WorkerRead
    \/ SyncDelete
    \/ SyncAdd
    \/ MarkDone
    \/ MarkFailedRetry
    \/ MarkFailedGiveUp

Restart == Boot \/ RecoverEntry \/ RecoverFails \/ StartWorker

Next ==
    \/ \E k \in Keys : WriteParquet(k)
    \/ RunEnqueue
    \/ WorkerStep
    \/ WorkerPoll
    \/ \E t \in Tasks : Reenqueue(t)
    \/ Crash
    \/ Restart

\* The event loop runs what is scheduled, the executor thread ends, timers
\* fire, and the container is restarted (restart policy of the deployment).
Fairness ==
    /\ WF_vars(RunEnqueue)
    /\ WF_vars(WorkerStep)
    /\ \A t \in Tasks : WF_vars(Reenqueue(t))
    /\ WF_vars(Restart)

Spec == Init /\ [][Next]_vars

FairSpec == Spec /\ Fairness

-----------------------------------------------------------------------------
TaskOrNone == Tasks \cup {None}

\* Every variable has its type (the fields of SyncQueue and SyncTask).
TypeOK ==
    /\ parquet \in [Keys -> TaskOrNone]
    /\ lance \in [Keys -> TaskOrNone]
    /\ sidecar \in [Tasks -> Status \cup {"none"}]
    /\ sidecarTries \in [Tasks -> Nat]
    /\ proc \in {"down", "recovering", "up"}
    /\ cursor \in 0..MaxWrites
    /\ ready \in Seq(Tasks)
    /\ queue \in Seq(Tasks)
    /\ timers \subseteq Tasks
    /\ pending \in [Keys -> TaskOrNone]
    /\ status \in [Tasks -> Status]
    /\ attempts \in [Tasks -> Nat]
    /\ wpc \in {"idle", "taken", "read", "deleted", "added"}
    /\ wtask \in TaskOrNone
    /\ snapshot \in TaskOrNone
    /\ keyOf \in [Tasks -> Keys]
    /\ writes \in 0..MaxWrites
    /\ crashes \in 0..MaxCrashes
    /\ failures \in [Tasks -> Nat]
    /\ carrier \in [Keys -> TaskOrNone]
    /\ lost \in [Tasks -> Nat]
    /\ dropped \subseteq Tasks
    /\ vanished \subseteq Tasks

\* A task still promises a synchronisation: its coroutine has yet to run, the
\* process is going to run it, or the sidecar has it for the next process.
Owes(t) ==
    \/ t \in Members(ready) \cup Scheduled
    \/ t # None /\ sidecar[t] = "pending"

\* A task still promises a synchronisation, was given up with a log line
\* (queue full, attempts exhausted), or has vanished without one.
Accounted(t) == Owes(t) \/ t \in dropped \cup vanished

\* No write is forgotten: while LanceDB does not show the parquet version of
\* a key, the task answerable for that version is accounted for: this is what
\* enqueue's dedup, mark_done and the recovery must keep.  What may vanish is
\* bounded by Recoverable; that anything may is a finding (CrashLosesNothing).
Answered == \A k \in Keys : lance[k] = parquet[k] \/ Accounted(carrier[k])

\* Whatever the process would still run is in the sidecar as pending, so that
\* a crash at any point loses none of it, unless every line about the task
\* was lost: the one of enqueue and one of each failure (_append_sidecar).
Recoverable ==
    \A t \in Scheduled :
        \/ sidecar[t] = "pending"
        \/ sidecar[t] = "none" /\ lost[t] = failures[t] + 1

\* A task fails at most max_attempts times, whatever crashes and restarts
\* happen between its attempts, and once more for each of its sidecar lines
\* that was lost (mark_failed, _append_sidecar and recover_pending).
RetryBudget == \A t \in Tasks : failures[t] <= MaxAttempts + lost[t]

\* A crash loses no task (sync_queue.py:12, "No data loss on process crash
\* (tasks recovered from sidecar)"): no key stays stale because the task
\* answerable for it vanished.
CrashLosesNothing ==
    \A k \in Keys : carrier[k] \in vanished => lance[k] = parquet[k]

\* A failed attempt is followed by another one: a task that failed and has
\* attempts left is queued, in backoff or held by the worker.
\* (sync_queue.py:11, "Failed syncs are automatically retried".)
FailedIsRetried ==
    proc = "up" =>
        \A t \in Tasks :
            failures[t] > 0 /\ status[t] = "pending" => t \in Scheduled

\* A task is given up only after max_attempts failed attempts
\* (sync_queue.py:142, "If attempts < max, re-enqueue with backoff").
GivesUpAfterMaxFailures ==
    \A t \in Tasks : sidecar[t] = "failed" => failures[t] = MaxAttempts

\* A sidecar-pending task no queue, timer or worker holds: it waits for the
\* next restart, and enqueue dedups against it if pending holds it.
Orphan(t) == t # None /\ sidecar[t] = "pending" /\ t \notin Scheduled

\* Liveness: a stale key is eventually in LanceDB, unless the task answerable
\* for it was dropped, vanished, or is orphaned (Reenqueue or recovery found a
\* full queue, or recovery could not read the sidecar).
EventuallySynced ==
    \A k \in Keys :
        lance[k] # parquet[k]
            ~> \/ lance[k] = parquet[k]
               \/ carrier[k] \in dropped \cup vanished
               \/ Orphan(carrier[k])

-----------------------------------------------------------------------------
(* The inductive strengthening of the invariants above.                    *)

Distinct(s) == \A i, j \in DOMAIN s : s[i] = s[j] => i = j

\* What a process that is not up yet cannot have in memory.
BootOK ==
    /\ proc # "up" => ready = <<>> /\ timers = {} /\ wpc = "idle"
    /\ proc = "down" => cursor = 0 /\ queue = <<>>
    /\ proc = "recovering" => \A t \in Members(queue) : t <= cursor

\* A task that does not exist yet, or whose coroutine has not run, has left
\* no trace; the sidecar never holds "running".
FreshOK ==
    /\ Distinct(ready)
    /\ \A t \in Members(ready) :
          /\ t <= writes
          /\ sidecar[t] = "none" /\ failures[t] = 0 /\ lost[t] = 0
    /\ \A t \in Tasks :
          t > writes => sidecar[t] = "none" /\ failures[t] = 0 /\ lost[t] = 0
    /\ \A t \in Tasks : sidecar[t] # "running"

\* A task is in one place at most: the queue, a timer, or the worker.
HomeOK ==
    /\ Distinct(queue)
    /\ Members(queue) \cap timers = {}
    /\ Held \cap (Members(queue) \cup timers) = {}
    /\ wpc # "idle" => wtask \in Tasks
    /\ Working => status[wtask] = "running"

\* What enqueue may dedup against is a task of the key.
PendingOK == \A k \in Keys : pending[k] # None => keyOf[pending[k]] = k

\* Memory and sidecar both count every failure whose line was not lost.
BudgetOK ==
    /\ \A t \in Tasks :
          sidecar[t] = "pending" =>
              /\ failures[t] < MaxAttempts + lost[t]
              /\ failures[t] <= sidecarTries[t] + lost[t]
    /\ \A t \in Scheduled : failures[t] <= attempts[t] + lost[t]

\* While the worker copies a version, either it answers for that version or
\* a later task answers for the later version.
WorkerOK ==
    Working =>
        LET k == keyOf[wtask] IN
        /\ carrier[k] = wtask => snapshot = parquet[k]
        /\ carrier[k] # wtask => Accounted(carrier[k])
        /\ wpc = "added" => lance[k] = snapshot

CarrierOK == \A k \in Keys : carrier[k] # None => keyOf[carrier[k]] = k

\* What was given up or has vanished is not run by this process.  The sidecar
\* may have the former as pending, when the line of the last failure was lost,
\* but not the latter.
LostOK ==
    /\ \A t \in dropped \cup vanished :
          t <= writes /\ t \notin Members(ready) \cup Scheduled
    /\ \A t \in dropped : sidecar[t] = "pending" => status[t] = "failed"
    /\ \A t \in vanished : sidecar[t] # "pending"

\* The conjunction that every step of Next preserves (sync_queue.py: enqueue,
\* get, mark_done, mark_failed, _reenqueue, recover_pending together).
Inv ==
    /\ TypeOK
    /\ BootOK
    /\ FreshOK
    /\ HomeOK
    /\ PendingOK
    /\ Recoverable
    /\ BudgetOK
    /\ RetryBudget
    /\ CarrierOK
    /\ LostOK
    /\ WorkerOK
    /\ Answered

-----------------------------------------------------------------------------
\* The abstract contract, with the sets of keys read off the tasks that are
\* answerable for them.
OwedKeys == {k \in Keys : Owes(carrier[k]) /\ carrier[k] \notin dropped}

Contract == INSTANCE SyncContract WITH
    source <- parquet,
    view <- lance,
    owed <- OwedKeys,
    recorded <- {k \in OwedKeys : sidecar[carrier[k]] = "pending"},
    disclaimed <- {k \in Keys : carrier[k] \in dropped},
    forgotten <- {k \in Keys : carrier[k] \in vanished}

\* The queue keeps the contract: a promise ends only when LanceDB shows the
\* parquet version, when the queue has said that it drops the task, or, for a
\* task that no line of the sidecar has as pending, in silence.
ImplementsContract == Contract!CSpec

=============================================================================
