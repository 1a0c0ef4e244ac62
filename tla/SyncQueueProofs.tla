-------------------------- MODULE SyncQueueProofs ---------------------------
(***************************************************************************)
(* Proofs about SyncQueue, for every set of keys and every bound, and that *)
(* it implements SyncContract.                                             *)
(***************************************************************************)
EXTENDS SyncQueue, TLAPS

-----------------------------------------------------------------------------
(* The members of the two FIFO queues.                                     *)

\* Appending a task (put_nowait, ensure_future) adds it to the members.
LEMMA MembersAppend ==
    ASSUME NEW s \in Seq(Tasks), NEW t \in Tasks
    PROVE  Members(Append(s, t)) = Members(s) \cup {t}
<1> DEFINE a == Append(s, t)
<1>1. /\ Len(s) \in Nat
      /\ DOMAIN a = 1..(Len(s) + 1)
      /\ DOMAIN s = 1..Len(s)
      /\ \A i \in 1..Len(s) : a[i] = s[i]
      /\ a[Len(s) + 1] = t
  OBVIOUS
<1>2. \A x : x \in Members(a) <=> \E i \in DOMAIN a : x = a[i]
  BY DEF Members
<1>3. \A x : x \in Members(s) <=> \E i \in DOMAIN s : x = s[i]
  BY DEF Members
<1>4. ASSUME NEW x \in Members(a)
      PROVE  x \in Members(s) \cup {t}
  <2>1. PICK i \in DOMAIN a : x = a[i]
    BY <1>2
  <2>2. CASE i = Len(s) + 1
    BY <1>1, <2>1, <2>2
  <2>3. CASE i # Len(s) + 1
    <3>1. i \in 1..Len(s)
      BY <1>1, <2>3
    <3>2. x = s[i]
      BY <1>1, <2>1, <3>1
    <3> QED
      BY <1>1, <1>3, <3>1, <3>2
  <2> QED
    BY <2>2, <2>3
<1>5. ASSUME NEW x \in Members(s) \cup {t}
      PROVE  x \in Members(a)
  <2>1. CASE x = t
    <3>1. Len(s) + 1 \in DOMAIN a
      BY <1>1
    <3> QED
      BY <1>1, <1>2, <2>1, <3>1
  <2>2. CASE x \in Members(s)
    <3>1. PICK i \in DOMAIN s : x = s[i]
      BY <1>3, <2>2
    <3>2. i \in DOMAIN a /\ x = a[i]
      BY <1>1, <3>1
    <3> QED
      BY <1>2, <3>2
  <2> QED
    BY <2>1, <2>2
<1> QED
  BY <1>4, <1>5

\* Taking the head leaves the other members, and the head is one of them.
LEMMA MembersTail ==
    ASSUME NEW s \in Seq(Tasks), s # <<>>
    PROVE  /\ Head(s) \in Tasks
           /\ Tail(s) \in Seq(Tasks)
           /\ Members(s) = {Head(s)} \cup Members(Tail(s))
<1> DEFINE r == Tail(s)
<1>1. /\ Len(s) \in Nat \ {0}
      /\ DOMAIN s = 1..Len(s)
      /\ r \in Seq(Tasks)
      /\ Len(r) = Len(s) - 1
      /\ DOMAIN r = 1..(Len(s) - 1)
      /\ \A i \in 1..(Len(s) - 1) : r[i] = s[i + 1]
      /\ Head(s) = s[1]
      /\ s[1] \in Tasks
  OBVIOUS
<1>2. \A x : x \in Members(r) <=> \E i \in DOMAIN r : x = r[i]
  BY DEF Members
<1>3. \A x : x \in Members(s) <=> \E i \in DOMAIN s : x = s[i]
  BY DEF Members
<1>4. ASSUME NEW x \in Members(s), x # Head(s)
      PROVE  x \in Members(r)
  <2>1. PICK i \in DOMAIN s : x = s[i]
    BY <1>3
  <2>2. i - 1 \in 1..(Len(s) - 1) /\ (i - 1) + 1 = i
    BY <1>1, <1>4, <2>1
  <2>3. r[i - 1] = s[i]
    BY <1>1, <2>2
  <2> QED
    BY <1>1, <1>2, <2>1, <2>2, <2>3
<1>5. ASSUME NEW x \in Members(r)
      PROVE  x \in Members(s)
  <2>1. PICK i \in DOMAIN r : x = r[i]
    BY <1>2
  <2>2. i + 1 \in DOMAIN s /\ x = s[i + 1]
    BY <1>1, <2>1
  <2> QED
    BY <1>3, <2>2
<1>6. Head(s) \in Members(s)
  BY <1>1, <1>3
<1> QED
  BY <1>1, <1>4, <1>5, <1>6

\* The members of the empty queue, and of a queue of tasks.
LEMMA MembersBasic ==
    /\ Members(<<>>) = {}
    /\ \A s \in Seq(Tasks) : Members(s) \subseteq Tasks
    /\ \A s \in Seq(Tasks) : \A t \in Tasks : Append(s, t) \in Seq(Tasks)
<1>1. Members(<<>>) = {}
  BY DEF Members
<1>2. ASSUME NEW s \in Seq(Tasks)
      PROVE  Members(s) \subseteq Tasks
  BY DEF Members
<1>3. ASSUME NEW s \in Seq(Tasks), NEW t \in Tasks
      PROVE  Append(s, t) \in Seq(Tasks)
  OBVIOUS
<1> QED
  BY <1>1, <1>2, <1>3

\* A queue without repetitions stays so when a new task is appended, and
\* when its head is taken, which is then no member any more.
LEMMA DistinctAppend ==
    ASSUME NEW s \in Seq(Tasks), NEW t \in Tasks,
           Distinct(s), t \notin Members(s)
    PROVE  Distinct(Append(s, t))
<1> DEFINE a == Append(s, t)
<1>1. /\ Len(s) \in Nat
      /\ DOMAIN a = 1..(Len(s) + 1)
      /\ DOMAIN s = 1..Len(s)
      /\ \A i \in 1..Len(s) : a[i] = s[i]
      /\ a[Len(s) + 1] = t
  OBVIOUS
<1>2. \A i \in DOMAIN s : s[i] # t
  BY DEF Members
<1> SUFFICES ASSUME NEW i \in DOMAIN a, NEW j \in DOMAIN a, a[i] = a[j]
             PROVE  i = j
  BY DEF Distinct
<1>3. CASE i \in 1..Len(s) /\ j \in 1..Len(s)
  BY <1>1, <1>3 DEF Distinct
<1>4. CASE i \in 1..Len(s) /\ j = Len(s) + 1
  BY <1>1, <1>2, <1>4
<1>5. CASE i = Len(s) + 1 /\ j \in 1..Len(s)
  BY <1>1, <1>2, <1>5
<1>6. CASE i = Len(s) + 1 /\ j = Len(s) + 1
  BY <1>6
<1> QED
  BY <1>1, <1>3, <1>4, <1>5, <1>6

\* Without repetitions, the tail has none either, and the head, once taken by
\* get, is no longer queued.
LEMMA DistinctTail ==
    ASSUME NEW s \in Seq(Tasks), s # <<>>, Distinct(s)
    PROVE  /\ Distinct(Tail(s))
           /\ Head(s) \notin Members(Tail(s))
<1> DEFINE r == Tail(s)
<1>1. /\ Len(s) \in Nat \ {0}
      /\ DOMAIN s = 1..Len(s)
      /\ DOMAIN r = 1..(Len(s) - 1)
      /\ \A i \in 1..(Len(s) - 1) : r[i] = s[i + 1] /\ i + 1 \in DOMAIN s
      /\ Head(s) = s[1]
      /\ 1 \in DOMAIN s
  OBVIOUS
<1>2. ASSUME NEW i \in DOMAIN r, NEW j \in DOMAIN r, r[i] = r[j]
      PROVE  i = j
  <2>1. i + 1 = j + 1
    BY <1>1, <1>2 DEF Distinct
  <2> QED
    BY <1>1, <2>1
<1>3. ASSUME NEW i \in DOMAIN r
      PROVE  r[i] # Head(s)
  <2>1. i + 1 # 1
    BY <1>1
  <2> QED
    BY <1>1, <2>1 DEF Distinct
<1> QED
  BY <1>2, <1>3 DEF Distinct, Members

-----------------------------------------------------------------------------
(* What Inv says of one task.                                              *)

\* A scheduled task exists, is not waiting to be enqueued, and was neither
\* given up nor lost.
LEMMA ScheduledTask ==
    ASSUME Inv, NEW t \in Scheduled
    PROVE  /\ t \in Tasks /\ t # None /\ keyOf[t] \in Keys
           /\ t <= writes /\ t \notin Members(ready)
           /\ sidecar[t] \in {"pending", "none"}
           /\ sidecar[t] = "none" => lost[t] = failures[t] + 1
           /\ t \notin dropped \cup vanished
           /\ Owes(t)
<1>1. t \in Tasks
  BY MembersBasic DEF Inv, TypeOK, HomeOK, Scheduled, Held
<1>2. /\ sidecar[t] \in {"pending", "none"}
      /\ sidecar[t] = "none" => lost[t] = failures[t] + 1
  BY DEF Inv, Recoverable
<1>3. t \notin dropped \cup vanished
  BY DEF Inv, LostOK
<1>4. /\ failures[t] \in Nat /\ keyOf[t] \in Keys
      /\ t \in Nat /\ writes \in Nat /\ t # None
  BY <1>1, BoundsAssumption DEF Inv, TypeOK, Tasks, None
<1>5. t \notin Members(ready) /\ ~(t > writes)
  BY <1>1, <1>2, <1>4 DEF Inv, FreshOK
<1>6. Owes(t)
  BY DEF Owes
<1> QED
  BY <1>1, <1>2, <1>3, <1>4, <1>5, <1>6

\* The head of `ready`, whose coroutine runs now, is known to nothing else.
LEMMA HeadReady ==
    ASSUME Inv, ready # <<>>
    PROVE  /\ Head(ready) \in Tasks /\ Head(ready) # None
           /\ keyOf[Head(ready)] \in Keys
           /\ Tail(ready) \in Seq(Tasks) /\ Distinct(Tail(ready))
           /\ Head(ready) \in Members(ready)
           /\ Members(ready) = {Head(ready)} \cup Members(Tail(ready))
           /\ Head(ready) \notin Members(Tail(ready))
           /\ Head(ready) <= writes
           /\ sidecar[Head(ready)] = "none"
           /\ failures[Head(ready)] = 0 /\ lost[Head(ready)] = 0
           /\ Head(ready) \notin Scheduled
           /\ Head(ready) \notin dropped \cup vanished
<1>1. /\ ready \in Seq(Tasks) /\ Distinct(ready)
      /\ \A t \in Members(ready) :
            /\ t <= writes
            /\ sidecar[t] = "none" /\ failures[t] = 0 /\ lost[t] = 0
      /\ \A t \in dropped \cup vanished : t \notin Members(ready)
  BY DEF Inv, TypeOK, FreshOK, LostOK
<1>2. /\ Head(ready) \in Tasks
      /\ Tail(ready) \in Seq(Tasks)
      /\ Members(ready) = {Head(ready)} \cup Members(Tail(ready))
  BY <1>1, MembersTail
<1>3. /\ Distinct(Tail(ready))
      /\ Head(ready) \notin Members(Tail(ready))
  BY <1>1, DistinctTail
<1>4. Head(ready) # None /\ keyOf[Head(ready)] \in Keys
  BY <1>2 DEF Tasks, None, Inv, TypeOK
<1>5. Head(ready) \in Members(ready)
  BY <1>2
<1>6. Head(ready) \notin Scheduled
  BY <1>5, ScheduledTask
<1> QED
  BY <1>1, <1>2, <1>3, <1>4, <1>5, <1>6

\* The worker's task is scheduled, and in no queue and no timer.
LEMMA WorkerTask ==
    ASSUME Inv, wpc # "idle"
    PROVE  /\ wtask \in Scheduled /\ wtask \in Tasks
           /\ wtask \notin Members(queue) /\ wtask \notin timers
           /\ Held = {wtask}
<1>1. Held = {wtask}
  BY DEF Held
<1>2. wtask \in Scheduled
  BY <1>1 DEF Scheduled
<1>3. wtask \notin Members(queue) /\ wtask \notin timers
  BY <1>1 DEF Inv, HomeOK
<1> QED
  BY <1>1, <1>2, <1>3, ScheduledTask

\* Names of tasks and counters are numbers.
LEMMA Numbers ==
    ASSUME Inv
    PROVE  /\ writes \in Nat /\ MaxWrites \in Nat /\ MaxAttempts \in Nat \ {0}
           /\ \A t \in Tasks : t \in Nat /\ t # None
           /\ \A t \in Tasks : /\ failures[t] \in Nat /\ attempts[t] \in Nat
                              /\ lost[t] \in Nat /\ sidecarTries[t] \in Nat
           /\ parquet \in [Keys -> Nat] /\ snapshot \in Nat
           /\ Scheduled \subseteq Tasks
           /\ Members(ready) \subseteq Tasks
           /\ TaskOrNone = Tasks \cup {None}
<1>1. TypeOK
  BY DEF Inv
<1>2. /\ writes \in Nat /\ MaxWrites \in Nat /\ MaxAttempts \in Nat \ {0}
      /\ \A t \in Tasks : /\ failures[t] \in Nat /\ attempts[t] \in Nat
                         /\ lost[t] \in Nat /\ sidecarTries[t] \in Nat
  BY <1>1, BoundsAssumption DEF TypeOK
<1>3. \A t \in Tasks : t \in Nat /\ t # None
  BY <1>2 DEF Tasks, None
<1>4. TaskOrNone \subseteq Nat /\ TaskOrNone = Tasks \cup {None}
  BY <1>3 DEF TaskOrNone, None
<1>5. parquet \in [Keys -> Nat] /\ snapshot \in Nat
  BY <1>1, <1>4 DEF TypeOK
<1>6. Scheduled \subseteq Tasks /\ Members(ready) \subseteq Tasks
  BY <1>1, ScheduledTask, MembersBasic DEF TypeOK
<1> QED
  BY <1>2, <1>3, <1>4, <1>5, <1>6

\* _append_sidecar changes one task's line, or counts it as lost.
LEMMA PersistFacts ==
    ASSUME Inv, NEW t \in Tasks, NEW s \in Status, NEW n \in Nat, Persist(t, s, n)
    PROVE  /\ sidecar' \in [Tasks -> Status \cup {"none"}]
           /\ sidecarTries' \in [Tasks -> Nat]
           /\ lost' \in [Tasks -> Nat]
           /\ \A u \in Tasks \ {t} : /\ sidecar'[u] = sidecar[u]
                                    /\ sidecarTries'[u] = sidecarTries[u]
                                    /\ lost'[u] = lost[u]
           /\ \/ /\ sidecar'[t] = s
                 /\ sidecarTries'[t] = n
                 /\ lost'[t] = lost[t]
              \/ /\ sidecar'[t] = sidecar[t]
                 /\ sidecarTries'[t] = sidecarTries[t]
                 /\ lost'[t] = lost[t] + 1
<1>1. /\ sidecar \in [Tasks -> Status \cup {"none"}]
      /\ sidecarTries \in [Tasks -> Nat]
      /\ lost \in [Tasks -> Nat]
  BY DEF Inv, TypeOK
<1>2. CASE /\ sidecar' = [sidecar EXCEPT ![t] = s]
           /\ sidecarTries' = [sidecarTries EXCEPT ![t] = n]
           /\ UNCHANGED lost
  BY <1>1, <1>2
<1>3. CASE /\ lost' = [lost EXCEPT ![t] = @ + 1]
           /\ UNCHANGED <<sidecar, sidecarTries>>
  BY <1>1, <1>3
<1> QED
  BY <1>2, <1>3 DEF Persist

-----------------------------------------------------------------------------
(* Each action of Next preserves Inv.                                      *)

\* upsert_chunks with _enqueue_sync: the new task answers for its key, and its
\* coroutine is scheduled, so that it is owed.
LEMMA WriteParquetStep ==
    ASSUME Inv, NEW k \in Keys, WriteParquet(k)
    PROVE  Inv'
<1>1. PICK t \in Tasks :
        /\ t = writes + 1
        /\ t \notin Members(ready)
        /\ t \notin Scheduled
        /\ t \notin dropped \cup vanished
        /\ ready' \in Seq(Tasks)
        /\ Members(ready') = Members(ready) \cup {t}
        /\ Distinct(ready')
        /\ keyOf[t] = k
        /\ writes' = t
        /\ parquet' = [parquet EXCEPT ![k] = t]
        /\ carrier' = [carrier EXCEPT ![k] = t]
  <2> DEFINE t == writes + 1
  <2>1. t \in Tasks
    BY BoundsAssumption DEF Inv, TypeOK, WriteParquet, Tasks
  <2>2. t \notin Members(ready)
    BY DEF Inv, TypeOK, FreshOK
  <2>3. /\ ready' = Append(ready, t)
        /\ keyOf[t] = k
        /\ writes' = t
        /\ parquet' = [parquet EXCEPT ![k] = t]
        /\ carrier' = [carrier EXCEPT ![k] = t]
    BY DEF WriteParquet
  <2>4. /\ ready' \in Seq(Tasks)
        /\ Members(ready') = Members(ready) \cup {t}
        /\ Distinct(ready')
    BY <2>1, <2>2, <2>3, MembersAppend, MembersBasic, DistinctAppend
       DEF Inv, TypeOK, FreshOK
  <2>5. t \notin Scheduled /\ t \notin dropped \cup vanished
    BY Numbers, ScheduledTask DEF Inv, LostOK
  <2> QED
    BY <2>1, <2>2, <2>3, <2>4, <2>5
<1>2. /\ proc = "up"
      /\ UNCHANGED <<lance, sidecar, sidecarTries, proc, cursor, crashes,
                     queue, timers, pending, status, attempts, wpc, wtask,
                     snapshot, keyOf, failures, lost, dropped, vanished>>
  BY DEF WriteParquet, procVars, workerVars
<1>3. Scheduled' = Scheduled
  BY <1>2 DEF Scheduled, Held
<1>4. \A u \in TaskOrNone : Accounted(u) => Accounted(u)'
  BY <1>1, <1>2, <1>3 DEF Accounted, Owes
<1>5. TypeOK'
  <2>1. writes' \in 0..MaxWrites
    BY <1>1, BoundsAssumption DEF Tasks
  <2>2. /\ parquet' \in [Keys -> TaskOrNone]
        /\ carrier' \in [Keys -> TaskOrNone]
    BY <1>1 DEF Inv, TypeOK, TaskOrNone
  <2> QED
    BY <1>1, <1>2, <2>1, <2>2 DEF Inv, TypeOK
<1>6. BootOK'
  BY <1>1, <1>2 DEF Inv, BootOK
<1>7. FreshOK'
  <2>1. sidecar[t] = "none" /\ failures[t] = 0 /\ lost[t] = 0
    BY <1>1, Numbers DEF Inv, FreshOK
  <2>2. \A u \in Members(ready') : u <= writes'
    <3>1. \A u \in Members(ready) : u \in Nat /\ u <= writes
      BY Numbers DEF Inv, FreshOK
    <3> QED
      BY <1>1, <3>1, Numbers
  <2>3. \A u \in Tasks : u > writes' =>
           sidecar'[u] = "none" /\ failures'[u] = 0 /\ lost'[u] = 0
    BY <1>1, <1>2, Numbers DEF Inv, FreshOK
  <2> QED
    BY <1>1, <1>2, <2>1, <2>2, <2>3 DEF Inv, FreshOK
<1>8. HomeOK' /\ PendingOK'
  BY <1>2 DEF Inv, HomeOK, Held, Working, PendingOK
<1>9. Recoverable' /\ BudgetOK' /\ RetryBudget'
  BY <1>2, <1>3 DEF Inv, Recoverable, BudgetOK, RetryBudget
<1>10. CarrierOK'
  BY <1>1, <1>2 DEF Inv, CarrierOK, TypeOK
<1>11. LostOK'
  <2>1. \A u \in dropped \cup vanished : u <= writes' /\ u \notin Members(ready')
    BY <1>1, Numbers DEF Inv, LostOK, TypeOK
  <2> QED
    BY <1>2, <1>3, <2>1 DEF Inv, LostOK
<1>12. Accounted(t)'
  BY <1>1 DEF Accounted, Owes
<1>13. WorkerOK'
  <2> SUFFICES ASSUME Working
               PROVE  LET j == keyOf[wtask] IN
                      /\ carrier'[j] = wtask => snapshot = parquet'[j]
                      /\ carrier'[j] # wtask => Accounted(carrier[j])'
                      /\ wpc = "added" => lance[j] = snapshot
    BY <1>2 DEF WorkerOK, Working
  <2>1. /\ keyOf[wtask] \in Keys /\ wtask # t
        /\ carrier[keyOf[wtask]] \in TaskOrNone
    BY <1>1, WorkerTask, ScheduledTask DEF Working, Inv, TypeOK
  <2>2. CASE keyOf[wtask] = k
    <3>1. carrier'[k] = t
      BY <1>1 DEF Inv, TypeOK
    <3> QED
      BY <1>2, <1>12, <2>1, <2>2, <3>1 DEF Inv, WorkerOK
  <2>3. CASE keyOf[wtask] # k
    <3>1. /\ carrier'[keyOf[wtask]] = carrier[keyOf[wtask]]
          /\ parquet'[keyOf[wtask]] = parquet[keyOf[wtask]]
      BY <1>1, <2>1, <2>3 DEF Inv, TypeOK
    <3> QED
      BY <1>2, <1>4, <2>1, <3>1 DEF Inv, WorkerOK
  <2> QED
    BY <2>2, <2>3
<1>14. Answered'
  <2> SUFFICES ASSUME NEW j \in Keys
               PROVE  lance'[j] = parquet'[j] \/ Accounted(carrier[j])'
    BY DEF Answered
  <2>1. CASE j = k
    BY <1>1, <1>12, <2>1 DEF Inv, TypeOK
  <2>2. CASE j # k
    BY <1>1, <1>2, <1>4, <2>2 DEF Inv, TypeOK, Answered
  <2> QED
    BY <2>1, <2>2
<1> QED
  BY <1>5, <1>6, <1>7, <1>8, <1>9, <1>10, <1>11, <1>13, <1>14 DEF Inv

\* enqueue onto a pending task: that task takes over as the carrier of the
\* key, if anything is still going to run it, and the write has vanished if not.
LEMMA EnqueueDedupStep ==
    ASSUME Inv, EnqueueDedup
    PROVE  Inv'
<1>0. PICK t \in Tasks, k \in Keys, old \in Tasks :
         /\ t = Head(ready) /\ k = keyOf[t] /\ old = pending[k]
         /\ ready # <<>> /\ keyOf[old] = k
  <2>1. ready # <<>> /\ pending[keyOf[Head(ready)]] # None
    BY DEF EnqueueDedup, Deduplicates
  <2>2. Head(ready) \in Tasks /\ keyOf[Head(ready)] \in Keys
    BY <2>1, HeadReady
  <2>3. /\ pending[keyOf[Head(ready)]] \in Tasks
        /\ keyOf[pending[keyOf[Head(ready)]]] = keyOf[Head(ready)]
    BY <2>1, <2>2 DEF Inv, TypeOK, TaskOrNone, PendingOK
  <2> QED
    BY <2>1, <2>2, <2>3
<1>1. /\ ready # <<>> /\ ready' = Tail(ready)
      /\ proc = "up"
      /\ old # None /\ status[old] = "pending"
      /\ attempts' = [attempts EXCEPT ![old] = @ + 1]
      /\ \/ /\ old \in Scheduled \/ sidecar[old] = "pending"
            /\ carrier' = [carrier EXCEPT ![k] = IF @ = t THEN old ELSE @]
            /\ UNCHANGED vanished
         \/ /\ vanished' = vanished \cup {t}
            /\ UNCHANGED carrier
      /\ UNCHANGED <<parquet, lance, sidecar, sidecarTries, proc, cursor,
                     crashes, queue, timers, pending, status, wpc, wtask,
                     snapshot, keyOf, writes, failures, lost, dropped>>
  BY <1>0 DEF EnqueueDedup, Deduplicates, durable, procVars, workerVars
<1>2. /\ t \in Tasks /\ t # None /\ k \in Keys
      /\ ready' \in Seq(Tasks) /\ Distinct(ready')
      /\ Members(ready) = {t} \cup Members(ready')
      /\ t \notin Members(ready')
      /\ t <= writes /\ t \notin Scheduled /\ sidecar[t] = "none"
      /\ t \notin dropped \cup vanished
  BY <1>0, HeadReady, <1>1
<1>3. old \in Tasks /\ keyOf[old] = k
  BY <1>0
<1>4. Scheduled' = Scheduled
  BY <1>1 DEF Scheduled, Held
<1>5. \A u \in TaskOrNone \ {t} : Accounted(u) => Accounted(u)'
  BY <1>1, <1>2, <1>4 DEF Accounted, Owes
<1>6. \A j \in Keys : carrier[j] = t => j = k
  BY <1>0, <1>2 DEF Inv, CarrierOK
<1>7. \A j \in Keys :
         \/ carrier[j] # t /\ carrier'[j] = carrier[j]
         \/ carrier[j] = t /\ carrier'[j] = old /\ Accounted(old)'
         \/ carrier'[j] = t /\ carrier[j] = t /\ Accounted(t)'
  <2>1. CASE /\ old \in Scheduled \/ sidecar[old] = "pending"
             /\ carrier' = [carrier EXCEPT ![k] = IF @ = t THEN old ELSE @]
    <3>1. Accounted(old)'
      BY <1>1, <1>3, <1>4, <2>1 DEF Accounted, Owes
    <3> QED
      BY <1>2, <1>6, <2>1, <3>1 DEF Inv, TypeOK
  <2>2. CASE vanished' = vanished \cup {t} /\ UNCHANGED carrier
    BY <2>2 DEF Accounted
  <2> QED
    BY <1>1, <2>1, <2>2
<1>17. /\ attempts' \in [Tasks -> Nat]
       /\ \A u \in Tasks : attempts[u] <= attempts'[u]
  <2>1. attempts' = [attempts EXCEPT ![old] = @ + 1]
    BY <1>1
  <2>2. attempts \in [Tasks -> Nat]
    BY DEF Inv, TypeOK
  <2> QED
    BY <2>1, <2>2
<1>8. TypeOK'
  <2>1. attempts' \in [Tasks -> Nat]
    BY <1>17
  <2>2. carrier' \in [Keys -> TaskOrNone]
    BY <1>1, <1>2, <1>3 DEF Inv, TypeOK, TaskOrNone
  <2>3. vanished' \subseteq Tasks
    BY <1>1, <1>2 DEF Inv, TypeOK
  <2> QED
    BY <1>1, <1>2, <2>1, <2>2, <2>3 DEF Inv, TypeOK
<1>9. BootOK' /\ FreshOK'
  BY <1>1, <1>2 DEF Inv, BootOK, FreshOK
<1>10. HomeOK' /\ PendingOK'
  BY <1>1 DEF Inv, HomeOK, Held, Working, PendingOK
<1>11. Recoverable' /\ RetryBudget'
  BY <1>1, <1>4 DEF Inv, Recoverable, RetryBudget
<1>12. BudgetOK'
  <2>2. ASSUME NEW u \in Scheduled
        PROVE  failures[u] <= attempts'[u] + lost[u]
    <3>1. u \in Tasks /\ failures[u] <= attempts[u] + lost[u]
      BY ScheduledTask DEF Inv, BudgetOK
    <3>2. attempts[u] <= attempts'[u] /\ attempts'[u] \in Nat
      BY <1>17, <3>1
    <3> QED
      BY <3>1, <3>2, Numbers
  <2> QED
    BY <1>1, <1>4, <2>2 DEF Inv, BudgetOK
<1>13. CarrierOK'
  BY <1>0, <1>1, <1>2, <1>3, <1>6, <1>7 DEF Inv, CarrierOK
<1>14. LostOK'
  BY <1>1, <1>2, <1>4 DEF Inv, LostOK
<1>15. WorkerOK'
  <2> SUFFICES ASSUME Working
               PROVE  LET j == keyOf[wtask] IN
                      /\ carrier'[j] = wtask => snapshot = parquet[j]
                      /\ carrier'[j] # wtask => Accounted(carrier[j])'
                      /\ wpc = "added" => lance[j] = snapshot
    BY <1>1 DEF WorkerOK, Working
  <2>1. /\ keyOf[wtask] \in Keys /\ wtask # t /\ wtask # old
        /\ carrier[keyOf[wtask]] \in TaskOrNone
    BY <1>1, <1>2, WorkerTask, ScheduledTask DEF Working, Inv, TypeOK, HomeOK
  <2>2. /\ carrier[keyOf[wtask]] = wtask => snapshot = parquet[keyOf[wtask]]
        /\ carrier[keyOf[wtask]] # wtask => Accounted(carrier[keyOf[wtask]])
        /\ wpc = "added" => lance[keyOf[wtask]] = snapshot
    BY DEF Inv, WorkerOK
  <2>3. CASE carrier[keyOf[wtask]] = t
    <3>1. PICK c \in {t, old} : carrier'[keyOf[wtask]] = c /\ Accounted(c)'
      BY <1>7, <2>1, <2>3
    <3>2. UNCHANGED <<keyOf, wtask>> /\ c # wtask
      BY <1>1, <2>1, <3>1
    <3> QED
      BY <2>2, <3>1, <3>2
  <2>4. CASE carrier[keyOf[wtask]] # t
    <3>1. carrier'[keyOf[wtask]] = carrier[keyOf[wtask]]
      BY <1>7, <2>1, <2>4
    <3>2. Accounted(carrier[keyOf[wtask]]) => Accounted(carrier[keyOf[wtask]])'
      <4> DEFINE c == carrier[keyOf[wtask]]
      <4>1. PICK u \in TaskOrNone \ {t} : u = c
        BY <2>1, <2>4
      <4>2. UNCHANGED <<keyOf, wtask>> /\ carrier'[keyOf[wtask]] = u
        BY <1>1, <3>1, <4>1
      <4> QED
        BY <1>5, <4>1, <4>2
    <3> QED
      BY <2>2, <3>1, <3>2
  <2> QED
    BY <2>3, <2>4
<1>16. Answered'
  <2> SUFFICES ASSUME NEW j \in Keys
               PROVE  lance'[j] = parquet'[j] \/ Accounted(carrier[j])'
    BY DEF Answered
  <2>1. carrier[j] \in TaskOrNone
    BY DEF Inv, TypeOK
  <2> QED
    BY <1>1, <1>5, <1>7, <2>1 DEF Inv, Answered
<1> QED
  BY <1>8, <1>9, <1>10, <1>11, <1>12, <1>13, <1>14, <1>15, <1>16 DEF Inv

\* enqueue with room: a task that was nowhere enters the queue and the dedup
\* dictionary, and the sidecar unless its line is lost.
LEMMA EnqueuePutStep ==
    ASSUME Inv, EnqueuePut
    PROVE  Inv'
<1>0. PICK t \in Tasks, k \in Keys :
         t = Head(ready) /\ k = keyOf[t] /\ ready # <<>>
  BY HeadReady DEF EnqueuePut
<1>1. /\ ready # <<>> /\ ready' = Tail(ready)
      /\ proc = "up"
      /\ queue' = Append(queue, t)
      /\ pending' = [pending EXCEPT ![k] = t]
      /\ Persist(t, "pending", attempts[t])
      /\ UNCHANGED <<parquet, lance, proc, cursor, crashes, timers, status,
                     attempts, wpc, wtask, snapshot, keyOf, writes, failures,
                     carrier, dropped, vanished>>
  BY <1>0 DEF EnqueuePut, procVars, workerVars
<1>2. /\ t \in Tasks /\ t # None /\ k \in Keys
      /\ ready' \in Seq(Tasks) /\ Distinct(ready')
      /\ Members(ready) = {t} \cup Members(ready')
      /\ t \notin Members(ready')
      /\ t <= writes /\ t \notin Scheduled /\ sidecar[t] = "none"
      /\ failures[t] = 0 /\ lost[t] = 0
      /\ t \notin dropped \cup vanished
  BY <1>0, <1>1, HeadReady
<1>3. /\ queue' \in Seq(Tasks)
      /\ Members(queue') = Members(queue) \cup {t}
      /\ Distinct(queue')
  <2>1. queue \in Seq(Tasks) /\ Distinct(queue) /\ t \notin Members(queue)
    BY <1>2 DEF Inv, TypeOK, HomeOK, Scheduled
  <2> QED
    BY <1>1, <1>2, <2>1, MembersAppend, MembersBasic, DistinctAppend
<1>4. Scheduled' = Scheduled \cup {t}
  BY <1>1, <1>3 DEF Scheduled, Held
<1>5. /\ sidecar' \in [Tasks -> Status \cup {"none"}]
      /\ sidecarTries' \in [Tasks -> Nat]
      /\ lost' \in [Tasks -> Nat]
      /\ \A u \in Tasks \ {t} : /\ sidecar'[u] = sidecar[u]
                               /\ sidecarTries'[u] = sidecarTries[u]
                               /\ lost'[u] = lost[u]
      /\ \/ sidecar'[t] = "pending" /\ lost'[t] = 0
         \/ sidecar'[t] = "none" /\ lost'[t] = 1
  <2>1. "pending" \in Status /\ attempts[t] \in Nat
    BY <1>2, Numbers DEF Status
  <2> QED
    BY <1>1, <1>2, <2>1, PersistFacts
<1>6. \A u \in TaskOrNone : Accounted(u) => Accounted(u)'
  BY <1>1, <1>2, <1>4, <1>5, Numbers DEF Accounted, Owes
<1>7. TypeOK'
  BY <1>1, <1>2, <1>3, <1>5 DEF Inv, TypeOK, TaskOrNone
<1>8. BootOK'
  BY <1>1, <1>2 DEF Inv, BootOK
<1>9. FreshOK'
  <2>1. \A u \in Members(ready') : u # t /\ u \in Members(ready) /\ u \in Tasks
    BY <1>2, Numbers
  <2>2. \A u \in Tasks : u > writes => u # t
    BY <1>2, Numbers
  <2> QED
    BY <1>1, <1>2, <1>5, <2>1, <2>2 DEF Inv, FreshOK
<1>10. HomeOK'
  BY <1>1, <1>2, <1>3 DEF Inv, HomeOK, Held, Scheduled, Working
<1>11. PendingOK' /\ CarrierOK'
  <2>1. pending' = [pending EXCEPT ![k] = t] /\ k = keyOf[t]
        /\ UNCHANGED <<keyOf, carrier>>
    BY <1>0, <1>1
  <2> QED
    BY <2>1 DEF Inv, PendingOK, TypeOK, CarrierOK
<1>18. failures' = failures /\ attempts' = attempts
  BY <1>1
<1>12. Recoverable'
  <2> SUFFICES ASSUME NEW u \in Scheduled'
               PROVE  \/ sidecar'[u] = "pending"
                      \/ sidecar'[u] = "none" /\ lost'[u] = failures'[u] + 1
    BY DEF Recoverable
  <2>1. CASE u = t
    BY <1>2, <1>5, <1>18, <2>1
  <2>2. CASE u # t
    <3>1. u \in Scheduled /\ u \in Tasks
      BY <1>4, <2>2, ScheduledTask
    <3> QED
      BY <1>5, <1>18, <2>2, <3>1 DEF Inv, Recoverable
  <2> QED
    BY <2>1, <2>2
<1>13. BudgetOK'
  <2>1. ASSUME NEW u \in Tasks, sidecar'[u] = "pending"
        PROVE  /\ failures'[u] < MaxAttempts + lost'[u]
               /\ failures'[u] <= sidecarTries'[u] + lost'[u]
    <3>1. CASE u = t
      <4>1. sidecarTries'[t] \in Nat /\ lost'[t] = 0 /\ failures'[t] = 0
        BY <1>2, <1>5, <1>18, <2>1, <3>1
      <4> QED
        BY <3>1, <4>1, Numbers
    <3>2. CASE u # t
      BY <1>5, <1>18, <2>1, <3>2 DEF Inv, BudgetOK
    <3> QED
      BY <3>1, <3>2
  <2>2. ASSUME NEW u \in Scheduled'
        PROVE  failures'[u] <= attempts'[u] + lost'[u]
    <3>1. CASE u = t
      <4>1. attempts'[t] \in Nat /\ lost'[t] \in Nat /\ failures'[t] = 0
        BY <1>2, <1>5, <1>18, Numbers
      <4> QED
        BY <3>1, <4>1
    <3>2. CASE u # t
      <4>1. u \in Scheduled /\ u \in Tasks
        BY <1>4, <3>2, ScheduledTask
      <4> QED
        BY <1>5, <1>18, <3>2, <4>1 DEF Inv, BudgetOK
    <3> QED
      BY <3>1, <3>2
  <2> QED
    BY <2>1, <2>2 DEF BudgetOK
<1>14. RetryBudget'
  <2> SUFFICES ASSUME NEW u \in Tasks
               PROVE  failures'[u] <= MaxAttempts + lost'[u]
    BY DEF RetryBudget
  <2>1. CASE u = t
    <3>1. lost'[t] \in Nat /\ failures'[t] = 0
      BY <1>2, <1>5, <1>18
    <3> QED
      BY <2>1, <3>1, Numbers
  <2>2. CASE u # t
    BY <1>5, <1>18, <2>2 DEF Inv, RetryBudget
  <2> QED
    BY <2>1, <2>2
<1>15. LostOK'
  BY <1>1, <1>2, <1>4, <1>5 DEF Inv, LostOK, TypeOK
<1>16. WorkerOK'
  <2>1. Working => keyOf[wtask] \in Keys
    BY WorkerTask, ScheduledTask DEF Working
  <2> QED
    BY <1>1, <1>6, <2>1 DEF Inv, WorkerOK, Working, TypeOK
<1>17. Answered'
  BY <1>1, <1>6 DEF Inv, Answered, TypeOK
<1> QED
  BY <1>7, <1>8, <1>9, <1>10, <1>11, <1>12, <1>13, <1>14, <1>15, <1>16, <1>17
     DEF Inv

\* enqueue on a full queue (QueueFull): the task is dropped, not forgotten.
LEMMA EnqueueFullStep ==
    ASSUME Inv, EnqueueFull
    PROVE  Inv'
<1> DEFINE t == Head(ready)
<1>1. /\ ready # <<>> /\ ready' = Tail(ready)
      /\ proc = "up"
      /\ dropped' = dropped \cup {t}
      /\ UNCHANGED <<parquet, lance, sidecar, sidecarTries, proc, cursor,
                     crashes, queue, timers, pending, status, attempts, wpc,
                     wtask, snapshot, keyOf, writes, failures, carrier, lost,
                     vanished>>
  BY DEF EnqueueFull, durable, procVars, workerVars
<1>2. /\ t \in Tasks
      /\ ready' \in Seq(Tasks) /\ Distinct(ready')
      /\ Members(ready) = {t} \cup Members(ready')
      /\ t \notin Members(ready')
      /\ t <= writes /\ t \notin Scheduled /\ sidecar[t] = "none"
  BY <1>1, HeadReady
<1>3. Scheduled' = Scheduled
  BY <1>1 DEF Scheduled, Held
<1>4. \A u : Accounted(u) => Accounted(u)'
  BY <1>1, <1>2, <1>3 DEF Accounted, Owes
<1>5. TypeOK'
  BY <1>1, <1>2 DEF Inv, TypeOK
<1>6. BootOK' /\ FreshOK'
  BY <1>1, <1>2 DEF Inv, BootOK, FreshOK
<1>7. HomeOK' /\ PendingOK' /\ CarrierOK'
  BY <1>1 DEF Inv, HomeOK, Held, Working, PendingOK, CarrierOK
<1>8. Recoverable' /\ BudgetOK' /\ RetryBudget'
  BY <1>1, <1>3 DEF Inv, Recoverable, BudgetOK, RetryBudget
<1>9. LostOK'
  BY <1>1, <1>2, <1>3 DEF Inv, LostOK
<1>10. WorkerOK'
  BY <1>1, <1>4 DEF Inv, WorkerOK, Working
<1>11. Answered'
  BY <1>1, <1>4 DEF Inv, Answered
<1> QED
  BY <1>5, <1>6, <1>7, <1>8, <1>9, <1>10, <1>11 DEF Inv

\* Queue.get inside wait_for: the task moves from the queue to the worker.
LEMMA WorkerTakeStep ==
    ASSUME Inv, WorkerTake
    PROVE  Inv'
<1>1. PICK t \in Tasks :
        /\ t = Head(queue)
        /\ queue' \in Seq(Tasks)
        /\ Members(queue) = {t} \cup Members(queue')
        /\ t \notin Members(queue')
        /\ Distinct(queue')
  <2>1. queue \in Seq(Tasks) /\ queue # <<>> /\ Distinct(queue)
    BY DEF Inv, TypeOK, HomeOK, WorkerTake
  <2>2. queue' = Tail(queue)
    BY DEF WorkerTake
  <2> QED
    BY <2>1, <2>2, MembersTail, DistinctTail
<1>2. /\ proc = "up"
      /\ wpc = "idle"
      /\ wpc' = "taken"
      /\ wtask' = t
      /\ UNCHANGED <<parquet, lance, sidecar, sidecarTries, proc, cursor,
                     crashes, ready, timers, pending, status, attempts,
                     snapshot, keyOf, writes, failures, carrier, lost,
                     dropped, vanished>>
  BY <1>1 DEF WorkerTake, durable, procVars, history
<1>3. Held = {} /\ Held' = {t}
  BY <1>2 DEF Held
<1>4. Scheduled' = Scheduled
  BY <1>1, <1>2, <1>3 DEF Scheduled
<1>5. \A u : Accounted(u)' <=> Accounted(u)
  BY <1>2, <1>4 DEF Accounted, Owes
<1>6. TypeOK'
  BY <1>1, <1>2 DEF Inv, TypeOK, TaskOrNone
<1>7. BootOK' /\ FreshOK' /\ PendingOK' /\ CarrierOK'
  BY <1>1, <1>2 DEF Inv, BootOK, FreshOK, PendingOK, CarrierOK
<1>8. HomeOK'
  <2>1. t \notin timers
    BY <1>1 DEF Inv, HomeOK
  <2> QED
    BY <1>1, <1>2, <1>3, <2>1 DEF Inv, HomeOK, Working
<1>9. Recoverable' /\ BudgetOK' /\ RetryBudget' /\ LostOK'
  BY <1>2, <1>4 DEF Inv, Recoverable, BudgetOK, RetryBudget, LostOK
<1>10. WorkerOK' /\ Answered'
  BY <1>2, <1>5 DEF Inv, WorkerOK, Working, Answered
<1> QED
  BY <1>6, <1>7, <1>8, <1>9, <1>10 DEF Inv

\* get sets RUNNING and sync_to_lance reads the parquet file: from here the
\* worker's task answers for the version it has read.
LEMMA WorkerReadStep ==
    ASSUME Inv, WorkerRead
    PROVE  Inv'
<1> DEFINE k == keyOf[wtask]
<1>1. /\ proc = "up"
      /\ wpc = "taken" /\ wpc' = "read"
      /\ status' = [status EXCEPT ![wtask] = "running"]
      /\ snapshot' = parquet[k]
      /\ carrier' = [carrier EXCEPT ![k] = wtask]
      /\ UNCHANGED <<parquet, lance, sidecar, sidecarTries, proc, cursor,
                     crashes, ready, queue, timers, pending, attempts, wtask,
                     keyOf, writes, failures, lost, dropped, vanished>>
  BY DEF WorkerRead, durable, procVars
<1>2. /\ wtask \in Tasks /\ wtask \in Scheduled /\ k \in Keys
      /\ wtask \notin dropped \cup vanished
  BY <1>1, WorkerTask, ScheduledTask
<1>3. Held' = Held /\ Scheduled' = Scheduled
  BY <1>1 DEF Scheduled, Held
<1>4. \A u : Accounted(u)' <=> Accounted(u)
  BY <1>1, <1>3 DEF Accounted, Owes
<1>5. TypeOK'
  BY <1>1, <1>2 DEF Inv, TypeOK, Status, TaskOrNone
<1>6. BootOK' /\ FreshOK' /\ PendingOK'
  BY <1>1 DEF Inv, BootOK, FreshOK, PendingOK
<1>7. HomeOK'
  BY <1>1, <1>2, <1>3 DEF Inv, HomeOK, TypeOK
<1>8. CarrierOK'
  BY <1>1, <1>2 DEF Inv, CarrierOK, TypeOK
<1>9. Recoverable' /\ BudgetOK' /\ RetryBudget'
  BY <1>1, <1>3 DEF Inv, Recoverable, BudgetOK, RetryBudget
<1>10. LostOK'
  BY <1>1, <1>2, <1>3 DEF Inv, LostOK, TypeOK
<1>11. WorkerOK'
  BY <1>1, <1>2 DEF WorkerOK, Inv, TypeOK
<1>12. Answered'
  <2>1. Accounted(wtask)'
    BY <1>1, <1>2, <1>3 DEF Accounted, Owes
  <2> QED
    BY <1>1, <1>2, <1>4, <2>1 DEF Inv, Answered, TypeOK
<1> QED
  BY <1>5, <1>6, <1>7, <1>8, <1>9, <1>10, <1>11, <1>12 DEF Inv

\* The executor deletes the rows of the key, or adds those of the version
\* read, which is the parquet version unless a later task is accounted for.
LEMMA SyncRowsStep ==
    ASSUME Inv, SyncDelete \/ SyncAdd
    PROVE  Inv'
<1> DEFINE k == keyOf[wtask]
<1>1. /\ proc = "up"
      /\ Working /\ Working'
      /\ \/ wpc' = "deleted" /\ lance' = [lance EXCEPT ![k] = None]
         \/ wpc' = "added" /\ lance' = [lance EXCEPT ![k] = snapshot]
      /\ UNCHANGED <<parquet, sidecar, sidecarTries, proc, cursor, crashes,
                     ready, queue, timers, pending, status, attempts, wtask,
                     snapshot, keyOf, writes, failures, carrier, lost,
                     dropped, vanished>>
  BY DEF SyncDelete, SyncAdd, Working, procVars, history
<1>2. wtask \in Tasks /\ wtask \in Scheduled /\ k \in Keys
  BY <1>1, WorkerTask, ScheduledTask DEF Working
<1>3. Held' = Held /\ Scheduled' = Scheduled
  BY <1>1 DEF Scheduled, Held, Working
<1>4. \A u : Accounted(u)' <=> Accounted(u)
  BY <1>1, <1>3 DEF Accounted, Owes
<1>5. TypeOK'
  <2>1. lance' \in [Keys -> TaskOrNone]
    BY <1>1, <1>2 DEF Inv, TypeOK, TaskOrNone
  <2> QED
    BY <1>1, <2>1 DEF Inv, TypeOK
<1>6. BootOK' /\ FreshOK' /\ PendingOK' /\ CarrierOK'
  BY <1>1 DEF Inv, BootOK, FreshOK, PendingOK, CarrierOK
<1>7. HomeOK'
  <2>1. Working => Working'
    BY <1>1
  <2> QED
    BY <1>1, <1>2, <1>3, <2>1 DEF Inv, HomeOK
<1>8. Recoverable' /\ BudgetOK' /\ RetryBudget' /\ LostOK'
  BY <1>1, <1>3 DEF Inv, Recoverable, BudgetOK, RetryBudget, LostOK
<1>9. WorkerOK'
  BY <1>1, <1>2, <1>4 DEF Inv, WorkerOK, TypeOK
<1>10. Answered'
  <2>1. Accounted(carrier[k])
    <3>1. Accounted(wtask)
      BY <1>2 DEF Accounted, Owes
    <3> QED
      BY <1>1, <3>1 DEF Inv, WorkerOK
  <2>2. \A j \in Keys \ {k} : lance'[j] = lance[j]
    BY <1>1 DEF Inv, TypeOK
  <2> QED
    BY <1>1, <1>4, <2>1, <2>2 DEF Inv, Answered
<1> QED
  BY <1>5, <1>6, <1>7, <1>8, <1>9, <1>10 DEF Inv

\* mark_done: the task is no longer owed (unless its line was lost), because
\* the rows show the version it answers for, or a later task answers.
LEMMA MarkDoneStep ==
    ASSUME Inv, MarkDone
    PROVE  Inv'
<1> DEFINE k == keyOf[wtask]
<1>1. /\ proc = "up"
      /\ wpc = "added" /\ Working
      /\ wpc' = "idle" /\ wtask' = None /\ snapshot' = None
      /\ status' = [status EXCEPT ![wtask] = "done"]
      /\ pending' = [pending EXCEPT ![k] = None]
      /\ Persist(wtask, "done", attempts[wtask])
      /\ UNCHANGED <<parquet, lance, proc, cursor, crashes, ready, queue,
                     timers, attempts, keyOf, writes, failures, carrier,
                     dropped, vanished>>
  BY DEF MarkDone, Release, Working, procVars
<1>2. /\ wtask \in Tasks /\ wtask \in Scheduled /\ k \in Keys
      /\ Held = {wtask} /\ wtask \notin Members(queue) /\ wtask \notin timers
      /\ wtask <= writes /\ wtask \notin Members(ready)
      /\ wtask \notin dropped \cup vanished
  BY <1>1, WorkerTask, ScheduledTask
<1>3. /\ sidecar' \in [Tasks -> Status \cup {"none"}]
      /\ sidecarTries' \in [Tasks -> Nat]
      /\ lost' \in [Tasks -> Nat]
      /\ \A u \in Tasks \ {wtask} : /\ sidecar'[u] = sidecar[u]
                                   /\ sidecarTries'[u] = sidecarTries[u]
                                   /\ lost'[u] = lost[u]
      /\ \/ sidecar'[wtask] = "done" /\ lost'[wtask] = lost[wtask]
         \/ /\ sidecar'[wtask] = sidecar[wtask]
            /\ sidecarTries'[wtask] = sidecarTries[wtask]
            /\ lost'[wtask] = lost[wtask] + 1
  <2>1. "done" \in Status /\ attempts[wtask] \in Nat
    BY <1>2, Numbers DEF Status
  <2> QED
    BY <1>1, <1>2, <2>1, PersistFacts
<1>4. Held' = {} /\ Scheduled' = Scheduled \ {wtask}
  BY <1>1, <1>2 DEF Scheduled, Held
<1>5. \A u \in TaskOrNone \ {wtask} : Accounted(u) => Accounted(u)'
  BY <1>1, <1>3, <1>4, Numbers DEF Accounted, Owes
<1>6. TypeOK'
  BY <1>1, <1>2, <1>3 DEF Inv, TypeOK, TaskOrNone, Status
<1>7. BootOK' /\ CarrierOK'
  BY <1>1 DEF Inv, BootOK, CarrierOK
<1>8. FreshOK'
  <2>1. \A u \in Tasks : u > writes => u # wtask
    BY <1>2, Numbers
  <2> QED
    BY <1>1, <1>2, <1>3, <2>1, Numbers DEF Inv, FreshOK
<1>9. HomeOK'
  BY <1>1, <1>4 DEF Inv, HomeOK, Working
<1>10. PendingOK'
  BY <1>1, <1>2 DEF Inv, PendingOK, TypeOK
<1>11. Recoverable'
  BY <1>1, <1>3, <1>4, Numbers DEF Inv, Recoverable
<1>12. BudgetOK'
  <2>1. ASSUME NEW u \in Tasks, sidecar'[u] = "pending"
        PROVE  /\ failures'[u] < MaxAttempts + lost'[u]
               /\ failures'[u] <= sidecarTries'[u] + lost'[u]
    BY <1>1, <1>2, <1>3, <2>1, Numbers DEF Inv, BudgetOK
  <2>2. \A u \in Scheduled' : failures'[u] <= attempts'[u] + lost'[u]
    BY <1>1, <1>3, <1>4, Numbers DEF Inv, BudgetOK
  <2> QED
    BY <2>1, <2>2 DEF BudgetOK
<1>13. RetryBudget'
  BY <1>1, <1>3, Numbers DEF Inv, RetryBudget
<1>14. LostOK'
  BY <1>1, <1>2, <1>3, <1>4 DEF Inv, LostOK, TypeOK
<1>15. WorkerOK'
  BY <1>1 DEF WorkerOK, Working
<1>16. Answered'
  <2>1. \A j \in Keys : carrier[j] = wtask => lance[j] = parquet[j]
    BY <1>1, <1>2 DEF Inv, CarrierOK, WorkerOK, Tasks, None
  <2> QED
    BY <1>1, <1>5, <2>1 DEF Inv, Answered, TypeOK
<1> QED
  BY <1>6, <1>7, <1>8, <1>9, <1>10, <1>11, <1>12, <1>13, <1>14, <1>15, <1>16
     DEF Inv

\* sync_to_lance raised: what mark_failed does in both of its cases, and what
\* that keeps of the invariant.
LEMMA FailsStep ==
    ASSUME Inv, NEW s \in {"pending", "failed"}, Fails(s)
    PROVE  /\ proc = "up" /\ Working
           /\ wtask \in Tasks /\ wtask \in Scheduled /\ keyOf[wtask] \in Keys
           /\ wtask <= writes /\ wtask \notin Members(ready)
           /\ wtask \notin dropped \cup vanished
           /\ wtask \notin Members(queue) /\ wtask \notin timers
           /\ wpc' = "idle" /\ wtask' = None /\ snapshot' = None
           /\ Held' = {}
           /\ attempts' \in [Tasks -> Nat] /\ failures' \in [Tasks -> Nat]
           /\ status' \in [Tasks -> Status]
           /\ sidecar' \in [Tasks -> Status \cup {"none"}]
           /\ sidecarTries' \in [Tasks -> Nat] /\ lost' \in [Tasks -> Nat]
           /\ \A u \in Tasks \ {wtask} :
                 /\ attempts'[u] = attempts[u] /\ failures'[u] = failures[u]
                 /\ status'[u] = status[u] /\ sidecar'[u] = sidecar[u]
                 /\ sidecarTries'[u] = sidecarTries[u] /\ lost'[u] = lost[u]
           /\ attempts'[wtask] = attempts[wtask] + 1
           /\ failures'[wtask] = failures[wtask] + 1
           /\ status'[wtask] = s
           /\ failures'[wtask] <= attempts'[wtask] + lost'[wtask]
           /\ \/ /\ sidecar'[wtask] = s /\ lost'[wtask] = lost[wtask]
                 /\ sidecarTries'[wtask] = attempts'[wtask]
              \/ /\ sidecar'[wtask] = sidecar[wtask]
                 /\ sidecarTries'[wtask] = sidecarTries[wtask]
                 /\ lost'[wtask] = lost[wtask] + 1
           /\ UNCHANGED <<parquet, lance, proc, cursor, crashes, ready,
                          queue, keyOf, writes, carrier, vanished>>
           /\ FreshOK' /\ RetryBudget' /\ CarrierOK' /\ WorkerOK'
           /\ sidecar'[wtask] = "none" => lost'[wtask] = failures'[wtask] + 1
<1>1. /\ proc = "up" /\ Working
      /\ failures' = [failures EXCEPT ![wtask] = @ + 1]
      /\ attempts' = [attempts EXCEPT ![wtask] = @ + 1]
      /\ status' = [status EXCEPT ![wtask] = s]
      /\ Persist(wtask, s, attempts[wtask] + 1)
      /\ wpc' = "idle" /\ wtask' = None /\ snapshot' = None
      /\ UNCHANGED <<parquet, lance, proc, cursor, crashes, ready, queue,
                     keyOf, writes, carrier, vanished>>
  BY DEF Fails, Release, Working, procVars
<1>2. /\ wtask \in Tasks /\ wtask \in Scheduled /\ keyOf[wtask] \in Keys
      /\ wtask <= writes /\ wtask \notin Members(ready)
      /\ wtask \notin dropped \cup vanished
      /\ wtask \notin Members(queue) /\ wtask \notin timers
      /\ sidecar[wtask] \in {"pending", "none"}
      /\ sidecar[wtask] = "none" => lost[wtask] = failures[wtask] + 1
  BY <1>1, WorkerTask, ScheduledTask DEF Working
<1>3. /\ attempts' \in [Tasks -> Nat] /\ failures' \in [Tasks -> Nat]
      /\ status' \in [Tasks -> Status]
      /\ attempts'[wtask] = attempts[wtask] + 1
      /\ failures'[wtask] = failures[wtask] + 1
      /\ status'[wtask] = s
      /\ \A u \in Tasks \ {wtask} : /\ attempts'[u] = attempts[u]
                                   /\ failures'[u] = failures[u]
                                   /\ status'[u] = status[u]
  BY <1>1, <1>2 DEF Inv, TypeOK, Status
<1>4. /\ sidecar' \in [Tasks -> Status \cup {"none"}]
      /\ sidecarTries' \in [Tasks -> Nat] /\ lost' \in [Tasks -> Nat]
      /\ \A u \in Tasks \ {wtask} : /\ sidecar'[u] = sidecar[u]
                                   /\ sidecarTries'[u] = sidecarTries[u]
                                   /\ lost'[u] = lost[u]
      /\ \/ /\ sidecar'[wtask] = s /\ lost'[wtask] = lost[wtask]
            /\ sidecarTries'[wtask] = attempts'[wtask]
         \/ /\ sidecar'[wtask] = sidecar[wtask]
            /\ sidecarTries'[wtask] = sidecarTries[wtask]
            /\ lost'[wtask] = lost[wtask] + 1
  <2>1. s \in Status /\ attempts[wtask] + 1 \in Nat
    BY <1>2, Numbers DEF Status
  <2> QED
    BY <1>1, <1>2, <1>3, <2>1, PersistFacts
<1>5. failures'[wtask] <= attempts'[wtask] + lost'[wtask]
  <2>1. failures[wtask] <= attempts[wtask] + lost[wtask]
    BY <1>2 DEF Inv, BudgetOK
  <2> QED
    BY <1>2, <1>3, <1>4, <2>1, Numbers
<1>6. Held' = {}
  BY <1>1 DEF Held
<1>7. FreshOK'
  <2>1. \A u \in Tasks : u > writes => u # wtask
    BY <1>2, Numbers
  <2>2. sidecar'[wtask] # "running"
    BY <1>2, <1>4
  <2> QED
    BY <1>1, <1>2, <1>3, <1>4, <2>1, <2>2, Numbers DEF Inv, FreshOK
<1>8. RetryBudget'
  <2>1. failures[wtask] < MaxAttempts + lost[wtask]
    BY <1>2, Numbers DEF Inv, BudgetOK
  <2>2. failures'[wtask] <= MaxAttempts + lost'[wtask]
    BY <1>2, <1>3, <1>4, <2>1, Numbers
  <2> QED
    BY <1>3, <1>4, <2>2 DEF Inv, RetryBudget
<1>9. CarrierOK'
  BY <1>1 DEF Inv, CarrierOK
<1>10. WorkerOK'
  BY <1>1 DEF WorkerOK, Working
<1>11. sidecar'[wtask] = "none" => lost'[wtask] = failures'[wtask] + 1
  BY <1>2, <1>3, <1>4, Numbers
<1> QED
  BY <1>1, <1>2, <1>3, <1>4, <1>5, <1>6, <1>7, <1>8, <1>9, <1>10, <1>11

\* mark_failed with attempts left: the task goes to a timer, and the failure is
\* counted in memory, and in the sidecar unless the line is lost.
LEMMA MarkFailedRetryStep ==
    ASSUME Inv, MarkFailedRetry
    PROVE  Inv'
<1>1. /\ Fails("pending")
      /\ attempts[wtask] + 1 < MaxAttempts
      /\ timers' = timers \cup {wtask}
      /\ UNCHANGED <<pending, dropped>>
  BY DEF MarkFailedRetry
<1>2. "pending" \in {"pending", "failed"}
  OBVIOUS
<1>3. Scheduled' = Scheduled
  <2>1. Held = {wtask}
    BY <1>1, <1>2, FailsStep, WorkerTask DEF Working
  <2> QED
    BY <1>1, <1>2, <2>1, FailsStep DEF Scheduled
<1>4. \A u \in TaskOrNone : Accounted(u) => Accounted(u)'
  BY <1>1, <1>2, <1>3, FailsStep, Numbers DEF Accounted, Owes
<1>5. TypeOK'
  BY <1>1, <1>2, FailsStep DEF Inv, TypeOK, TaskOrNone
<1>6. BootOK' /\ PendingOK'
  BY <1>1, <1>2, FailsStep DEF Inv, BootOK, PendingOK
<1>7. HomeOK'
  BY <1>1, <1>2, FailsStep DEF Inv, HomeOK, Working
<1>8. Recoverable'
  <2>1. sidecar'[wtask] = "pending" \/ sidecar'[wtask] = "none"
    BY <1>1, <1>2, FailsStep, ScheduledTask
  <2> QED
    BY <1>1, <1>2, <1>3, <2>1, FailsStep, Numbers DEF Inv, Recoverable
<1>9. BudgetOK'
  <2>1. ASSUME NEW u \in Tasks, sidecar'[u] = "pending"
        PROVE  /\ failures'[u] < MaxAttempts + lost'[u]
               /\ failures'[u] <= sidecarTries'[u] + lost'[u]
    <3>1. CASE u # wtask
      BY <1>1, <1>2, <2>1, <3>1, FailsStep DEF Inv, BudgetOK
    <3>2. CASE u = wtask
      <4>1. failures'[wtask] < MaxAttempts + lost'[wtask]
        BY <1>1, <1>2, FailsStep, Numbers
      <4>2. failures'[wtask] <= sidecarTries'[wtask] + lost'[wtask]
        BY <1>1, <1>2, <2>1, <3>2, FailsStep, Numbers DEF Inv, BudgetOK
      <4> QED
        BY <3>2, <4>1, <4>2
    <3> QED
      BY <3>1, <3>2
  <2>2. \A u \in Scheduled' : failures'[u] <= attempts'[u] + lost'[u]
    BY <1>1, <1>2, <1>3, FailsStep, Numbers DEF Inv, BudgetOK
  <2> QED
    BY <2>1, <2>2 DEF BudgetOK
<1>10. LostOK'
  BY <1>1, <1>2, <1>3, FailsStep DEF Inv, LostOK, TypeOK
<1>11. Answered'
  BY <1>1, <1>2, <1>4, FailsStep DEF Inv, Answered, TypeOK
<1> QED
  BY <1>1, <1>2, <1>5, <1>6, <1>7, <1>8, <1>9, <1>10, <1>11, FailsStep DEF Inv

\* mark_failed at max_attempts: the task is FAILED and dropped; the sidecar
\* says so unless the line is lost.
LEMMA MarkFailedGiveUpStep ==
    ASSUME Inv, MarkFailedGiveUp
    PROVE  Inv'
<1>1. /\ Fails("failed")
      /\ pending' = [pending EXCEPT ![keyOf[wtask]] = None]
      /\ dropped' = dropped \cup {wtask}
      /\ UNCHANGED timers
  BY DEF MarkFailedGiveUp
<1>2. "failed" \in {"pending", "failed"}
  OBVIOUS
<1>3. Scheduled' = Scheduled \ {wtask}
  <2>1. Held = {wtask}
    BY <1>1, <1>2, FailsStep, WorkerTask DEF Working
  <2> QED
    BY <1>1, <1>2, <2>1, FailsStep DEF Scheduled
<1>4. \A u \in TaskOrNone : Accounted(u) => Accounted(u)'
  BY <1>1, <1>2, <1>3, FailsStep, Numbers DEF Accounted, Owes
<1>5. TypeOK'
  BY <1>1, <1>2, FailsStep DEF Inv, TypeOK, TaskOrNone
<1>6. BootOK' /\ PendingOK'
  <2>1. \A k \in Keys : pending'[k] # None => pending'[k] = pending[k]
    BY <1>1, <1>2, FailsStep DEF Inv, TypeOK
  <2>2. proc' = "up" /\ UNCHANGED keyOf
    BY <1>1, <1>2, FailsStep
  <2> QED
    BY <2>1, <2>2 DEF Inv, BootOK, PendingOK
<1>7. HomeOK'
  BY <1>1, <1>2, FailsStep DEF Inv, HomeOK, Working
<1>8. Recoverable'
  BY <1>1, <1>2, <1>3, FailsStep, Numbers DEF Inv, Recoverable
<1>9. BudgetOK'
  <2>1. ASSUME NEW u \in Tasks, sidecar'[u] = "pending"
        PROVE  /\ failures'[u] < MaxAttempts + lost'[u]
               /\ failures'[u] <= sidecarTries'[u] + lost'[u]
    BY <1>1, <1>2, <2>1, FailsStep, Numbers DEF Inv, BudgetOK
  <2>2. \A u \in Scheduled' : failures'[u] <= attempts'[u] + lost'[u]
    BY <1>1, <1>2, <1>3, FailsStep, Numbers DEF Inv, BudgetOK
  <2> QED
    BY <2>1, <2>2 DEF BudgetOK
<1>10. LostOK'
  BY <1>1, <1>2, <1>3, FailsStep DEF Inv, LostOK, TypeOK
<1>11. Answered'
  BY <1>1, <1>2, <1>4, FailsStep DEF Inv, Answered, TypeOK
<1> QED
  BY <1>1, <1>2, <1>5, <1>6, <1>7, <1>8, <1>9, <1>10, <1>11, FailsStep DEF Inv

\* _reenqueue: the task goes from its timer to the queue, or to nothing when
\* the queue is full; then it is dropped unless the sidecar says pending.
LEMMA ReenqueueStep ==
    ASSUME Inv, NEW t \in Tasks, Reenqueue(t)
    PROVE  Inv'
<1>1. /\ proc = "up"
      /\ t \in timers
      /\ timers' = timers \ {t}
      /\ t \notin Members(queue)
      /\ UNCHANGED <<parquet, lance, sidecar, sidecarTries, proc, cursor,
                     crashes, ready, status, attempts, wpc, wtask, snapshot,
                     keyOf, writes, failures, carrier, lost, vanished>>
  BY DEF Reenqueue, Inv, HomeOK, durable, procVars, workerVars
<1>2. \/ /\ queue' \in Seq(Tasks)
         /\ Members(queue') = Members(queue) \cup {t}
         /\ Distinct(queue')
         /\ pending' = [pending EXCEPT ![keyOf[t]] = t]
         /\ UNCHANGED dropped
      \/ /\ UNCHANGED <<queue, pending>>
         /\ dropped' = IF sidecar[t] = "pending" THEN dropped
                                                 ELSE dropped \cup {t}
  <2>1. \/ /\ queue' = Append(queue, t)
           /\ pending' = [pending EXCEPT ![keyOf[t]] = t]
           /\ UNCHANGED dropped
        \/ /\ UNCHANGED <<queue, pending>>
           /\ dropped' = IF sidecar[t] = "pending" THEN dropped
                                                   ELSE dropped \cup {t}
    BY DEF Reenqueue
  <2>2. queue \in Seq(Tasks) /\ Distinct(queue)
    BY DEF Inv, TypeOK, HomeOK
  <2>3. /\ Append(queue, t) \in Seq(Tasks)
        /\ Members(Append(queue, t)) = Members(queue) \cup {t}
        /\ Distinct(Append(queue, t))
    BY <1>1, <2>2, MembersAppend, MembersBasic, DistinctAppend
  <2> QED
    BY <2>1, <2>3
<1>3. /\ t \in Scheduled /\ keyOf[t] \in Keys /\ t <= writes
      /\ t \notin Members(ready) /\ t \notin Held
  <2>1. t \in Scheduled /\ t \notin Held
    BY <1>1 DEF Scheduled, Inv, HomeOK
  <2> QED
    BY <2>1, ScheduledTask
<1>4. \/ Scheduled' = Scheduled /\ UNCHANGED dropped
      \/ /\ Scheduled' = Scheduled \ {t}
         /\ sidecar[t] = "pending" => UNCHANGED dropped
         /\ sidecar[t] # "pending" => dropped' = dropped \cup {t}
  BY <1>1, <1>2, <1>3 DEF Scheduled, Held
<1>5. \A u \in TaskOrNone : Accounted(u) => Accounted(u)'
  BY <1>1, <1>3, <1>4, Numbers DEF Accounted, Owes
<1>6. TypeOK'
  <2>1. queue' \in Seq(Tasks) /\ dropped' \subseteq Tasks
    BY <1>2 DEF Inv, TypeOK
  <2>2. pending' \in [Keys -> TaskOrNone]
    BY <1>2 DEF Inv, TypeOK, TaskOrNone
  <2> QED
    BY <1>1, <2>1, <2>2 DEF Inv, TypeOK
<1>7. BootOK' /\ FreshOK' /\ CarrierOK'
  BY <1>1 DEF Inv, BootOK, FreshOK, CarrierOK
<1>8. HomeOK'
  <2>1. Members(queue') \subseteq Members(queue) \cup {t} /\ Distinct(queue')
    BY <1>2 DEF Inv, HomeOK
  <2> QED
    BY <1>1, <1>3, <2>1 DEF Inv, HomeOK, Held, Working
<1>9. PendingOK'
  BY <1>1, <1>2 DEF Inv, PendingOK, TypeOK
<1>10. Recoverable' /\ BudgetOK' /\ RetryBudget'
  BY <1>1, <1>4 DEF Inv, Recoverable, BudgetOK, RetryBudget
<1>11. LostOK'
  BY <1>1, <1>3, <1>4 DEF Inv, LostOK
<1>12. WorkerOK'
  <2>1. Working => keyOf[wtask] \in Keys
    BY WorkerTask, ScheduledTask DEF Working
  <2> QED
    BY <1>1, <1>5, <2>1 DEF Inv, WorkerOK, Working, TypeOK
<1>13. Answered'
  BY <1>1, <1>5 DEF Inv, Answered, TypeOK
<1> QED
  BY <1>6, <1>7, <1>8, <1>9, <1>10, <1>11, <1>12, <1>13 DEF Inv

\* Process death: what nothing durable tells of vanishes, and whatever else was
\* held is in the sidecar.
LEMMA CrashStep ==
    ASSUME Inv, Crash
    PROVE  Inv'
<1>1. /\ <<>> \in Seq(Tasks)
      /\ Members(<<>>) = {}
      /\ Distinct(<<>>)
  BY MembersBasic DEF Distinct
<1>2. /\ ready' = <<>> /\ queue' = <<>> /\ timers' = {} /\ wpc' = "idle"
      /\ wtask' = None /\ snapshot' = None /\ proc' = "down" /\ cursor' = 0
      /\ pending' = [k \in Keys |-> None]
      /\ vanished' = vanished \cup Members(ready)
                       \cup {t \in Scheduled : sidecar[t] # "pending"}
      /\ crashes' = crashes + 1 /\ crashes < MaxCrashes
      /\ UNCHANGED <<parquet, lance, sidecar, sidecarTries, status, attempts,
                     keyOf, writes, failures, carrier, lost, dropped>>
  BY DEF Crash, durable
<1>3. Scheduled' = {} /\ Held' = {} /\ Members(ready') = {}
  BY <1>1, <1>2 DEF Scheduled, Held
<1>4. \A u \in TaskOrNone : Accounted(u) => Accounted(u)'
  BY <1>2, <1>3, Numbers DEF Accounted, Owes
<1>5. TypeOK'
  <2>1. crashes' \in 0..MaxCrashes
    BY <1>2, BoundsAssumption DEF Inv, TypeOK
  <2>2. pending' \in [Keys -> TaskOrNone]
    BY <1>2 DEF TaskOrNone
  <2>3. cursor' \in 0..MaxWrites
    BY <1>2, BoundsAssumption
  <2>4. vanished' \subseteq Tasks
    BY <1>2, Numbers DEF Inv, TypeOK
  <2> QED
    BY <1>1, <1>2, <2>1, <2>2, <2>3, <2>4 DEF Inv, TypeOK, TaskOrNone
<1>6. BootOK' /\ FreshOK' /\ HomeOK' /\ PendingOK' /\ CarrierOK'
  BY <1>1, <1>2, <1>3
     DEF Inv, BootOK, FreshOK, HomeOK, PendingOK, CarrierOK, Working
<1>7. Recoverable' /\ BudgetOK' /\ RetryBudget'
  BY <1>2, <1>3 DEF Inv, Recoverable, BudgetOK, RetryBudget
<1>8. LostOK'
  <2>1. \A t \in Members(ready) : t <= writes /\ sidecar[t] = "none"
    BY DEF Inv, FreshOK
  <2>2. \A t \in Scheduled : t <= writes
    BY ScheduledTask
  <2> QED
    BY <1>2, <1>3, <2>1, <2>2 DEF Inv, LostOK
<1>9. WorkerOK'
  BY <1>2 DEF WorkerOK, Working
<1>10. Answered'
  BY <1>2, <1>4 DEF Inv, Answered, TypeOK
<1> QED
  BY <1>5, <1>6, <1>7, <1>8, <1>9, <1>10 DEF Inv

\* The next process starts with nothing in memory, or goes on to serve although
\* it could not read the sidecar.
LEMMA BootStep ==
    ASSUME Inv, Boot \/ RecoverFails
    PROVE  Inv'
<1>1. /\ \/ proc = "down" /\ proc' = "recovering" /\ cursor' = cursor
         \/ proc = "recovering" /\ proc' = "up" /\ cursor' = MaxWrites
      /\ UNCHANGED <<parquet, lance, sidecar, sidecarTries, crashes, ready,
                     queue, timers, pending, status, attempts, wpc, wtask,
                     snapshot, keyOf, writes, failures, carrier, lost,
                     dropped, vanished>>
  BY DEF Boot, RecoverFails, durable, workerVars, history
<1>2. Scheduled' = Scheduled /\ Held' = Held
  BY <1>1 DEF Scheduled, Held
<1>3. \A u : Accounted(u)' <=> Accounted(u)
  BY <1>1, <1>2 DEF Accounted, Owes
<1>4. TypeOK'
  BY <1>1, BoundsAssumption DEF Inv, TypeOK
<1>5. BootOK'
  BY <1>1, MembersBasic DEF Inv, BootOK
<1>6. FreshOK' /\ HomeOK' /\ PendingOK' /\ CarrierOK'
  BY <1>1, <1>2 DEF Inv, FreshOK, HomeOK, PendingOK, CarrierOK, Working
<1>7. Recoverable' /\ BudgetOK' /\ RetryBudget' /\ LostOK'
  BY <1>1, <1>2 DEF Inv, Recoverable, BudgetOK, RetryBudget, LostOK
<1>8. WorkerOK' /\ Answered'
  BY <1>1, <1>3 DEF Inv, WorkerOK, Working, Answered
<1> QED
  BY <1>4, <1>5, <1>6, <1>7, <1>8 DEF Inv

\* recover_pending on one sidecar entry: the task it queues was in no other
\* place and takes its attempts from the sidecar.
LEMMA RecoverEntryStep ==
    ASSUME Inv, RecoverEntry
    PROVE  Inv'
<1>1. PICK t \in Tasks : t = cursor + 1
  BY BoundsAssumption DEF RecoverEntry, Inv, TypeOK, Tasks
<1>2. /\ proc = "recovering"
      /\ cursor' = t
      /\ UNCHANGED <<parquet, lance, sidecar, sidecarTries, proc, crashes,
                     ready, timers, wpc, wtask, snapshot, keyOf, writes,
                     failures, carrier, lost, vanished>>
      /\ ready = <<>> /\ timers = {} /\ wpc = "idle"
      /\ Held = {} /\ Held' = {}
  BY <1>1 DEF RecoverEntry, Inv, BootOK, durable, workerVars, Held
<1>3. t \notin Members(queue) /\ cursor \in Nat /\ cursor < t
  BY <1>1, <1>2 DEF Inv, TypeOK, BootOK
<1>4. \/ UNCHANGED <<queue, pending, status, attempts, dropped>>
      \/ /\ queue' \in Seq(Tasks)
         /\ Members(queue') = Members(queue) \cup {t}
         /\ Distinct(queue')
         /\ sidecar[t] = "pending"
         /\ pending' = [pending EXCEPT ![keyOf[t]] = t]
         /\ status' = [status EXCEPT ![t] = "pending"]
         /\ attempts' = [attempts EXCEPT ![t] = sidecarTries[t]]
         /\ dropped' = dropped \ {t}
  <2>1. \/ UNCHANGED <<queue, pending, status, attempts, dropped>>
        \/ /\ queue' = Append(queue, t)
           /\ sidecar[t] \in {"pending", "running"}
           /\ pending' = [pending EXCEPT ![keyOf[t]] = t]
           /\ status' = [status EXCEPT ![t] = "pending"]
           /\ attempts' = [attempts EXCEPT ![t] = sidecarTries[t]]
           /\ dropped' = dropped \ {t}
    BY <1>1 DEF RecoverEntry
  <2>2. queue \in Seq(Tasks) /\ Distinct(queue) /\ sidecar[t] # "running"
    BY DEF Inv, TypeOK, HomeOK, FreshOK
  <2>3. /\ Append(queue, t) \in Seq(Tasks)
        /\ Members(Append(queue, t)) = Members(queue) \cup {t}
        /\ Distinct(Append(queue, t))
    BY <1>3, <2>2, MembersAppend, MembersBasic, DistinctAppend
  <2> QED
    BY <2>1, <2>2, <2>3
<1>5. CASE UNCHANGED <<queue, pending, status, attempts, dropped>>
  <2>1. Scheduled' = Scheduled
    BY <1>2, <1>5 DEF Scheduled
  <2>2. \A u : Accounted(u)' <=> Accounted(u)
    BY <1>2, <1>5, <2>1 DEF Accounted, Owes
  <2>3. TypeOK'
    <3>1. cursor' \in 0..MaxWrites
      BY <1>2, BoundsAssumption DEF Tasks
    <3> QED
      BY <1>2, <1>5, <3>1 DEF Inv, TypeOK
  <2>4. BootOK'
    <3>1. \A u \in Members(queue) : u \in Nat /\ u <= cursor
      BY <1>2, MembersBasic DEF Inv, TypeOK, BootOK, Tasks
    <3> QED
      BY <1>2, <1>3, <1>5, <3>1, Numbers DEF BootOK
  <2>5. FreshOK' /\ HomeOK' /\ PendingOK' /\ CarrierOK'
    BY <1>2, <1>5 DEF Inv, FreshOK, HomeOK, PendingOK, CarrierOK, Working
  <2>6. Recoverable' /\ BudgetOK' /\ RetryBudget' /\ LostOK'
    BY <1>2, <1>5, <2>1 DEF Inv, Recoverable, BudgetOK, RetryBudget, LostOK
  <2>7. WorkerOK' /\ Answered'
    BY <1>2, <1>5, <2>2 DEF Inv, WorkerOK, Working, Answered
  <2> QED
    BY <2>3, <2>4, <2>5, <2>6, <2>7 DEF Inv
<1>6. CASE /\ queue' \in Seq(Tasks)
           /\ Members(queue') = Members(queue) \cup {t}
           /\ Distinct(queue')
           /\ sidecar[t] = "pending"
           /\ pending' = [pending EXCEPT ![keyOf[t]] = t]
           /\ status' = [status EXCEPT ![t] = "pending"]
           /\ attempts' = [attempts EXCEPT ![t] = sidecarTries[t]]
           /\ dropped' = dropped \ {t}
  <2>1. Scheduled' = Scheduled \cup {t}
    BY <1>2, <1>6 DEF Scheduled
  <2>2. \A u \in TaskOrNone : Accounted(u) => Accounted(u)'
    BY <1>2, <1>6, <2>1, Numbers DEF Accounted, Owes
  <2>3. /\ t \in Nat /\ t <= writes /\ t \notin Members(ready)
        /\ t \notin vanished
    <3>1. ~(t > writes) /\ t \notin Members(ready) /\ t \notin vanished
      BY <1>6 DEF Inv, FreshOK, LostOK
    <3> QED
      BY <3>1, Numbers
  <2>4. TypeOK'
    <3>1. cursor' \in 0..MaxWrites
      BY <1>2, BoundsAssumption DEF Tasks
    <3>2. pending' \in [Keys -> TaskOrNone]
      BY <1>6 DEF Inv, TypeOK, TaskOrNone
    <3>3. status' \in [Tasks -> Status] /\ attempts' \in [Tasks -> Nat]
      BY <1>6 DEF Inv, TypeOK, Status
    <3> QED
      BY <1>2, <1>6, <3>1, <3>2, <3>3 DEF Inv, TypeOK
  <2>5. BootOK'
    <3>1. \A u \in Members(queue) : u \in Nat /\ u <= cursor
      BY <1>2, MembersBasic DEF Inv, TypeOK, BootOK, Tasks
    <3> QED
      BY <1>2, <1>3, <1>6, <2>3, <3>1 DEF BootOK
  <2>6. FreshOK' /\ CarrierOK'
    BY <1>2 DEF Inv, FreshOK, CarrierOK
  <2>7. HomeOK' /\ PendingOK'
    BY <1>2, <1>6 DEF Inv, HomeOK, PendingOK, Working, TypeOK
  <2>8. Recoverable' /\ RetryBudget'
    BY <1>2, <1>6, <2>1 DEF Inv, Recoverable, RetryBudget
  <2>9. BudgetOK'
    <3>1. t \notin Scheduled
      BY <1>2, <1>3 DEF Scheduled
    <3>2. /\ attempts'[t] = sidecarTries[t]
          /\ \A u \in Tasks \ {t} : attempts'[u] = attempts[u]
      BY <1>6 DEF Inv, TypeOK
    <3>3. failures[t] <= sidecarTries[t] + lost[t]
      BY <1>6 DEF Inv, BudgetOK
    <3> QED
      BY <1>2, <2>1, <3>1, <3>2, <3>3, Numbers DEF Inv, BudgetOK
  <2>10. LostOK'
    BY <1>2, <1>6, <2>1, <2>3 DEF Inv, LostOK, TypeOK
  <2>11. WorkerOK'
    BY <1>2 DEF WorkerOK, Working
  <2>12. Answered'
    BY <1>2, <2>2 DEF Inv, Answered, TypeOK
  <2> QED
    BY <2>4, <2>5, <2>6, <2>7, <2>8, <2>9, <2>10, <2>11, <2>12 DEF Inv
<1> QED
  BY <1>4, <1>5, <1>6

\* _compact_sidecar forgets done tasks only, or fails, and the worker loop
\* starts.
LEMMA StartWorkerStep ==
    ASSUME Inv, StartWorker
    PROVE  Inv'
<1>1. /\ proc = "recovering" /\ proc' = "up"
      /\ \/ UNCHANGED sidecar
         \/ sidecar' = [t \in Tasks |->
                           IF sidecar[t] = "done" THEN "none" ELSE sidecar[t]]
      /\ UNCHANGED <<parquet, lance, sidecarTries, cursor, crashes, ready,
                     queue, timers, pending, status, attempts, wpc, wtask,
                     snapshot, keyOf, writes, failures, carrier, lost,
                     dropped, vanished>>
  BY DEF StartWorker, workerVars, history
<1>2. Scheduled' = Scheduled /\ Held' = Held
  BY <1>1 DEF Scheduled, Held
<1>3. /\ sidecar' \in [Tasks -> Status \cup {"none"}]
      /\ \A u \in Tasks : \/ sidecar'[u] = sidecar[u]
                          \/ sidecar[u] = "done" /\ sidecar'[u] = "none"
  BY <1>1 DEF Inv, TypeOK
<1>4. \A u \in TaskOrNone : Accounted(u)' <=> Accounted(u)
  BY <1>1, <1>2, <1>3, Numbers DEF Accounted, Owes
<1>5. TypeOK'
  BY <1>1, <1>3 DEF Inv, TypeOK
<1>6. BootOK' /\ HomeOK' /\ PendingOK' /\ CarrierOK'
  BY <1>1, <1>2 DEF Inv, BootOK, HomeOK, PendingOK, CarrierOK, Working
<1>7. FreshOK'
  BY <1>1, <1>3, Numbers DEF Inv, FreshOK
<1>8. Recoverable' /\ BudgetOK' /\ RetryBudget'
  BY <1>1, <1>2, <1>3, Numbers DEF Inv, Recoverable, BudgetOK, RetryBudget
<1>9. LostOK'
  BY <1>1, <1>2, <1>3 DEF Inv, LostOK, TypeOK
<1>10. WorkerOK'
  BY <1>1 DEF Inv, BootOK, WorkerOK, Working
<1>11. Answered'
  BY <1>1, <1>4 DEF Inv, Answered, TypeOK
<1> QED
  BY <1>5, <1>6, <1>7, <1>8, <1>9, <1>10, <1>11 DEF Inv

-----------------------------------------------------------------------------
(* The invariant.                                                          *)

\* The initial states, a process about to recover an empty sidecar, satisfy
\* the inductive invariant.
LEMMA InitInv == ASSUME Init PROVE Inv
<1>1. TypeOK
  <2>1. <<>> \in Seq(Tasks)
    OBVIOUS
  <2> QED
    BY <2>1, BoundsAssumption DEF Init, TypeOK, TaskOrNone, Status
<1>2. Members(<<>>) = {}
  BY MembersBasic
<1>3. Distinct(<<>>)
  BY DEF Distinct
<1>4. Held = {} /\ Scheduled = {}
  BY <1>2 DEF Init, Held, Scheduled
<1>5. BootOK /\ FreshOK /\ HomeOK /\ PendingOK
  BY <1>2, <1>3, <1>4
     DEF Init, BootOK, FreshOK, HomeOK, PendingOK, Working
<1>6. Recoverable /\ BudgetOK /\ RetryBudget
  BY <1>4, BoundsAssumption DEF Init, Recoverable, BudgetOK, RetryBudget
<1>7. CarrierOK /\ LostOK /\ WorkerOK /\ Answered
  BY DEF Init, CarrierOK, LostOK, WorkerOK, Answered, Working
<1> QED
  BY <1>1, <1>5, <1>6, <1>7 DEF Inv

\* A step that changes no variable changes no part of the invariant.
LEMMA StutterInv == ASSUME Inv, UNCHANGED vars PROVE Inv'
<1>1. UNCHANGED <<parquet, lance, sidecar, sidecarTries, proc, cursor,
                  crashes, ready, queue, timers, pending, status, attempts,
                  wpc, wtask, snapshot, keyOf, writes, failures, carrier,
                  lost, dropped, vanished>>
  BY DEF vars, durable, procVars, workerVars, history
<1>2. TypeOK' /\ BootOK' /\ FreshOK' /\ HomeOK' /\ PendingOK' /\ LostOK'
  BY <1>1 DEF Inv, TypeOK, BootOK, FreshOK, HomeOK, PendingOK, Held, Working,
              LostOK, Scheduled
<1>3. Recoverable' /\ BudgetOK' /\ RetryBudget' /\ CarrierOK'
  BY <1>1 DEF Inv, Recoverable, BudgetOK, RetryBudget, Scheduled, Held,
              CarrierOK
<1>4. WorkerOK' /\ Answered'
  BY <1>1 DEF Inv, WorkerOK, Answered, Accounted, Working, Owes, Scheduled, Held
<1> QED
  BY <1>2, <1>3, <1>4 DEF Inv

\* Every handler of the queue and the worker, every crash and every step of
\* the recovery preserves the invariant.
LEMMA NextInv == ASSUME Inv, [Next]_vars PROVE Inv'
<1>1. CASE \E k \in Keys : WriteParquet(k)
  BY <1>1, WriteParquetStep
<1>2. CASE RunEnqueue
  BY <1>2, EnqueueDedupStep, EnqueuePutStep, EnqueueFullStep DEF RunEnqueue
<1>3. CASE WorkerStep
  BY <1>3, WorkerTakeStep, WorkerReadStep, SyncRowsStep, MarkDoneStep,
     MarkFailedRetryStep, MarkFailedGiveUpStep
     DEF WorkerStep
<1>4. CASE WorkerPoll
  BY <1>4, StutterInv DEF WorkerPoll
<1>5. CASE \E t \in Tasks : Reenqueue(t)
  BY <1>5, ReenqueueStep
<1>6. CASE Crash
  BY <1>6, CrashStep
<1>7. CASE Restart
  BY <1>7, BootStep, RecoverEntryStep, StartWorkerStep DEF Restart
<1>8. CASE UNCHANGED vars
  BY <1>8, StutterInv
<1> QED
  BY <1>1, <1>2, <1>3, <1>4, <1>5, <1>6, <1>7, <1>8 DEF Next

\* In every reachable state of every instance the parts of Inv hold together
\* (sync_queue.py: the queue, the dedup dictionary, the sidecar and the worker
\* agree about every task).
THEOREM InvHolds == Spec => []Inv
<1>1. Init => Inv
  BY InitInv
<1>2. Inv /\ [Next]_vars => Inv'
  BY NextInv
<1> QED
  BY <1>1, <1>2, PTL DEF Spec

\* Every field of SyncQueue, SyncTask and the worker keeps its type.
THEOREM TypeCorrect == Spec => []TypeOK
<1>1. Inv => TypeOK
  BY DEF Inv
<1> QED
  BY <1>1, InvHolds, PTL

\* Until LanceDB shows a parquet write, a task is owed for it, or the drop was
\* logged, or the task has vanished: nothing else ends the promise (enqueue,
\* mark_done, mark_failed).  QueueKeepsContract below says which tasks can vanish.
THEOREM NoWriteForgotten == Spec => []Answered
<1>1. Inv => Answered
  BY DEF Inv
<1> QED
  BY <1>1, InvHolds, PTL

\* A crash at any point loses no task that the queue has accepted and of which
\* one line has reached the sidecar, which then holds it as pending; only when
\* every line about it was lost is it missing (_append_sidecar).
THEOREM AcceptedTasksSurvive == Spec => []Recoverable
<1>1. Inv => Recoverable
  BY DEF Inv
<1> QED
  BY <1>1, InvHolds, PTL

\* No task fails more than max_attempts times, across restarts, and once more
\* for each of its sidecar lines that was lost (mark_failed, recover_pending).
THEOREM RetriesBounded == Spec => []RetryBudget
<1>1. Inv => RetryBudget
  BY DEF Inv
<1> QED
  BY <1>1, InvHolds, PTL

-----------------------------------------------------------------------------
(* SyncQueue implements SyncContract: each step of the queue, the worker, a *)
(* crash or the recovery is one step of the contract, or changes nothing    *)
(* that the contract sees.  Beyond Inv that needs what VersionsOK says:     *)
(* versions only grow.                                                      *)

\* What is written and what the worker has read are of the past.
VersionsOK ==
    /\ \A k \in Keys : parquet[k] <= writes
    /\ Working => snapshot <= parquet[keyOf[wtask]]

\* The invariant of the refinement.
RInv == Inv /\ VersionsOK

\* What the contract sees of the tasks.
Recorded == {k \in OwedKeys : sidecar[carrier[k]] = "pending"}
GivenUp == {k \in Keys : carrier[k] \in dropped}
Forgotten == {k \in Keys : carrier[k] \in vanished}

\* A step changes nothing that the contract sees of the task u, of the key k.
SameTask(u) ==
    /\ Owes(u)' <=> Owes(u)
    /\ Owes(u) => (sidecar'[u] = "pending" <=> sidecar[u] = "pending")
    /\ u \in dropped' <=> u \in dropped
    /\ u \in vanished' <=> u \in vanished

SameKey(k) ==
    /\ k \in OwedKeys' <=> k \in OwedKeys
    /\ k \in Recorded' <=> k \in Recorded
    /\ k \in GivenUp' <=> k \in GivenUp
    /\ k \in Forgotten' <=> k \in Forgotten

\* No task answers for a key that was never written.
LEMMA NoneFree == Inv => ~Owes(None) /\ None \notin dropped \cup vanished
<1>1. Inv => None \notin Members(ready) \cup Scheduled
  BY Numbers
<1>2. Inv => None \notin dropped \cup vanished
  BY Numbers DEF Inv, TypeOK
<1> QED
  BY <1>1, <1>2 DEF Owes

\* The same after a step.
LEMMA NoneFreeAfter == Inv' => (~Owes(None) /\ None \notin dropped \cup vanished)'
BY NoneFree, PTL

\* A key whose carrier stays, and is none of the tasks T that the step
\* changes, is the same.
LEMMA CarrierSame ==
    ASSUME Inv, Inv', NEW k \in Keys, NEW T,
           \A u \in Tasks \ T : SameTask(u),
           carrier[k] \notin T, carrier'[k] = carrier[k]
    PROVE  SameKey(k)
<1>1. PICK u \in TaskOrNone \ T : u = carrier[k] /\ u = carrier'[k]
  BY DEF Inv, TypeOK
<1>2. CASE u = None
  <2>1. ~Owes(u) /\ ~Owes(u)'
    BY <1>2, NoneFree, NoneFreeAfter DEF None
  <2>2. u \notin dropped \cup vanished /\ u \notin dropped' \cup vanished'
    BY <1>2, NoneFree, NoneFreeAfter DEF None
  <2> QED
    BY <1>1, <2>1, <2>2 DEF SameKey, OwedKeys, Recorded, GivenUp, Forgotten
<1>3. CASE u # None
  <2>1. SameTask(u)
    BY <1>1, <1>3, Numbers
  <2> QED
    BY <1>1, <2>1
       DEF SameTask, SameKey, OwedKeys, Recorded, GivenUp, Forgotten
<1> QED
  BY <1>2, <1>3

\* The same when the step changes no task.
LEMMA CarrierStays ==
    ASSUME Inv, Inv', NEW k \in Keys, \A u \in Tasks : SameTask(u),
           carrier'[k] = carrier[k]
    PROVE  SameKey(k)
<1>1. \A u \in Tasks \ {} : SameTask(u)
  OBVIOUS
<1>2. carrier[k] \notin {}
  OBVIOUS
<1> QED
  BY <1>1, <1>2, CarrierSame

\* A step of the contract that leaves everything as it is.
LEMMA ContractStutter ==
    ASSUME UNCHANGED <<parquet, lance>>, \A k \in Keys : SameKey(k)
    PROVE  UNCHANGED Contract!cvars
<1>1. /\ OwedKeys' = OwedKeys /\ Recorded' = Recorded
      /\ GivenUp' = GivenUp /\ Forgotten' = Forgotten
  <2>1. /\ OwedKeys \subseteq Keys /\ Recorded \subseteq Keys
        /\ GivenUp \subseteq Keys /\ Forgotten \subseteq Keys
        /\ OwedKeys' \subseteq Keys /\ Recorded' \subseteq Keys
        /\ GivenUp' \subseteq Keys /\ Forgotten' \subseteq Keys
    BY DEF OwedKeys, Recorded, GivenUp, Forgotten
  <2> QED
    BY <2>1 DEF SameKey
<1> QED
  BY <1>1 DEF Contract!cvars, Recorded, GivenUp, Forgotten

\* A step that changes no task changes nothing for the contract.
LEMMA AllSame ==
    ASSUME Inv, Inv', UNCHANGED <<parquet, lance, carrier>>,
           \A u \in Tasks : SameTask(u)
    PROVE  UNCHANGED Contract!cvars
<1>1. \A k \in Keys : SameKey(k)
  BY CarrierStays
<1> QED
  BY <1>1, ContractStutter

\* The work on a key starts, or goes on record.
LEMMA AdoptKey ==
    ASSUME UNCHANGED <<parquet, lance>>, NEW k \in Keys,
           \A j \in Keys \ {k} : SameKey(j),
           k \in OwedKeys', k \notin GivenUp', k \notin Forgotten'
    PROVE  Contract!CNext
<1>1. /\ OwedKeys \subseteq Keys /\ Recorded \subseteq Keys
      /\ GivenUp \subseteq Keys /\ Forgotten \subseteq Keys
      /\ OwedKeys' \subseteq Keys /\ Recorded' \subseteq Keys
      /\ GivenUp' \subseteq Keys /\ Forgotten' \subseteq Keys
  BY DEF OwedKeys, Recorded, GivenUp, Forgotten
<1>2. OwedKeys' = OwedKeys \cup {k}
  BY <1>1 DEF SameKey
<1>3. GivenUp' = GivenUp \ {k} /\ Forgotten' = Forgotten \ {k}
  BY <1>1 DEF SameKey
<1>4. Recorded' \in {Recorded \cup {k}, Recorded \ {k}}
  <2>1. CASE k \in Recorded'
    <3>1. Recorded' = Recorded \cup {k}
      BY <1>1, <2>1 DEF SameKey
    <3> QED
      BY <3>1
  <2>2. CASE k \notin Recorded'
    <3>1. Recorded' = Recorded \ {k}
      BY <1>1, <2>2 DEF SameKey
    <3> QED
      BY <3>1
  <2> QED
    BY <2>1, <2>2
<1>5. Contract!CAdopt(k)
  BY <1>2, <1>3, <1>4 DEF Contract!CAdopt, Recorded, GivenUp, Forgotten
<1> QED
  BY <1>5 DEF Contract!CNext

\* A task answers for its own key only.
LEMMA OtherCarriers ==
    ASSUME Inv, NEW t \in Tasks, NEW k \in Keys, carrier[k] = t
    PROVE  k = keyOf[t]
BY Numbers DEF Inv, CarrierOK

\* A step changes one task t, which is owed afterwards.
LEMMA AdoptTask ==
    ASSUME Inv, Inv', UNCHANGED <<parquet, lance, carrier>>,
           NEW t \in Tasks, \A u \in Tasks \ {t} : SameTask(u),
           Owes(t)', t \notin dropped', t \notin vanished'
    PROVE  [Contract!CNext]_Contract!cvars
<1>1. \A k \in Keys : carrier[k] # t => SameKey(k)
  BY CarrierSame
<1>2. CASE \E k \in Keys : carrier[k] = t
  <2>1. PICK k \in Keys : carrier[k] = t
    BY <1>2
  <2>2. \A j \in Keys \ {k} : SameKey(j)
    BY <1>1, <2>1, OtherCarriers
  <2>3. carrier'[k] = t
    BY <2>1
  <2>4. k \in OwedKeys' /\ k \notin GivenUp' /\ k \notin Forgotten'
    BY <2>3 DEF OwedKeys, GivenUp, Forgotten
  <2> QED
    BY <2>2, <2>4, AdoptKey
<1>3. CASE \A k \in Keys : carrier[k] # t
  BY <1>1, <1>3, ContractStutter
<1> QED
  BY <1>2, <1>3

\* Giving up or losing the promises of some keys is a step of the contract.
LEMMA SetStep ==
    ASSUME NEW K \in SUBSET Keys, Contract!CDisclaim(K) \/ Contract!CForget(K)
    PROVE  Contract!CNext
BY DEF Contract!CNext

\* A step gives up one task t, which was owed.
LEMMA DisclaimTask ==
    ASSUME Inv, Inv', UNCHANGED <<parquet, lance, carrier, vanished>>,
           NEW t \in Tasks, \A u \in Tasks \ {t} : SameTask(u),
           Owes(t), t \notin dropped, t \in dropped'
    PROVE  Contract!CNext
<1>0. PICK K \in SUBSET Keys : \A k \in Keys : k \in K <=> carrier[k] = t
  <2>1. {k \in Keys : carrier[k] = t} \in SUBSET Keys
    OBVIOUS
  <2> QED
    BY <2>1
<1>1. \A k \in Keys \ K : SameKey(k)
  BY <1>0, CarrierSame
<1>2. \A k \in K : carrier'[k] = t /\ carrier[k] = t
  BY <1>0
<1>3. \A k \in K : /\ k \in OwedKeys /\ k \notin OwedKeys' /\ k \in GivenUp'
                   /\ k \notin Recorded'
                   /\ k \in Forgotten' <=> k \in Forgotten
  BY <1>2 DEF OwedKeys, Recorded, GivenUp, Forgotten
<1>4. /\ OwedKeys \subseteq Keys /\ Recorded \subseteq Keys
      /\ GivenUp \subseteq Keys /\ Forgotten \subseteq Keys
      /\ OwedKeys' \subseteq Keys /\ Recorded' \subseteq Keys
      /\ GivenUp' \subseteq Keys /\ Forgotten' \subseteq Keys
  BY DEF OwedKeys, Recorded, GivenUp, Forgotten
<1>5. K \in SUBSET Keys /\ K \subseteq OwedKeys
  BY <1>3
<1>6. OwedKeys' = OwedKeys \ K /\ Recorded' = Recorded \ K
  BY <1>1, <1>3, <1>4 DEF SameKey
<1>7. GivenUp' = GivenUp \cup K /\ Forgotten' = Forgotten
  BY <1>1, <1>3, <1>4 DEF SameKey
<1>8. Contract!CDisclaim(K)
  BY <1>5, <1>6, <1>7 DEF Contract!CDisclaim, Recorded, GivenUp, Forgotten
<1> QED
  BY <1>5, <1>8, SetStep

\* A step loses the tasks V, which were owed, and on record in no line.
LEMMA ForgetTasks ==
    ASSUME Inv, Inv', UNCHANGED <<parquet, lance, carrier>>,
           NEW V \in SUBSET Tasks, \A u \in Tasks \ V : SameTask(u),
           \A u \in V : /\ Owes(u) /\ ~Owes(u)' /\ sidecar[u] # "pending"
                        /\ u \notin dropped /\ u \notin dropped'
                        /\ u \in vanished'
    PROVE  Contract!CNext
<1>0. PICK K \in SUBSET Keys : \A k \in Keys : k \in K <=> carrier[k] \in V
  <2>1. {k \in Keys : carrier[k] \in V} \in SUBSET Keys
    OBVIOUS
  <2> QED
    BY <2>1
<1>1. \A k \in Keys \ K : SameKey(k)
  BY <1>0, CarrierSame
<1>2. ASSUME NEW k \in K
      PROVE  /\ k \in OwedKeys /\ k \notin OwedKeys'
             /\ k \notin Recorded /\ k \notin Recorded'
             /\ k \notin GivenUp /\ k \notin GivenUp' /\ k \in Forgotten'
  <2>1. PICK u \in V : u = carrier[k] /\ u = carrier'[k] /\ k \in Keys
    BY <1>0, <1>2
  <2> QED
    BY <2>1 DEF OwedKeys, Recorded, GivenUp, Forgotten
<1>3. /\ OwedKeys \subseteq Keys /\ Recorded \subseteq Keys
      /\ GivenUp \subseteq Keys /\ Forgotten \subseteq Keys
      /\ OwedKeys' \subseteq Keys /\ Recorded' \subseteq Keys
      /\ GivenUp' \subseteq Keys /\ Forgotten' \subseteq Keys
  BY DEF OwedKeys, Recorded, GivenUp, Forgotten
<1>4. K \in SUBSET Keys /\ K \subseteq OwedKeys \ Recorded
  BY <1>2
<1>5. OwedKeys' = OwedKeys \ K /\ Recorded' = Recorded
  BY <1>1, <1>2, <1>3 DEF SameKey
<1>6. GivenUp' = GivenUp /\ Forgotten' = Forgotten \cup K
  BY <1>1, <1>2, <1>3 DEF SameKey
<1>7. Contract!CForget(K)
  BY <1>4, <1>5, <1>6 DEF Contract!CForget, Recorded, GivenUp, Forgotten
<1> QED
  BY <1>4, <1>7, SetStep

-----------------------------------------------------------------------------
(* The steps, each with what it is for the contract.                       *)

\* upsert_chunks: a write, and its key is owed, but not on record yet.
LEMMA WriteRefines ==
    ASSUME RInv, Inv', NEW k \in Keys, WriteParquet(k)
    PROVE  VersionsOK' /\ Contract!CNext
<1>1. PICK t \in Tasks :
        /\ t = writes + 1 /\ t \in Nat /\ writes \in Nat
        /\ keyOf[t] = k /\ writes' = t
        /\ parquet' = [parquet EXCEPT ![k] = t]
        /\ ready' = Append(ready, t)
        /\ carrier' = [carrier EXCEPT ![k] = t]
        /\ UNCHANGED <<lance, sidecar, queue, timers, wpc, wtask, snapshot,
                       keyOf, dropped, vanished>>
  <2>1. writes \in Nat /\ MaxWrites \in Nat /\ writes < MaxWrites
    BY Numbers DEF RInv, WriteParquet
  <2>2. writes + 1 \in Tasks /\ writes + 1 \in Nat
    BY <2>1 DEF Tasks
  <2>3. /\ keyOf[writes + 1] = k /\ writes' = writes + 1
        /\ parquet' = [parquet EXCEPT ![k] = writes + 1]
        /\ ready' = Append(ready, writes + 1)
        /\ carrier' = [carrier EXCEPT ![k] = writes + 1]
        /\ UNCHANGED <<lance, sidecar, queue, timers, wpc, wtask, snapshot,
                       keyOf, dropped, vanished>>
    BY DEF WriteParquet, workerVars
  <2> QED
    BY <2>1, <2>2, <2>3
<1>2. Members(ready') = Members(ready) \cup {t} /\ Scheduled' = Scheduled
  BY <1>1, MembersAppend DEF RInv, Inv, TypeOK, Scheduled, Held
<1>3. sidecar[t] = "none" /\ t \notin dropped \cup vanished /\ t # None
  BY <1>1, Numbers DEF RInv, Inv, FreshOK, LostOK
<1>4. /\ parquet \in [Keys -> Nat]
      /\ parquet' \in [Keys -> Nat]
      /\ \A j \in Keys : parquet[j] <= parquet'[j] /\ parquet'[j] <= t
      /\ parquet[k] < t
  BY <1>1, Numbers DEF RInv, VersionsOK
<1>5. VersionsOK'
  <2>1. \A j \in Keys : parquet'[j] <= writes'
    BY <1>1, <1>4
  <2>2. ASSUME Working' PROVE snapshot' <= parquet'[keyOf'[wtask]]
    <3>1. Working
      BY <1>1, <2>2 DEF Working
    <3>2. keyOf[wtask] \in Keys
      BY <3>1, WorkerTask, ScheduledTask DEF Working, RInv
    <3>3. snapshot \in Nat /\ snapshot <= parquet[keyOf[wtask]]
      BY <3>1, Numbers DEF RInv, VersionsOK
    <3> QED
      BY <1>1, <1>4, <3>2, <3>3
  <2>3. UNCHANGED <<wtask, keyOf>>
    BY <1>1
  <2> QED
    BY <2>1, <2>2, <2>3 DEF VersionsOK
<1>6. \A u \in Tasks \ {t} : SameTask(u)
  BY <1>1, <1>2 DEF SameTask, Owes
<1>7. \A j \in Keys \ {k} : SameKey(j)
  <2>1. \A j \in Keys \ {k} : carrier'[j] = carrier[j] /\ carrier[j] # t
    BY <1>1, <1>3 DEF RInv, Inv, TypeOK, CarrierOK
  <2> QED
    BY <1>6, <2>1, CarrierSame DEF RInv
<1>8. carrier'[k] = t
  BY <1>1 DEF RInv, Inv, TypeOK
<1>9. Owes(t)'
  BY <1>2 DEF Owes
<1>10. /\ k \in OwedKeys' /\ k \notin Recorded'
       /\ k \notin GivenUp' /\ k \notin Forgotten'
  BY <1>1, <1>3, <1>8, <1>9 DEF OwedKeys, Recorded, GivenUp, Forgotten
<1>11. /\ OwedKeys \subseteq Keys /\ Recorded \subseteq Keys
       /\ GivenUp \subseteq Keys /\ Forgotten \subseteq Keys
       /\ OwedKeys' \subseteq Keys /\ Recorded' \subseteq Keys
       /\ GivenUp' \subseteq Keys /\ Forgotten' \subseteq Keys
  BY DEF OwedKeys, Recorded, GivenUp, Forgotten
<1>12. OwedKeys' = OwedKeys \cup {k} /\ Recorded' = Recorded \ {k}
  BY <1>7, <1>10, <1>11 DEF SameKey
<1>13. GivenUp' = GivenUp \ {k} /\ Forgotten' = Forgotten \ {k}
  BY <1>7, <1>10, <1>11 DEF SameKey
<1>14. t \in 1..MaxWrites /\ t > parquet[k]
  BY <1>1, <1>4, Numbers DEF Tasks
<1>15. Contract!CWrite(k)
  BY <1>1, <1>12, <1>13, <1>14
     DEF Contract!CWrite, Recorded, GivenUp, Forgotten
<1> QED
  BY <1>5, <1>15 DEF Contract!CNext

\* enqueue finds a pending task of the key: the promise passes on to it, or is
\* lost when nothing will run that task.
LEMMA DedupRefines ==
    ASSUME RInv, Inv', EnqueueDedup
    PROVE  VersionsOK' /\ [Contract!CNext]_Contract!cvars
<1>1. PICK t \in Tasks, k \in Keys, old \in Tasks :
        /\ t = Head(ready) /\ k = keyOf[t] /\ old = pending[k]
        /\ ready # <<>> /\ status[old] = "pending"
  <2>1. ready # <<>> /\ Deduplicates(keyOf[Head(ready)])
    BY DEF EnqueueDedup
  <2>2. Head(ready) \in Tasks /\ keyOf[Head(ready)] \in Keys
    BY <2>1, HeadReady DEF RInv
  <2>3. pending[keyOf[Head(ready)]] \in Tasks
    BY <2>1, <2>2 DEF Deduplicates, RInv, Inv, TypeOK, TaskOrNone
  <2> QED
    BY <2>1, <2>2, <2>3 DEF Deduplicates
<1>2. /\ ready' = Tail(ready)
      /\ \/ /\ old \in Scheduled \/ sidecar[old] = "pending"
            /\ carrier' = [carrier EXCEPT ![k] = IF @ = t THEN old ELSE @]
            /\ UNCHANGED vanished
         \/ /\ vanished' = vanished \cup {t}
            /\ UNCHANGED carrier
      /\ UNCHANGED <<parquet, lance, sidecar, queue, timers, status, wpc,
                     wtask, snapshot, keyOf, writes, dropped>>
  BY <1>1 DEF EnqueueDedup, durable, workerVars
<1>3. /\ Members(ready) = {t} \cup Members(ready')
      /\ t \notin Members(ready') /\ t \in Members(ready)
      /\ t \notin Scheduled /\ sidecar[t] = "none" /\ t # None
      /\ t \notin dropped \cup vanished
      /\ Scheduled' = Scheduled
  BY <1>1, <1>2, HeadReady DEF RInv, Scheduled, Held
<1>4. VersionsOK'
  BY <1>2 DEF RInv, VersionsOK, Working
<1>5. \A u \in Tasks \ {t} : SameTask(u)
  BY <1>2, <1>3 DEF SameTask, Owes
<1>6. CASE /\ old \in Scheduled \/ sidecar[old] = "pending"
           /\ carrier' = [carrier EXCEPT ![k] = IF @ = t THEN old ELSE @]
           /\ UNCHANGED vanished
  <2>1. Owes(old)'
    BY <1>2, <1>3, <1>6, Numbers DEF Owes, RInv
  <2>2. old \notin dropped' /\ old \notin vanished'
    BY <1>1, <1>2, <1>6 DEF RInv, Inv, LostOK
  <2>3. \A j \in Keys \ {k} : carrier'[j] = carrier[j] /\ carrier[j] # t
    <3>1. \A j \in Keys \ {k} : carrier'[j] = carrier[j]
      BY <1>6 DEF RInv, Inv, TypeOK
    <3>2. \A j \in Keys \ {k} : carrier[j] # t
      BY <1>1, OtherCarriers DEF RInv
    <3> QED
      BY <3>1, <3>2
  <2>4. \A j \in Keys \ {k} : SameKey(j)
    BY <1>5, <2>3, CarrierSame DEF RInv
  <2>5. CASE carrier[k] = t
    <3>1. carrier'[k] = old
      BY <1>6, <2>5 DEF RInv, Inv, TypeOK
    <3>2. k \in OwedKeys' /\ k \notin GivenUp' /\ k \notin Forgotten'
      BY <2>1, <2>2, <3>1 DEF OwedKeys, GivenUp, Forgotten
    <3> QED
      BY <1>2, <1>4, <2>4, <3>2, AdoptKey
  <2>6. CASE carrier[k] # t
    <3>1. carrier'[k] = carrier[k] /\ carrier[k] \notin {t}
      BY <1>6, <2>6 DEF RInv, Inv, TypeOK
    <3>2. SameKey(k)
      BY <1>5, <3>1, CarrierSame DEF RInv
    <3> QED
      BY <1>2, <1>4, <2>4, <3>2, ContractStutter
  <2> QED
    BY <2>5, <2>6
<1>7. CASE vanished' = vanished \cup {t} /\ UNCHANGED carrier
  <2> DEFINE V == {t}
  <2>1. V \in SUBSET Tasks /\ \A u \in Tasks \ V : SameTask(u)
    BY <1>5
  <2>2. /\ Owes(t) /\ ~Owes(t)' /\ sidecar[t] # "pending"
        /\ t \notin dropped /\ t \notin dropped' /\ t \in vanished'
    BY <1>2, <1>3, <1>7 DEF Owes
  <2>3. \A u \in V : /\ Owes(u) /\ ~Owes(u)' /\ sidecar[u] # "pending"
                     /\ u \notin dropped /\ u \notin dropped'
                     /\ u \in vanished'
    BY <2>2
  <2> QED
    BY <1>2, <1>4, <1>7, <2>1, <2>3, ForgetTasks DEF RInv
<1> QED
  BY <1>2, <1>6, <1>7

\* put_nowait succeeds: the promise is in the sidecar now, if its line is not
\* lost.
LEMMA PutRefines ==
    ASSUME RInv, Inv', EnqueuePut
    PROVE  VersionsOK' /\ [Contract!CNext]_Contract!cvars
<1>1. PICK t \in Tasks : t = Head(ready) /\ ready # <<>>
  BY HeadReady DEF EnqueuePut, RInv
<1>2. /\ ready' = Tail(ready) /\ queue' = Append(queue, t)
      /\ Persist(t, "pending", attempts[t])
      /\ UNCHANGED <<parquet, lance, timers, wpc, wtask, snapshot, keyOf,
                     writes, carrier, dropped, vanished>>
  BY <1>1 DEF EnqueuePut, workerVars
<1>3. /\ Members(ready) = {t} \cup Members(ready')
      /\ t \notin dropped \cup vanished
      /\ Members(queue') = Members(queue) \cup {t}
  BY <1>1, <1>2, HeadReady, MembersAppend DEF RInv, Inv, TypeOK
<1>4. Scheduled' = Scheduled \cup {t}
  BY <1>2, <1>3 DEF Scheduled, Held
<1>5. \A u \in Tasks \ {t} : sidecar'[u] = sidecar[u]
  <2>1. "pending" \in Status /\ attempts[t] \in Nat
    BY Numbers DEF Status, RInv
  <2> QED
    BY <1>2, <2>1, PersistFacts DEF RInv
<1>6. VersionsOK'
  BY <1>2 DEF RInv, VersionsOK, Working
<1>7. \A u \in Tasks \ {t} : SameTask(u)
  BY <1>2, <1>3, <1>4, <1>5 DEF SameTask, Owes
<1>8. Owes(t)'
  BY <1>4 DEF Owes
<1>9. t \notin dropped' /\ t \notin vanished'
  BY <1>2, <1>3
<1> QED
  BY <1>2, <1>6, <1>7, <1>8, <1>9, AdoptTask DEF RInv

\* put_nowait raises QueueFull: the key the task answers for is given up.
LEMMA FullRefines ==
    ASSUME RInv, Inv', EnqueueFull
    PROVE  VersionsOK' /\ Contract!CNext
<1>1. PICK t \in Tasks : t = Head(ready) /\ ready # <<>>
  BY HeadReady DEF EnqueueFull, RInv
<1>2. /\ ready' = Tail(ready) /\ dropped' = dropped \cup {t}
      /\ UNCHANGED <<parquet, lance, sidecar, queue, timers, wpc, wtask,
                     snapshot, keyOf, writes, carrier, vanished>>
  BY <1>1 DEF EnqueueFull, durable, workerVars
<1>3. /\ Members(ready) = {t} \cup Members(ready')
      /\ t \in Members(ready) /\ t \notin dropped
      /\ Scheduled' = Scheduled
  BY <1>1, <1>2, HeadReady DEF RInv, Scheduled, Held
<1>4. VersionsOK'
  BY <1>2 DEF RInv, VersionsOK, Working
<1>5. \A u \in Tasks \ {t} : SameTask(u)
  BY <1>2, <1>3 DEF SameTask, Owes
<1>6. Owes(t)
  BY <1>3 DEF Owes
<1> QED
  BY <1>2, <1>3, <1>4, <1>5, <1>6, DisclaimTask DEF RInv

\* get returns: the worker answers for the key from now on.
LEMMA ReadRefines ==
    ASSUME RInv, Inv', WorkerRead
    PROVE  VersionsOK' /\ Contract!CNext
<1>1. PICK k \in Keys, t \in Tasks :
        /\ t = wtask /\ k = keyOf[t]
        /\ t \in Scheduled /\ t \notin dropped \cup vanished
  BY WorkerTask, ScheduledTask DEF WorkerRead, RInv
<1>2. /\ wpc = "taken" /\ wpc' = "read"
      /\ snapshot' = parquet[k]
      /\ carrier' = [carrier EXCEPT ![k] = t]
      /\ UNCHANGED <<parquet, lance, sidecar, ready, queue, timers, wtask,
                     keyOf, writes, dropped, vanished>>
  BY <1>1 DEF WorkerRead, durable
<1>3. VersionsOK'
  <2>1. parquet[k] <= parquet[k]
    BY Numbers DEF RInv
  <2> QED
    BY <1>1, <1>2, <2>1 DEF RInv, VersionsOK
<1>4. Scheduled' = Scheduled
  BY <1>2 DEF Scheduled, Held
<1>5. \A u \in Tasks : SameTask(u)
  BY <1>2, <1>4 DEF SameTask, Owes
<1>6. \A j \in Keys \ {k} : SameKey(j)
  <2>1. \A j \in Keys \ {k} : carrier'[j] = carrier[j]
    BY <1>2 DEF RInv, Inv, TypeOK
  <2> QED
    BY <1>5, <2>1, CarrierStays DEF RInv
<1>7. carrier'[k] = t
  BY <1>2 DEF RInv, Inv, TypeOK
<1>8. Owes(t)' /\ t \notin dropped' /\ t \notin vanished'
  BY <1>1, <1>2, <1>4 DEF Owes
<1>9. k \in OwedKeys' /\ k \notin GivenUp' /\ k \notin Forgotten'
  BY <1>7, <1>8 DEF OwedKeys, GivenUp, Forgotten
<1> QED
  BY <1>2, <1>3, <1>6, <1>9, AdoptKey

\* The executor thread removes the rows of a key, or adds those of the version
\* that was read: of a key that is not settled.
LEMMA TouchRefines ==
    ASSUME RInv, Inv', SyncDelete \/ SyncAdd
    PROVE  VersionsOK' /\ Contract!CNext
<1>1. Working
  BY DEF SyncDelete, SyncAdd, Working
<1>2. PICK k \in Keys, t \in Tasks :
        t = wtask /\ k = keyOf[t] /\ t \in Scheduled
  BY <1>1, WorkerTask, ScheduledTask DEF Working, RInv
<1>3. /\ Working'
      /\ \E v \in {None, snapshot} : lance' = [lance EXCEPT ![k] = v]
      /\ UNCHANGED <<parquet, sidecar, ready, queue, timers, wtask, snapshot,
                     keyOf, writes, carrier, dropped, vanished>>
  BY <1>2 DEF SyncDelete, SyncAdd, Working, history
<1>4. VersionsOK'
  BY <1>1, <1>3 DEF RInv, VersionsOK
<1>5. Scheduled' = Scheduled
  BY <1>1, <1>3 DEF Scheduled, Held, Working
<1>6. \A u \in Tasks : SameTask(u)
  BY <1>3, <1>5 DEF SameTask, Owes
<1>7. \A j \in Keys : SameKey(j)
  <2>1. \A j \in Keys : carrier'[j] = carrier[j]
    BY <1>3
  <2> QED
    BY <1>6, <2>1, CarrierStays DEF RInv
<1>8. k \in OwedKeys \cup GivenUp \cup Forgotten
  <2>1. Accounted(carrier[k])
    BY <1>1, <1>2 DEF RInv, Inv, WorkerOK, Accounted, Owes
  <2> QED
    BY <2>1 DEF Accounted, OwedKeys, GivenUp, Forgotten
<1>9. {None, snapshot} \subseteq 0..parquet[k]
  BY <1>1, <1>2, Numbers DEF RInv, VersionsOK, None
<1>10. /\ OwedKeys' = OwedKeys /\ Recorded' = Recorded
       /\ GivenUp' = GivenUp /\ Forgotten' = Forgotten
  <2>1. /\ OwedKeys \subseteq Keys /\ Recorded \subseteq Keys
        /\ GivenUp \subseteq Keys /\ Forgotten \subseteq Keys
        /\ OwedKeys' \subseteq Keys /\ Recorded' \subseteq Keys
        /\ GivenUp' \subseteq Keys /\ Forgotten' \subseteq Keys
    BY DEF OwedKeys, Recorded, GivenUp, Forgotten
  <2> QED
    BY <1>7, <2>1 DEF SameKey
<1>11. Contract!CTouch(k)
  BY <1>3, <1>8, <1>9, <1>10
     DEF Contract!CTouch, Recorded, GivenUp, Forgotten
<1> QED
  BY <1>4, <1>11 DEF Contract!CNext

\* mark_done: the promise is kept if the task still answers for its key, whose
\* rows are then those of the file; if the line is lost, the promise stays on
\* record.
LEMMA DoneRefines ==
    ASSUME RInv, Inv', MarkDone
    PROVE  VersionsOK' /\ [Contract!CNext]_Contract!cvars
<1>1. PICK k \in Keys, t \in Tasks :
        /\ t = wtask /\ k = keyOf[t] /\ t \in Scheduled
        /\ t \notin Members(ready) /\ t \notin dropped \cup vanished
        /\ t \notin Members(queue) /\ t \notin timers /\ Held = {t}
        /\ Owes(t) /\ t # None
  BY WorkerTask, ScheduledTask DEF MarkDone, RInv
<1>2. /\ wpc = "added" /\ wpc' = "idle"
      /\ Persist(t, "done", attempts[t])
      /\ UNCHANGED <<parquet, lance, ready, queue, timers, keyOf, writes,
                     carrier, dropped, vanished>>
  BY <1>1 DEF MarkDone, Release
<1>3. /\ \A u \in Tasks \ {t} : sidecar'[u] = sidecar[u]
      /\ sidecar'[t] = "done" \/ sidecar'[t] = sidecar[t]
  <2>1. "done" \in Status /\ attempts[t] \in Nat
    BY Numbers DEF Status, RInv
  <2> QED
    BY <1>2, <2>1, PersistFacts DEF RInv
<1>4. Scheduled' = Scheduled \ {t}
  BY <1>1, <1>2 DEF Scheduled, Held
<1>5. VersionsOK'
  BY <1>2 DEF RInv, VersionsOK, Working
<1>6. \A u \in Tasks \ {t} : SameTask(u)
  BY <1>2, <1>3, <1>4 DEF SameTask, Owes
<1>7. \A j \in Keys : carrier[j] # t => SameKey(j)
  BY <1>2, <1>6, CarrierSame DEF RInv
<1>8. CASE Owes(t)'
  <2>1. sidecar'[t] = "pending" /\ sidecar[t] = "pending"
    BY <1>1, <1>2, <1>3, <1>4, <1>8 DEF Owes
  <2>2. SameTask(t)
    BY <1>1, <1>2, <1>8, <2>1 DEF SameTask
  <2> QED
    BY <1>2, <1>5, <1>6, <2>2, AllSame DEF RInv
<1>9. CASE ~Owes(t)' /\ carrier[k] = t
  <2>1. \A j \in Keys \ {k} : SameKey(j)
    BY <1>1, <1>7, OtherCarriers DEF RInv
  <2>2. /\ k \in OwedKeys /\ k \notin OwedKeys' /\ k \notin Recorded'
        /\ k \notin GivenUp /\ k \notin GivenUp'
        /\ k \notin Forgotten /\ k \notin Forgotten'
    <3>1. carrier'[k] = t
      BY <1>2, <1>9
    <3> QED
      BY <1>1, <1>2, <1>9, <3>1 DEF OwedKeys, Recorded, GivenUp, Forgotten
  <2>3. /\ OwedKeys \subseteq Keys /\ Recorded \subseteq Keys
        /\ GivenUp \subseteq Keys /\ Forgotten \subseteq Keys
        /\ OwedKeys' \subseteq Keys /\ Recorded' \subseteq Keys
        /\ GivenUp' \subseteq Keys /\ Forgotten' \subseteq Keys
    BY DEF OwedKeys, Recorded, GivenUp, Forgotten
  <2>4. OwedKeys' = OwedKeys \ {k} /\ Recorded' = Recorded \ {k}
    BY <2>1, <2>2, <2>3 DEF SameKey
  <2>5. GivenUp' = GivenUp /\ Forgotten' = Forgotten
    BY <2>1, <2>2, <2>3 DEF SameKey
  <2>6. lance[k] = parquet[k]
    BY <1>1, <1>2, <1>9 DEF RInv, Inv, WorkerOK, Working
  <2>7. Contract!CSettle(k)
    BY <1>2, <2>2, <2>4, <2>5, <2>6
       DEF Contract!CSettle, Recorded, GivenUp, Forgotten
  <2> QED
    BY <1>5, <2>7 DEF Contract!CNext
<1>10. CASE carrier[k] # t
  <2>1. \A j \in Keys : SameKey(j)
    BY <1>1, <1>7, <1>10, OtherCarriers DEF RInv
  <2> QED
    BY <1>2, <1>5, <2>1, ContractStutter
<1> QED
  BY <1>8, <1>9, <1>10

\* mark_failed with attempts left: the task stays owed, in a timer.
LEMMA RetryRefines ==
    ASSUME RInv, Inv', MarkFailedRetry
    PROVE  VersionsOK' /\ [Contract!CNext]_Contract!cvars
<1>1. Fails("pending") /\ "pending" \in {"pending", "failed"}
  BY DEF MarkFailedRetry
<1>2. PICK t \in Tasks : t = wtask /\ t \notin dropped \cup vanished
  BY <1>1, FailsStep DEF RInv
<1>3. /\ wpc' = "idle" /\ Held' = {} /\ Held = {t}
      /\ timers' = timers \cup {t}
      /\ \A u \in Tasks \ {t} : sidecar'[u] = sidecar[u]
      /\ UNCHANGED <<parquet, lance, ready, queue, keyOf, writes, carrier,
                     dropped, vanished>>
  BY <1>1, <1>2, FailsStep, WorkerTask DEF RInv, MarkFailedRetry, Working
<1>4. Scheduled' = Scheduled /\ t \in Scheduled
  BY <1>3 DEF Scheduled
<1>5. VersionsOK'
  BY <1>3 DEF RInv, VersionsOK, Working
<1>6. \A u \in Tasks \ {t} : SameTask(u)
  BY <1>3, <1>4 DEF SameTask, Owes
<1>7. Owes(t)' /\ t \notin dropped' /\ t \notin vanished'
  BY <1>2, <1>3, <1>4 DEF Owes
<1> QED
  BY <1>3, <1>5, <1>6, <1>7, AdoptTask DEF RInv

\* mark_failed at max_attempts: the key is given up if the task answers for it.
LEMMA GiveUpRefines ==
    ASSUME RInv, Inv', MarkFailedGiveUp
    PROVE  VersionsOK' /\ Contract!CNext
<1>1. Fails("failed") /\ "failed" \in {"pending", "failed"}
  BY DEF MarkFailedGiveUp
<1>2. PICK t \in Tasks : t = wtask /\ t \notin dropped /\ Owes(t)
  BY <1>1, FailsStep, ScheduledTask DEF RInv
<1>3. /\ wpc' = "idle" /\ Held' = {} /\ Held = {t}
      /\ dropped' = dropped \cup {t}
      /\ \A u \in Tasks \ {t} : sidecar'[u] = sidecar[u]
      /\ UNCHANGED <<parquet, lance, ready, queue, timers, keyOf, writes,
                     carrier, vanished>>
  BY <1>1, <1>2, FailsStep, WorkerTask DEF RInv, MarkFailedGiveUp, Working
<1>4. \A u \in Tasks \ {t} : u \in Scheduled' <=> u \in Scheduled
  BY <1>3 DEF Scheduled
<1>5. VersionsOK'
  BY <1>3 DEF RInv, VersionsOK, Working
<1>6. \A u \in Tasks \ {t} : SameTask(u)
  BY <1>3, <1>4 DEF SameTask, Owes
<1> QED
  BY <1>2, <1>3, <1>5, <1>6, DisclaimTask DEF RInv

\* _reenqueue: the task is queued again, or left to the sidecar; if that does
\* not have it as pending, it is given up.
LEMMA ReenqueueRefines ==
    ASSUME RInv, Inv', NEW t \in Tasks, Reenqueue(t)
    PROVE  VersionsOK' /\ [Contract!CNext]_Contract!cvars
<1>1. /\ t \in timers /\ t \in Scheduled
      /\ timers' = timers \ {t}
      /\ UNCHANGED <<parquet, lance, sidecar, ready, wpc, wtask, snapshot,
                     keyOf, writes, carrier, vanished>>
  BY DEF Reenqueue, durable, workerVars, Scheduled
<1>2. \/ Members(queue') = Members(queue) \cup {t} /\ UNCHANGED dropped
      \/ UNCHANGED <<queue, dropped>> /\ sidecar[t] = "pending"
      \/ /\ UNCHANGED queue /\ sidecar[t] # "pending"
         /\ dropped' = dropped \cup {t}
  <2>1. \/ queue' = Append(queue, t) /\ UNCHANGED dropped
        \/ UNCHANGED <<queue, dropped>> /\ sidecar[t] = "pending"
        \/ /\ UNCHANGED queue /\ sidecar[t] # "pending"
           /\ dropped' = dropped \cup {t}
    BY DEF Reenqueue
  <2> QED
    BY <2>1, MembersAppend DEF RInv, Inv, TypeOK
<1>3. VersionsOK'
  BY <1>1 DEF RInv, VersionsOK, Working
<1>4. \A u \in Tasks \ {t} : u \in Scheduled' <=> u \in Scheduled
  BY <1>1, <1>2 DEF Scheduled, Held
<1>5. \A u \in Tasks \ {t} : SameTask(u)
  BY <1>1, <1>2, <1>4 DEF SameTask, Owes
<1>6. Owes(t) /\ t \notin dropped /\ t # None
  BY <1>1, ScheduledTask DEF RInv
<1>7. CASE Members(queue') = Members(queue) \cup {t} /\ UNCHANGED dropped
  <2>1. Owes(t)'
    BY <1>7 DEF Owes, Scheduled
  <2>2. SameTask(t)
    BY <1>1, <1>6, <1>7, <2>1 DEF SameTask
  <2> QED
    BY <1>1, <1>3, <1>5, <2>2, AllSame DEF RInv
<1>8. CASE UNCHANGED <<queue, dropped>> /\ sidecar[t] = "pending"
  <2>1. Owes(t)'
    BY <1>1, <1>6, <1>8 DEF Owes
  <2>2. SameTask(t)
    BY <1>1, <1>6, <1>8, <2>1 DEF SameTask
  <2> QED
    BY <1>1, <1>3, <1>5, <2>2, AllSame DEF RInv
<1>9. CASE dropped' = dropped \cup {t}
  BY <1>1, <1>3, <1>5, <1>6, <1>9, DisclaimTask DEF RInv
<1> QED
  BY <1>2, <1>7, <1>8, <1>9

\* The process dies: the keys whose task is on record nowhere are forgotten.
LEMMA CrashRefines ==
    ASSUME RInv, Inv', Crash
    PROVE  VersionsOK' /\ Contract!CNext
<1> DEFINE V == Members(ready) \cup {u \in Scheduled : sidecar[u] # "pending"}
<1>1. /\ wpc' = "idle" /\ ready' = <<>> /\ queue' = <<>> /\ timers' = {}
      /\ vanished' = vanished \cup V
      /\ UNCHANGED <<parquet, lance, sidecar, keyOf, writes, carrier, dropped>>
  BY DEF Crash, durable
<1>2. Members(ready') = {} /\ Scheduled' = {}
  BY <1>1, MembersBasic DEF Scheduled, Held
<1>3. V \in SUBSET Tasks
  BY Numbers DEF RInv
<1>4. \A u \in Members(ready) : sidecar[u] = "none" /\ u \notin dropped
  BY DEF RInv, Inv, FreshOK, LostOK
<1>5. \A u \in Scheduled : u \notin dropped /\ u # None
  BY ScheduledTask DEF RInv
<1>6. VersionsOK'
  BY <1>1 DEF RInv, VersionsOK, Working
<1>7. \A u \in Tasks : Owes(u)' <=> sidecar[u] = "pending"
  BY <1>1, <1>2, Numbers DEF Owes, RInv
<1>8. ASSUME NEW u \in Tasks \ V PROVE SameTask(u)
  <2>1. Owes(u) <=> sidecar[u] = "pending"
    BY <1>8, Numbers DEF Owes, RInv
  <2> QED
    BY <1>1, <1>7, <2>1 DEF SameTask
<1>9. ASSUME NEW u \in V
      PROVE  /\ Owes(u) /\ ~Owes(u)' /\ sidecar[u] # "pending"
             /\ u \notin dropped /\ u \notin dropped' /\ u \in vanished'
  <2>1. Owes(u) /\ sidecar[u] # "pending" /\ u \notin dropped
    BY <1>4, <1>5, <1>9 DEF Owes
  <2> QED
    BY <1>1, <1>3, <1>7, <2>1
<1>10. Contract!CNext
  <2> HIDE DEF V
  <2> QED
    BY <1>1, <1>3, <1>8, <1>9, ForgetTasks DEF RInv
<1> QED
  BY <1>6, <1>10

\* recover_pending on one sidecar entry: the task is owed, even if it had been
\* given up and its last line was lost.
LEMMA RecoverRefines ==
    ASSUME RInv, Inv', RecoverEntry
    PROVE  VersionsOK' /\ [Contract!CNext]_Contract!cvars
<1>1. PICK t \in Tasks : t = cursor + 1
  BY BoundsAssumption DEF RecoverEntry, RInv, Inv, TypeOK, Tasks
<1>2. UNCHANGED <<parquet, lance, sidecar, ready, timers, wpc, wtask,
                  snapshot, keyOf, writes, carrier, vanished>>
  BY DEF RecoverEntry, durable, workerVars
<1>3. \/ UNCHANGED <<queue, dropped>>
      \/ /\ queue' = Append(queue, t) /\ dropped' = dropped \ {t}
         /\ sidecar[t] \in {"pending", "running"}
  BY <1>1 DEF RecoverEntry
<1>4. VersionsOK'
  BY <1>2 DEF RInv, VersionsOK, Working
<1>5. CASE UNCHANGED <<queue, dropped>>
  <2>1. Scheduled' = Scheduled
    BY <1>2, <1>5 DEF Scheduled, Held
  <2>2. \A u \in Tasks : SameTask(u)
    BY <1>2, <1>5, <2>1 DEF SameTask, Owes
  <2> QED
    BY <1>2, <1>4, <2>2, AllSame DEF RInv
<1>6. CASE /\ queue' = Append(queue, t) /\ dropped' = dropped \ {t}
           /\ sidecar[t] \in {"pending", "running"}
  <2>1. Members(queue') = Members(queue) \cup {t}
    BY <1>6, MembersAppend DEF RInv, Inv, TypeOK
  <2>2. Scheduled' = Scheduled \cup {t}
    BY <1>2, <2>1 DEF Scheduled, Held
  <2>3. \A u \in Tasks \ {t} : SameTask(u)
    BY <1>2, <1>6, <2>2 DEF SameTask, Owes
  <2>4. Owes(t)'
    BY <2>2 DEF Owes
  <2>5. t \notin dropped' /\ t \notin vanished'
    BY <1>2, <1>6 DEF RInv, Inv, LostOK, FreshOK
  <2> QED
    BY <1>2, <1>4, <2>3, <2>4, <2>5, AdoptTask DEF RInv
<1> QED
  BY <1>3, <1>5, <1>6

\* get, the start of a process and compaction, which forgets what is done and
\* nothing that is pending: the contract sees nothing of it.
LEMMA OthersRefine ==
    ASSUME RInv, Inv', \/ WorkerTake
                       \/ WorkerPoll
                       \/ Boot
                       \/ RecoverFails
                       \/ StartWorker
                       \/ UNCHANGED vars
    PROVE  VersionsOK' /\ UNCHANGED Contract!cvars
<1>1. /\ UNCHANGED <<parquet, lance, ready, timers, keyOf, writes, carrier,
                     dropped, vanished>>
      /\ \/ UNCHANGED <<wpc, wtask, snapshot>>
         \/ wpc' = "taken"
  BY DEF WorkerTake, WorkerPoll, Boot, RecoverFails, StartWorker, vars, durable,
         procVars, history, workerVars
<1>2. Scheduled' = Scheduled
  <2>1. CASE WorkerTake
    <3>1. queue \in Seq(Tasks) /\ queue # <<>>
      BY <2>1 DEF WorkerTake, RInv, Inv, TypeOK
    <3>2. Members(queue) = {Head(queue)} \cup Members(Tail(queue))
      BY <3>1, MembersTail
    <3>3. /\ queue' = Tail(queue) /\ Held = {} /\ Held' = {Head(queue)}
      BY <2>1 DEF WorkerTake, Held
    <3> QED
      BY <1>1, <3>2, <3>3 DEF Scheduled
  <2>2. CASE UNCHANGED <<queue, wpc, wtask>>
    BY <1>1, <2>2 DEF Scheduled, Held
  <2> QED
    BY <2>1, <2>2 DEF WorkerPoll, Boot, RecoverFails, StartWorker, vars,
                      workerVars
<1>3. \A u \in Tasks : sidecar'[u] = "pending" <=> sidecar[u] = "pending"
  <2>1. CASE StartWorker
    BY <2>1 DEF StartWorker
  <2>2. CASE UNCHANGED sidecar
    BY <2>2
  <2> QED
    BY <2>1, <2>2 DEF WorkerTake, WorkerPoll, Boot, RecoverFails, vars, durable
<1>4. VersionsOK'
  BY <1>1 DEF RInv, VersionsOK, Working
<1>5. \A u \in Tasks : SameTask(u)
  BY <1>1, <1>2, <1>3, Numbers DEF SameTask, Owes, RInv
<1> QED
  BY <1>1, <1>4, <1>5, AllSame DEF RInv

-----------------------------------------------------------------------------
\* Initially nothing is written, owed, given up or forgotten.
LEMMA InitRefines == Init => RInv /\ Contract!CInit
<1> SUFFICES ASSUME Init PROVE RInv /\ Contract!CInit
  OBVIOUS
<1>1. Inv
  BY InitInv
<1>2. VersionsOK
  BY DEF Init, VersionsOK, Working, None
<1>3. \A k \in Keys : carrier[k] = None
  BY DEF Init
<1>4. \A k \in Keys : ~Owes(carrier[k]) /\ carrier[k] \notin dropped \cup vanished
  BY <1>1, <1>3, NoneFree
<1>5. Contract!CInit
  BY <1>4 DEF Init, Contract!CInit, OwedKeys, None
<1> QED
  BY <1>1, <1>2, <1>5 DEF RInv

\* Every step keeps the invariant and is a step of the contract.
LEMMA StepRefines ==
    RInv /\ [Next]_vars => RInv' /\ [Contract!CNext]_Contract!cvars
<1> SUFFICES ASSUME RInv, [Next]_vars
             PROVE  RInv' /\ [Contract!CNext]_Contract!cvars
  OBVIOUS
<1>0. Inv'
  BY NextInv DEF RInv
<1>1. CASE \E k \in Keys : WriteParquet(k)
  BY <1>0, <1>1, WriteRefines DEF RInv
<1>2. CASE RunEnqueue
  BY <1>0, <1>2, DedupRefines, PutRefines, FullRefines DEF RunEnqueue, RInv
<1>3. CASE \/ WorkerTake \/ WorkerPoll \/ Boot \/ RecoverFails \/ StartWorker
           \/ UNCHANGED vars
  BY <1>0, <1>3, OthersRefine DEF RInv
<1>4. CASE \E t \in Tasks : Reenqueue(t)
  BY <1>0, <1>4, ReenqueueRefines DEF RInv
<1>5. CASE WorkerRead \/ SyncDelete \/ SyncAdd
  BY <1>0, <1>5, ReadRefines, TouchRefines DEF RInv
<1>6. CASE MarkDone \/ MarkFailedRetry \/ MarkFailedGiveUp
  BY <1>0, <1>6, DoneRefines, RetryRefines, GiveUpRefines DEF RInv
<1>7. CASE Crash
  BY <1>0, <1>7, CrashRefines DEF RInv
<1>8. CASE RecoverEntry
  BY <1>0, <1>8, RecoverRefines DEF RInv
<1> QED
  BY <1>1, <1>2, <1>3, <1>4, <1>5, <1>6, <1>7, <1>8
     DEF Next, WorkerStep, Restart

\* The queue keeps the contract of the synchronisation: a promise is made by
\* every write; it ends when LanceDB shows the file or the task was given up in
\* the log, and while a sidecar line has the task as pending it ends in no other
\* way (sync_queue.py, for any load, failures, lost lines and crashes).
THEOREM QueueKeepsContract == Spec => ImplementsContract
<1> QED
  BY InitRefines, StepRefines, PTL DEF Spec, ImplementsContract, Contract!CSpec

=============================================================================
