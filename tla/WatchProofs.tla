----------------------------- MODULE WatchProofs -----------------------------
(***************************************************************************)
(* Proofs about Watch, for any finite set of files and any number of       *)
(* watches, loops, changes and failures.                                   *)
(*                                                                         *)
(* The argument: an alive loop is the one that _tasks names, so that a     *)
(* scan finds nothing pending but what it records itself; only a watch     *)
(* that is polled has pending changes, so that an inotify loop that ends   *)
(* with the rest of its batch takes none with it; the lock is held exactly *)
(* as long as a replay is under way, so that nobody shortens or extends    *)
(* the list of dead letters under it.                                      *)
(***************************************************************************)
EXTENDS Watch, FiniteSetTheorems, SequenceTheorems, TLAPS

\* An alive loop works for a watch.
AliveHasWatch == \A l \in Loops : Alive(l) => loop[l].watch \in Watches

\* What _tasks names for a watch is a task that was started for it, unless the
\* task has ended.
CurrentIsMine ==
    \A w \in Watches :
        current[w] # 0 =>
            /\ loop[current[w]].pc # "none"
            /\ loop[current[w]].watch = w \/ loop[current[w]].pc = "done"

\* The lock is held exactly while a replay awaits its entity.
LockIsReplay == lock = "replay" <=> replay # None

\* The entry that a replay has found stays at its place.
ReplayKeepsPlace ==
    replay # None => /\ replay.index \in 1..Len(dead)
                     /\ dead[replay.index] = replay.entry

\* Only a polling scan leaves changes pending.
PendingIsPolled ==
    \A w \in Watches, f \in Files :
        account[w][f] = "pending" => /\ strategy[w] # None
                                     /\ strategy[w].backend = "polling"

\* The inductive invariant: the invariants of the runs and what makes them
\* inductive.
IInv ==
    /\ TypeOK
    /\ AliveHasWatch
    /\ OneLoopPerWatch
    /\ CurrentIsMine
    /\ LockIsReplay
    /\ ReplayKeepsPlace
    /\ PendingIsPolled
    /\ DetectedIsCarried

-----------------------------------------------------------------------------
(* Lists of events.                                                        *)

\* A sequence of the elements of a finite set has each of them.
LEMMA SeqOfSet ==
    ASSUME NEW S, IsFiniteSet(S), NEW q \in SetToSeqs(S)
    PROVE  /\ q \in Seq(S)
           /\ \A x \in S : \E i \in 1..Len(q) : q[i] = x
<1> DEFINE n == Cardinality(S)
<1>1. n \in Nat
  BY FS_CardinalityType
<1>2. q \in [1..n -> S] /\ \A i, j \in 1..n : i # j => q[i] # q[j]
  BY DEF SetToSeqs
<1>3. IsFiniteSet(1..n) /\ Cardinality(1..n) = n
  BY <1>1, FS_Interval
<1>4. q \in Injection(1..n, S)
  BY <1>2 DEF Injection, IsInjective
<1>5. q \in Surjection(1..n, S)
  BY <1>3, <1>4, FS_Injection
<1>6. q \in Seq(S) /\ Len(q) = n
  BY <1>1, <1>2
<1> QED
  BY <1>5, <1>6 DEF Surjection

\* What a scan finds: the list of its events has every file that changed.
LEMMA ScanList ==
    ASSUME NEW w \in Watches, NEW found \in Found(w)
    PROVE  /\ found \in Seq(Events)
           /\ found # <<>> <=> Changed(w) # {}
           /\ \A f \in Changed(w) : \E i \in 1..Len(found) : found[i].file = f
<1>1. IsFiniteSet(Changed(w))
  BY FS_Subset, WatchAssumption DEF WatchAssumption, Changed
<1>2. PICK fs \in SetToSeqs(Changed(w)) :
         found = [i \in DOMAIN fs |-> Event(w, fs[i])]
  BY DEF Found
<1>3. /\ fs \in Seq(Changed(w))
      /\ \A f \in Changed(w) : \E i \in 1..Len(fs) : fs[i] = f
  BY <1>1, SeqOfSet
<1>4. \A f \in Changed(w) : Event(w, f) \in Events /\ Event(w, f).file = f
  BY DEF Changed, Event, EventKind, Events, Kinds
<1>5. /\ Len(fs) \in Nat /\ DOMAIN fs = 1..Len(fs)
      /\ \A i \in 1..Len(fs) : fs[i] \in Changed(w)
  BY <1>3, LenProperties, ElementOfSeq
<1>6. /\ found \in [1..Len(fs) -> Events]
      /\ \A i \in 1..Len(fs) : found[i] = Event(w, fs[i])
  BY <1>2, <1>4, <1>5
<1>7. found \in Seq(Events) /\ Len(found) = Len(fs)
  BY <1>5, <1>6
<1>8. \A f \in Changed(w) : \E i \in 1..Len(found) : found[i].file = f
  BY <1>3, <1>4, <1>6, <1>7
<1>9. Changed(w) = {} => Len(found) = 0
  BY <1>5, <1>7
<1>10. Changed(w) # {} => Len(found) # 0
  BY <1>3, <1>5, <1>7
<1>11. found # <<>> <=> Len(found) # 0
  BY <1>7, EmptySeq
<1> QED
  BY <1>7, <1>8, <1>9, <1>10, <1>11

\* Rest keeps every event but the first.
LEMMA RestKeeps ==
    ASSUME NEW todo \in Seq(Events), todo # <<>>
    PROVE  /\ Head(todo) \in Events
           /\ Tail(todo) \in Seq(Events)
           /\ \A i \in 1..Len(todo) :
                 \/ todo[i] = Head(todo)
                 \/ \E j \in 1..Len(Tail(todo)) : Tail(todo)[j] = todo[i]
<1>1. /\ Head(todo) \in Events /\ Tail(todo) \in Seq(Events)
      /\ Len(Tail(todo)) = Len(todo) - 1 /\ Len(todo) \in Nat
      /\ \A i \in 1..Len(Tail(todo)) : Tail(todo)[i] = todo[i + 1]
  BY HeadTailProperties, LenProperties
<1>2. Head(todo) = todo[1]
  OBVIOUS
<1>3. ASSUME NEW i \in 1..Len(todo), i # 1
      PROVE  \E j \in 1..Len(Tail(todo)) : Tail(todo)[j] = todo[i]
  <2>1. i - 1 \in 1..Len(Tail(todo)) /\ Tail(todo)[i - 1] = todo[i]
    BY <1>1, <1>3
  <2> QED
    BY <2>1
<1> QED
  BY <1>1, <1>2, <1>3

-----------------------------------------------------------------------------
(* The invariant holds initially, and every step preserves each part.      *)

\* Initially there is no watch, no loop and no replay.
LEMMA InitIInv == Init => IInv
<1> SUFFICES ASSUME Init PROVE IInv
  OBVIOUS
<1> USE WatchAssumption DEF WatchAssumption, Init, Loops, Watches
<1>1. TypeOK
  <2>1. kernel \in [Watches -> Seq(Events)] /\ loop \in [Loops -> LoopRecords]
    BY EmptySeq DEF LoopRecords, NoLoop
  <2>2. dead \in Seq(Entries)
    BY EmptySeq
  <2>3. \A l \in Loops : loop[l].todo = <<>> /\ loop[l].pc = "none"
    BY DEF NoLoop
  <2> QED
    BY <2>1, <2>2, <2>3 DEF TypeOK, Fates
<1>2. \A l \in Loops : ~Alive(l)
  BY DEF Alive, NoLoop
<1>3. \A w \in Watches, f \in Files : account[w][f] # "pending"
  OBVIOUS
<1> QED
  BY <1>1, <1>2, <1>3 DEF IInv, AliveHasWatch, OneLoopPerWatch, CurrentIsMine,
     LockIsReplay, ReplayKeepsPlace, PendingIsPolled, DetectedIsCarried

\* A loop that is about to handle an event has one.
LEMMA HasEvent ==
    ASSUME IInv, NEW l \in Loops, At(l, "run") \/ At(l, "creating")
    PROVE  /\ loop[l] \in LoopRecords
           /\ loop[l].watch \in Watches
           /\ loop[l].todo \in Seq(Events) /\ loop[l].todo # <<>>
           /\ Head(loop[l].todo) \in Events
           /\ Head(loop[l].todo).file \in Files
           /\ Tail(loop[l].todo) \in Seq(Events)
<1>1. /\ loop[l] \in LoopRecords /\ loop[l].watch \in Watches
      /\ loop[l].todo \in Seq(Events) /\ loop[l].todo # <<>>
  BY DEF IInv, TypeOK, AliveHasWatch, At, LoopRecords
<1>2. Head(loop[l].todo) \in Events /\ Tail(loop[l].todo) \in Seq(Events)
  BY <1>1, HeadTailProperties
<1> QED
  BY <1>1, <1>2 DEF Events

\* Going to the next event keeps the types of the loops and of the thread.
LEMMA RestTypes ==
    ASSUME IInv, NEW l \in Loops, At(l, "run") \/ At(l, "creating"), Rest(l)
    PROVE  /\ loop' \in [Loops -> LoopRecords]
           /\ running' \in Loops \cup {0}
           /\ running' # 0 => loop'[running'].pc \in {"reading", "run"}
           /\ \A k \in Loops :
                 loop'[k].todo # <<>> <=> loop'[k].pc \in {"run", "creating"}
           /\ \A k \in Loops \ {l} : loop'[k] = loop[k]
           /\ loop'[l].watch = loop[l].watch
           /\ loop'[l].todo = Tail(loop[l].todo)
           /\ loop'[l].pc \in {"sleep", "run"}
<1>1. loop \in [Loops -> LoopRecords]
  BY DEF IInv, TypeOK
<1>2. Tail(loop[l].todo) \in Seq(Events)
  BY HasEvent
<1> DEFINE rest == Tail(loop[l].todo)
           goto == IF rest = <<>> THEN "sleep" ELSE "run"
<1>3. /\ loop' = [loop EXCEPT ![l] = [[@ EXCEPT !.todo = rest] EXCEPT !.pc = goto]]
      /\ goto \in {"sleep", "run"} /\ (rest # <<>> <=> goto = "run")
  BY <1>1 DEF Rest
<1> HIDE DEF rest, goto
<1>4. loop' \in [Loops -> LoopRecords]
  BY <1>1, <1>2, <1>3 DEF LoopRecords, rest
<1>5. \A k \in Loops :
         loop'[k].todo # <<>> <=> loop'[k].pc \in {"run", "creating"}
  BY <1>1, <1>3 DEF IInv, TypeOK, LoopRecords
<1>6. running' # 0 => running' = l /\ Tail(loop[l].todo) # <<>>
  BY DEF Rest
<1>7. running' \in Loops \cup {0}
  BY DEF Rest
<1> QED
  <2>1. running' # 0 => loop'[running'].pc = "run"
    BY <1>1, <1>3, <1>6 DEF LoopRecords, rest
  <2>2. /\ \A k \in Loops \ {l} : loop'[k] = loop[k]
        /\ loop'[l].watch = loop[l].watch
        /\ loop'[l].todo = Tail(loop[l].todo)
        /\ loop'[l].pc \in {"sleep", "run"}
    BY <1>1, <1>3 DEF LoopRecords, rest
  <2> QED
    BY <2>1, <2>2, <1>4, <1>5, <1>7

\* What a loop settles is a fate of a file of its watch.
LEMMA SettleTypes ==
    ASSUME IInv, NEW l \in Loops, At(l, "run") \/ At(l, "creating"),
           NEW what \in Fates, Settle(l, what)
    PROVE  account' \in [Watches -> [Files -> Fates]]
<1>1. account \in [Watches -> [Files -> Fates]]
  BY DEF IInv, TypeOK
<1>2. loop[l].watch \in Watches /\ Head(loop[l].todo).file \in Files
  BY HasEvent
<1> QED
  BY <1>1, <1>2 DEF Settle

\* The changes that a cancelled loop forgets have a fate; a loop that is
\* created has nothing to do yet.
LEMMA RequestTypes ==
    ASSUME IInv
    PROVE  /\ \A w \in Watches : Cancel(w) =>
                 /\ cancelled' \subseteq Loops
                 /\ kernel' \in [Watches -> Seq(Events)]
                 /\ account' \in [Watches -> [Files -> Fates]]
           /\ \A w \in Watches :
                 [NoLoop EXCEPT !.watch = w, !.pc = "start"] \in LoopRecords
           /\ \A r \in LoopRecords : \A l \in Loops :
                 r.todo = <<>> /\ r.pc \notin {"run", "creating"} /\ l # running =>
                    LET new == [loop EXCEPT ![l] = r] IN
                    /\ new \in [Loops -> LoopRecords]
                    /\ running # 0 => new[running].pc \in {"reading", "run"}
                    /\ \A k \in Loops :
                          new[k].todo # <<>> <=> new[k].pc \in {"run", "creating"}
<1> USE DEF IInv, TypeOK
<1>1. ASSUME NEW w \in Watches, Cancel(w)
      PROVE  /\ cancelled' \subseteq Loops
             /\ kernel' \in [Watches -> Seq(Events)]
             /\ account' \in [Watches -> [Files -> Fates]]
  <2>1. cancelled' \subseteq Loops
    BY <1>1 DEF Cancel
  <2>2. kernel' \in [Watches -> Seq(Events)]
    BY <1>1, EmptySeq DEF Cancel
  <2>3. account' \in [Watches -> [Files -> Fates]]
    BY <1>1 DEF Cancel, Forget, Fates
  <2> QED
    BY <2>1, <2>2, <2>3
<1>2. ASSUME NEW w \in Watches
      PROVE  [NoLoop EXCEPT !.watch = w, !.pc = "start"] \in LoopRecords
  BY EmptySeq DEF NoLoop, LoopRecords
<1>3. ASSUME NEW r \in LoopRecords, NEW l \in Loops, r.todo = <<>>,
             r.pc \notin {"run", "creating"}, l # running
      PROVE  LET new == [loop EXCEPT ![l] = r] IN
             /\ new \in [Loops -> LoopRecords]
             /\ running # 0 => new[running].pc \in {"reading", "run"}
             /\ \A k \in Loops :
                   new[k].todo # <<>> <=> new[k].pc \in {"run", "creating"}
  BY <1>3
<1> HIDE DEF IInv, TypeOK
<1> QED
  BY <1>1, <1>2, <1>3

\* Finding the lock taken or free leaves the thread blocked or not.
LEMMA BlockTypes ==
    ASSUME IInv, Block \/ Unlocked
    PROVE  blocked' \in BOOLEAN
<1>1. blocked \in BOOLEAN
  BY DEF IInv, TypeOK
<1> QED
  BY <1>1, Zenon DEF Block, Unlocked

\* Requests keep the types.
LEMMA RequestKeepsTypes ==
    ASSUME IInv, Request
    PROVE  TypeOK'
<1> USE DEF IInv, TypeOK
<1>1. ASSUME NEW b \in {"polling", "inotify"}, NEW c \in {"update", "skip"},
             CreateWatch(b, c)
      PROVE  TypeOK'
  <2>1. PICK w \in Watches :
           \/ Block /\ UNCHANGED <<strategy, hashes, account>>
           \/ /\ Unlocked
              /\ strategy' = [strategy EXCEPT ![w] =
                    [status |-> "initializing", backend |-> b, conflict |-> c]]
              /\ hashes' = [hashes EXCEPT ![w] = [f \in Files |-> None]]
              /\ account' = [account EXCEPT ![w] = [f \in Files |-> "none"]]
    BY <1>1 DEF CreateWatch
  <2>2. /\ strategy' \in [Watches -> Strategies \cup {None}]
        /\ hashes' \in [Watches -> [Files -> Contents \cup {None}]]
        /\ account' \in [Watches -> [Files -> Fates]]
    <3>1. [status |-> "initializing", backend |-> b, conflict |-> c] \in Strategies
      BY DEF Strategies
    <3>2. [f \in Files |-> None] \in [Files -> Contents \cup {None}]
      OBVIOUS
    <3>3. [f \in Files |-> "none"] \in [Files -> Fates]
      BY DEF Fates
    <3>4. strategy' \in [Watches -> Strategies \cup {None}]
      BY <2>1, <3>1
    <3>5. hashes' \in [Watches -> [Files -> Contents \cup {None}]]
      BY <2>1, <3>2
    <3>6. account' \in [Watches -> [Files -> Fates]]
      BY <2>1, <3>3
    <3> QED
      BY <3>4, <3>5, <3>6
  <2>4. blocked' \in BOOLEAN
    BY <2>1, BlockTypes
  <2>3. UNCHANGED <<files, kernel, current, dead, lock, replay, loop, cancelled,
                    running>>
    BY <1>1 DEF CreateWatch, counters
  <2> QED
    BY <2>2, <2>3, <2>4
<1>2. ASSUME NEW w \in Watches, StartWatch(w)
      PROVE  TypeOK'
  <2>1. PICK l \in Loops :
           /\ loop' = [loop EXCEPT ![l] =
                          [NoLoop EXCEPT !.watch = w, !.pc = "start"]]
           /\ current' = [current EXCEPT ![w] = l]
    BY <1>2 DEF StartWatch
  <2>2. running = 0
    BY <1>2 DEF StartWatch, Free
  <2>3. /\ loop' \in [Loops -> LoopRecords]
        /\ \A k \in Loops :
              loop'[k].todo # <<>> <=> loop'[k].pc \in {"run", "creating"}
    <3>1. l # running
      BY <2>2 DEF Loops
    <3> DEFINE new == [NoLoop EXCEPT !.watch = w, !.pc = "start"]
    <3>2. new \in LoopRecords /\ new.todo = <<>> /\ new.pc = "start"
      BY RequestTypes DEF NoLoop
    <3> HIDE DEF new, IInv, TypeOK
    <3>3. LET all == [loop EXCEPT ![l] = new] IN
          /\ all \in [Loops -> LoopRecords]
          /\ \A k \in Loops :
                all[k].todo # <<>> <=> all[k].pc \in {"run", "creating"}
      BY <3>1, <3>2, RequestTypes
    <3> QED
      BY <2>1, <3>3 DEF new
  <2>4. strategy' \in [Watches -> Strategies \cup {None}]
    <3>1. strategy[w] \in Strategies
      BY <1>2 DEF StartWatch, Live
    <3> QED
      BY <1>2, <3>1 DEF StartWatch, Strategies
  <2>5. /\ cancelled' \subseteq Loops
        /\ kernel' \in [Watches -> Seq(Events)]
        /\ account' \in [Watches -> [Files -> Fates]]
    BY <1>2, RequestTypes DEF StartWatch
  <2>6. UNCHANGED <<files, hashes, dead, lock, replay, running, blocked>>
    BY <1>2 DEF StartWatch, counters
  <2>7. current' \in [Watches -> Loops \cup {0}]
    BY <2>1
  <2> QED
    BY <2>2, <2>3, <2>4, <2>5, <2>6, <2>7
<1>3. ASSUME NEW w \in Watches, PauseWatch(w)
      PROVE  TypeOK'
  <2>1. strategy' \in [Watches -> Strategies \cup {None}]
    <3>1. strategy[w] \in Strategies
      BY <1>3 DEF PauseWatch, Live
    <3> QED
      BY <1>3, <3>1 DEF PauseWatch, Strategies
  <2>2. /\ cancelled' \subseteq Loops
        /\ kernel' \in [Watches -> Seq(Events)]
        /\ account' \in [Watches -> [Files -> Fates]]
    BY <1>3, RequestTypes DEF PauseWatch
  <2> QED
    BY <1>3, <2>1, <2>2 DEF PauseWatch, counters
<1>4. ASSUME NEW w \in Watches, StopWatch(w)
      PROVE  TypeOK'
  <2>1. /\ strategy' \in [Watches -> Strategies \cup {None}]
        /\ hashes' \in [Watches -> [Files -> Contents \cup {None}]]
    <3>1. [f \in Files |-> None] \in [Files -> Contents \cup {None}]
      OBVIOUS
    <3>2. strategy' \in [Watches -> Strategies \cup {None}]
      BY <1>4 DEF StopWatch
    <3>3. hashes' \in [Watches -> [Files -> Contents \cup {None}]]
      BY <1>4, <3>1 DEF StopWatch
    <3> QED
      BY <3>2, <3>3
  <2>3. blocked' \in BOOLEAN
    BY <1>4, BlockTypes DEF StopWatch
  <2>2. /\ cancelled' \subseteq Loops
        /\ kernel' \in [Watches -> Seq(Events)]
        /\ account' \in [Watches -> [Files -> Fates]]
    BY <1>4, RequestTypes DEF StopWatch
  <2> QED
    BY <1>4, <2>1, <2>2, <2>3 DEF StopWatch, counters
<1>5. ASSUME Shutdown
      PROVE  TypeOK'
  <2>1. strategy' \in [Watches -> Strategies \cup {None}]
    <3>1. ASSUME NEW w \in Watches, strategy[w] # None
          PROVE  [strategy[w] EXCEPT !.status = "stopped"] \in Strategies
      <4>1. strategy[w] \in Strategies
        BY <3>1
      <4> HIDE DEF IInv, TypeOK
      <4> QED
        BY <4>1 DEF Strategies
    <3> QED
      BY <1>5, <3>1 DEF Shutdown
  <2>2. kernel' \in [Watches -> Seq(Events)]
    BY <1>5, EmptySeq DEF Shutdown
  <2>3. account' \in [Watches -> [Files -> Fates]]
    BY <1>5 DEF Shutdown, Fates
  <2>4. cancelled' \subseteq Loops /\ current' \in [Watches -> Loops \cup {0}]
    BY <1>5 DEF Shutdown, Live
  <2> QED
    BY <1>5, <2>1, <2>2, <2>3, <2>4 DEF Shutdown, counters
<1>6. ASSUME NEW n \in DOMAIN dead, Cleanup(n)
      PROVE  TypeOK'
  <2>1. dead' \in Seq(Entries)
    <3>1. SubSeq(dead, n + 1, Len(dead)) \in Seq(Entries)
      BY SubSeqProperties, LenProperties, ElementOfSeq
    <3> QED
      BY <1>6, <3>1 DEF Cleanup
  <2>2. blocked' \in BOOLEAN
    BY <1>6, BlockTypes DEF Cleanup
  <2> QED
    BY <1>6, <2>1, <2>2 DEF Cleanup, counters
<1>7. ASSUME NEW i \in DOMAIN dead, ReplayStart(dead[i].id)
      PROVE  TypeOK'
  <2>1. PICK j \in DOMAIN dead :
           \/ Block /\ UNCHANGED <<lock, replay>>
           \/ Unlocked /\ lock' = "replay" /\ replay' = [index |-> j, entry |-> dead[j]]
    BY <1>7 DEF ReplayStart
  <2>2. /\ lock' \in {None, "replay"}
        /\ replay' = None \/ replay' \in [index : Nat \ {0}, entry : Entries]
    <3>1. j \in Nat \ {0} /\ dead[j] \in Entries
      BY LenProperties, ElementOfSeq
    <3> QED
      BY <2>1, <3>1
  <2>3. blocked' \in BOOLEAN
    BY <2>1, BlockTypes
  <2> QED
    BY <1>7, <2>2, <2>3 DEF ReplayStart, counters
<1> QED
  BY <1>1, <1>2, <1>3, <1>4, <1>5, <1>6, <1>7 DEF Request

\* The first scan records files under the watch.
LEMMA FirstScanTypes ==
    ASSUME IInv, NEW w \in Watches, FirstScan(w) \/ UNCHANGED <<hashes, account>>
    PROVE  /\ hashes' \in [Watches -> [Files -> Contents \cup {None}]]
           /\ account' \in [Watches -> [Files -> Fates]]
<1>1. [f \in Files |-> "initial"] \in [Files -> Fates]
  BY DEF Fates
<1>2. /\ files \in [Files -> Contents \cup {None}]
      /\ hashes \in [Watches -> [Files -> Contents \cup {None}]]
      /\ account \in [Watches -> [Files -> Fates]]
  BY DEF IInv, TypeOK
<1>3. CASE UNCHANGED <<hashes, account>>
  BY <1>2, <1>3
<1>4. CASE FirstScan(w)
  <2>1. /\ hashes' = [hashes EXCEPT ![w] = files]
        /\ account' = [account EXCEPT ![w] = [f \in Files |-> "initial"]]
    BY <1>4 DEF FirstScan
  <2>2. hashes' \in [Watches -> [Files -> Contents \cup {None}]]
    BY <1>2, <2>1
  <2>3. account' \in [Watches -> [Files -> Fates]]
    BY <1>1, <1>2, <2>1
  <2> QED
    BY <2>2, <2>3
<1> QED
  BY <1>3, <1>4

\* A loop goes from one place where it has nothing to do to another.
LEMMA SetPcTypes ==
    ASSUME loop \in [Loops -> LoopRecords], NEW l \in Loops,
           NEW pc \in {"sleep", "reading"}, loop' = [loop EXCEPT ![l].pc = pc]
    PROVE  /\ loop' \in [Loops -> LoopRecords]
           /\ loop'[l].pc = pc
           /\ loop'[l].watch = loop[l].watch
           /\ \A k \in Loops \ {l} : loop'[k] = loop[k]
           /\ \A k \in Loops : loop'[k].todo = loop[k].todo
<1>1. loop[l] \in LoopRecords
  OBVIOUS
<1>2. /\ [loop[l] EXCEPT !.pc = pc] \in LoopRecords
      /\ [loop[l] EXCEPT !.pc = pc].pc = pc
      /\ [loop[l] EXCEPT !.pc = pc].watch = loop[l].watch
      /\ [loop[l] EXCEPT !.pc = pc].todo = loop[l].todo
  BY <1>1 DEF LoopRecords
<1>3. loop' = [loop EXCEPT ![l] = [loop[l] EXCEPT !.pc = pc]]
  OBVIOUS
<1> QED
  BY <1>2, <1>3

\* The steps of a loop keep the types.
LEMMA LoopKeepsTypes ==
    ASSUME IInv, NEW l \in Loops,
           LoopStep(l) \/ LoopStartFails(l) \/ LoopEndsInError(l)
    PROVE  TypeOK'
<1> USE DEF IInv, TypeOK
<1>1. CASE LoopCancelled(l)
  <2>1. [NoLoop EXCEPT !.pc = "done"] \in LoopRecords
    BY EmptySeq DEF NoLoop, LoopRecords
  <2>2. running = 0
    BY <1>1 DEF LoopCancelled, Free
  <2>3. /\ loop' \in [Loops -> LoopRecords]
        /\ \A k \in Loops :
              loop'[k].todo # <<>> <=> loop'[k].pc \in {"run", "creating"}
    BY <1>1, <2>1, <2>2, RequestTypes DEF LoopCancelled, NoLoop, Loops
  <2> QED
    BY <1>1, <2>2, <2>3 DEF LoopCancelled, service, counters
<1>2. CASE LoopStart(l)
  <2>1. loop[l].watch \in Watches /\ loop[l].pc = "start"
    BY <1>2 DEF LoopStart, At, AliveHasWatch
  <2>2. \/ UNCHANGED <<hashes, account, loop, running>>
        \/ /\ FirstScan(loop[l].watch)
           /\ \/ loop' = [loop EXCEPT ![l].pc = "sleep"] /\ UNCHANGED running
              \/ loop' = [loop EXCEPT ![l].pc = "reading"] /\ running' = l
    BY <1>2 DEF LoopStart
  <2>3. /\ hashes' \in [Watches -> [Files -> Contents \cup {None}]]
        /\ account' \in [Watches -> [Files -> Fates]]
    BY <2>1, <2>2, FirstScanTypes
  <2>4. /\ loop' \in [Loops -> LoopRecords]
        /\ running' \in Loops \cup {0}
        /\ running' # 0 => loop'[running'].pc \in {"reading", "run"}
        /\ \A k \in Loops :
              loop'[k].todo # <<>> <=> loop'[k].pc \in {"run", "creating"}
    <3>1. loop[l].todo = <<>> /\ (running # 0 => running # l)
      BY <2>1
    <3>2. CASE UNCHANGED <<loop, running>>
      BY <3>2
    <3>3. ASSUME NEW pc \in {"sleep", "reading"}, loop' = [loop EXCEPT ![l].pc = pc]
          PROVE  /\ loop' \in [Loops -> LoopRecords]
                 /\ loop'[l].pc = pc
                 /\ \A k \in Loops \ {l} : loop'[k] = loop[k]
                 /\ \A k \in Loops : loop'[k].todo = loop[k].todo
      BY <3>3, SetPcTypes
    <3>4. CASE loop' = [loop EXCEPT ![l].pc = "sleep"] /\ UNCHANGED running
      <4>1. /\ loop' \in [Loops -> LoopRecords]
            /\ loop'[l].pc = "sleep"
            /\ \A k \in Loops \ {l} : loop'[k] = loop[k]
            /\ \A k \in Loops : loop'[k].todo = loop[k].todo
        BY <3>3, <3>4
      <4> QED
        BY <3>1, <3>4, <4>1
    <3>5. CASE loop' = [loop EXCEPT ![l].pc = "reading"] /\ running' = l
      <4>1. /\ loop' \in [Loops -> LoopRecords]
            /\ loop'[l].pc = "reading"
            /\ \A k \in Loops \ {l} : loop'[k] = loop[k]
            /\ \A k \in Loops : loop'[k].todo = loop[k].todo
        BY <3>3, <3>5
      <4> QED
        BY <3>1, <3>5, <4>1
    <3> QED
      BY <2>2, <3>2, <3>4, <3>5
  <2>5. blocked' \in BOOLEAN
    BY <1>2, BlockTypes DEF LoopStart
  <2>6. UNCHANGED <<files, kernel, strategy, current, dead, lock, replay, cancelled>>
    BY <1>2 DEF LoopStart
  <2> QED
    BY <2>3, <2>4, <2>5, <2>6
<1>10. CASE LoopStartFails(l)
  <2>1. loop[l].watch \in Watches /\ loop[l].pc = "start" /\ running # l
    BY <1>10 DEF LoopStartFails, At, AliveHasWatch, Loops
  <2>2. [NoLoop EXCEPT !.pc = "done"] \in LoopRecords
    BY EmptySeq DEF NoLoop, LoopRecords
  <2>3. /\ loop' \in [Loops -> LoopRecords]
        /\ running # 0 => loop'[running].pc \in {"reading", "run"}
        /\ \A k \in Loops :
              loop'[k].todo # <<>> <=> loop'[k].pc \in {"run", "creating"}
    <3> DEFINE new == [NoLoop EXCEPT !.pc = "done"]
    <3>1. new \in LoopRecords /\ new.todo = <<>> /\ new.pc = "done"
      BY <2>2 DEF NoLoop
    <3>2. loop' = [loop EXCEPT ![l] = new] /\ running' = running
      BY <1>10 DEF LoopStartFails
    <3> HIDE DEF new, IInv, TypeOK
    <3>3. LET all == [loop EXCEPT ![l] = new] IN
          /\ all \in [Loops -> LoopRecords]
          /\ running # 0 => all[running].pc \in {"reading", "run"}
          /\ \A k \in Loops :
                all[k].todo # <<>> <=> all[k].pc \in {"run", "creating"}
      BY <2>1, <3>1, RequestTypes
    <3> QED
      BY <3>2, <3>3
  <2>4. strategy' \in [Watches -> Strategies \cup {None}]
    <3>1. strategy[loop[l].watch] \in Strategies
      BY <1>10, <2>1 DEF LoopStartFails, At, OneLoopPerWatch
    <3>2. \/ UNCHANGED strategy
          \/ strategy' = [strategy EXCEPT ![loop[l].watch].status = "error"]
      BY <1>10 DEF LoopStartFails
    <3>3. CASE strategy' = [strategy EXCEPT ![loop[l].watch].status = "error"]
      BY <2>1, <3>1, <3>3 DEF Strategies
    <3> QED
      BY <3>2, <3>3
  <2>5. /\ hashes' \in [Watches -> [Files -> Contents \cup {None}]]
        /\ account' \in [Watches -> [Files -> Fates]]
    <3>1. UNCHANGED <<hashes, account>> \/ FirstScan(loop[l].watch)
      BY <1>10 DEF LoopStartFails
    <3> QED
      BY <2>1, <3>1, FirstScanTypes
  <2>6. UNCHANGED <<files, kernel, current, dead, lock, replay, cancelled,
                    running, blocked>>
    BY <1>10 DEF LoopStartFails
  <2> QED
    BY <2>3, <2>4, <2>5, <2>6
<1>3. CASE LoopScan(l)
  <2>1. PICK w \in Watches : w = loop[l].watch
    BY <1>3 DEF LoopScan, At, AliveHasWatch
  <2>2. hashes' \in [Watches -> [Files -> Contents \cup {None}]]
    BY <1>3, <2>1 DEF LoopScan
  <2>3. account' \in [Watches -> [Files -> Fates]]
    <3>1. \/ account' = account
          \/ account' = [account EXCEPT ![w] =
                [f \in Files |-> IF f \in Changed(w) THEN "pending" ELSE @[f]]]
      BY <1>3, <2>1 DEF LoopScan
    <3> QED
      BY <3>1 DEF Fates
  <2>4. /\ loop' \in [Loops -> LoopRecords]
        /\ running' \in Loops \cup {0}
        /\ running' # 0 => loop'[running'].pc \in {"reading", "run"}
        /\ \A k \in Loops :
              loop'[k].todo # <<>> <=> loop'[k].pc \in {"run", "creating"}
    <3>1. CASE UNCHANGED <<loop, running>>
      BY <3>1
    <3>2. CASE ~UNCHANGED <<loop, running>>
      <4>1. PICK found \in Found(w) :
               /\ found # <<>>
               /\ loop' = [loop EXCEPT ![l] =
                              [watch |-> w, pc |-> "run", todo |-> found]]
               /\ running' = l
        BY <1>3, <2>1, <3>2 DEF LoopScan
      <4>2. found \in Seq(Events)
        BY <4>1, ScanList
      <4> QED
        BY <4>1, <4>2 DEF LoopRecords
    <3> QED
      BY <3>1, <3>2
  <2>5. blocked' \in BOOLEAN
    BY <1>3, BlockTypes DEF LoopScan
  <2> QED
    BY <1>3, <2>2, <2>3, <2>4, <2>5 DEF LoopScan, counters
<1>4. CASE LoopEndsInError(l)
  <2>1. loop[l].watch \in Watches
    BY <1>4 DEF LoopEndsInError, At, AliveHasWatch
  <2>2. [NoLoop EXCEPT !.pc = "done"] \in LoopRecords
    BY EmptySeq DEF NoLoop, LoopRecords
  <2>3. /\ loop' \in [Loops -> LoopRecords]
        /\ \A k \in Loops :
              loop'[k].todo # <<>> <=> loop'[k].pc \in {"run", "creating"}
    <3>1. loop' = [loop EXCEPT ![l] = [NoLoop EXCEPT !.pc = "done"]]
      BY <1>4 DEF LoopEndsInError
    <3>2. /\ [NoLoop EXCEPT !.pc = "done"].todo = <<>>
          /\ [NoLoop EXCEPT !.pc = "done"].pc = "done"
      BY DEF NoLoop
    <3> QED
      BY <2>2, <3>1, <3>2
  <2>4. strategy' \in [Watches -> Strategies \cup {None}]
    <3>1. strategy[loop[l].watch] \in Strategies
      BY <1>4, <2>1 DEF LoopEndsInError, At, OneLoopPerWatch
    <3>2. strategy' = [strategy EXCEPT ![loop[l].watch].status = "error"]
      BY <1>4 DEF LoopEndsInError
    <3> QED
      BY <2>1, <3>1, <3>2 DEF Strategies
  <2>5. kernel' \in [Watches -> Seq(Events)]
    BY <1>4, EmptySeq DEF LoopEndsInError
  <2>6. /\ UNCHANGED <<files, hashes, current, dead, lock, replay, cancelled,
                       blocked, account>>
        /\ running' = 0
    BY <1>4 DEF LoopEndsInError
  <2> QED
    BY <2>3, <2>4, <2>5, <2>6
<1>5. CASE LoopRead(l)
  <2>1. /\ loop[l].watch \in Watches /\ loop[l].pc = "reading"
        /\ kernel[loop[l].watch] \in Seq(Events)
    BY <1>5 DEF LoopRead, At, AliveHasWatch
  <2>0. PICK events \in Seq(Events), pc \in {"sleep", "run"} :
           /\ loop' = [loop EXCEPT ![l].todo = events, ![l].pc = pc]
           /\ events # <<>> <=> pc = "run"
           /\ running' = IF events = <<>> THEN 0 ELSE l
    <3>1. \/ kernel[loop[l].watch] = <<>> /\ "sleep" = IF kernel[loop[l].watch] = <<>> THEN "sleep" ELSE "run"
          \/ kernel[loop[l].watch] # <<>> /\ "run" = IF kernel[loop[l].watch] = <<>> THEN "sleep" ELSE "run"
      OBVIOUS
    <3> QED
      BY <1>5, <2>1, <3>1 DEF LoopRead
  <2>2. /\ loop' \in [Loops -> LoopRecords]
        /\ loop'[l].pc = pc
        /\ \A k \in Loops :
              loop'[k].todo # <<>> <=> loop'[k].pc \in {"run", "creating"}
    <3>1. loop' = [loop EXCEPT ![l] = [[@ EXCEPT !.todo = events] EXCEPT !.pc = pc]]
      BY <2>0
    <3>2. loop[l] \in LoopRecords
      OBVIOUS
    <3> DEFINE new == [[loop[l] EXCEPT !.todo = events] EXCEPT !.pc = pc]
    <3>3. new \in LoopRecords /\ new.todo = events /\ new.pc = pc
      BY <3>2 DEF LoopRecords
    <3>4. loop' = [loop EXCEPT ![l] = new]
      BY <3>1
    <3> HIDE DEF new
    <3>5. /\ loop' \in [Loops -> LoopRecords] /\ loop'[l] = new
          /\ \A k \in Loops \ {l} : loop'[k] = loop[k]
      BY <3>3, <3>4
    <3>6. \A k \in Loops \ {l} :
             loop[k].todo # <<>> <=> loop[k].pc \in {"run", "creating"}
      OBVIOUS
    <3> QED
      <4> HIDE DEF IInv, TypeOK
      <4>1. loop'[l].todo = events /\ loop'[l].pc = pc
        BY <3>3, <3>5
      <4> QED
        BY <2>0, <3>5, <3>6, <4>1
  <2>3. kernel' \in [Watches -> Seq(Events)]
    BY <1>5, <2>1, EmptySeq DEF LoopRead
  <2>4. UNCHANGED <<files, strategy, hashes, current, dead, lock, replay,
                    cancelled, blocked, account>>
    BY <1>5 DEF LoopRead, service
  <2>5. /\ running' \in Loops \cup {0}
        /\ running' # 0 => loop'[running'].pc \in {"reading", "run"}
    BY <2>0, <2>2
  <2> QED
    BY <2>2, <2>3, <2>4, <2>5
<1>11. CASE LoopWake(l)
  <2>1. loop[l].pc = "sleep" /\ loop[l].todo = <<>>
    BY <1>11 DEF LoopWake, At
  <2>2. loop' = [loop EXCEPT ![l].pc = "reading"] /\ running' = l
    BY <1>11 DEF LoopWake
  <2>3. /\ loop' \in [Loops -> LoopRecords]
        /\ loop'[l].pc = "reading"
        /\ \A k \in Loops \ {l} : loop'[k] = loop[k]
        /\ \A k \in Loops : loop'[k].todo = loop[k].todo
    BY <2>2, SetPcTypes
  <2>4. UNCHANGED <<files, kernel, strategy, hashes, current, dead, lock,
                    replay, cancelled, blocked, account>>
    BY <1>11 DEF LoopWake, service
  <2> QED
    BY <2>1, <2>2, <2>3, <2>4
<1>6. CASE LoopSkip(l)
  <2>1. At(l, "run") /\ Rest(l) /\ Settle(l, "handled")
    BY <1>6 DEF LoopSkip
  <2> QED
    BY <1>6, <2>1, RestTypes, SettleTypes DEF LoopSkip, service, counters, Fates
<1>7. CASE LoopBegin(l)
  <2>1. /\ loop' \in [Loops -> LoopRecords]
        /\ \A k \in Loops :
              loop'[k].todo # <<>> <=> loop'[k].pc \in {"run", "creating"}
    <3>1. loop' = [loop EXCEPT ![l].pc = "creating"] /\ loop[l].pc = "run"
      BY <1>7 DEF LoopBegin, At
    <3>2. loop[l].todo # <<>> /\ loop \in [Loops -> LoopRecords]
      BY <3>1
    <3>3. /\ loop' \in [Loops -> LoopRecords]
          /\ \A k \in Loops : loop'[k].todo = loop[k].todo
          /\ \A k \in Loops \ {l} : loop'[k].pc = loop[k].pc
          /\ loop'[l].pc = "creating"
      <4> HIDE DEF IInv, TypeOK
      <4> QED
        BY <3>1, <3>2 DEF LoopRecords
    <3> QED
      BY <3>2, <3>3
  <2> QED
    BY <1>7, <2>1 DEF LoopBegin, service, counters
<1>8. CASE LoopCreated(l)
  <2>1. At(l, "creating") /\ Rest(l) /\ Settle(l, "handled")
    BY <1>8 DEF LoopCreated
  <2> QED
    BY <1>8, <2>1, RestTypes, SettleTypes DEF LoopCreated, service, counters, Fates
<1>9. CASE LoopFails(l)
  <2>1. At(l, "run") \/ At(l, "creating")
    BY <1>9 DEF LoopFails
  <2>2. CASE Block /\ UNCHANGED <<dead, account, loop, running>>
    BY <1>9, <2>2, BlockTypes DEF LoopFails
  <2>3. CASE /\ Unlocked
             /\ dead' = Append(dead, [id |-> Len(dead),
                                      file |-> Head(loop[l].todo).file])
             /\ Settle(l, "dead") /\ Rest(l)
    <3>1. dead' \in Seq(Entries)
      <4>1. [id |-> Len(dead), file |-> Head(loop[l].todo).file] \in Entries
        BY <2>1, HasEvent, LenProperties DEF Entries
      <4> QED
        BY <2>3, <4>1, AppendProperties
    <3>2. account' \in [Watches -> [Files -> Fates]]
      BY <2>1, <2>3, SettleTypes DEF Fates
    <3> QED
      BY <1>9, <2>1, <2>3, <3>1, <3>2, RestTypes, BlockTypes DEF LoopFails
  <2> QED
    BY <1>9, <2>2, <2>3 DEF LoopFails
<1> QED
  BY <1>1, <1>2, <1>3, <1>4, <1>5, <1>6, <1>7, <1>8, <1>9, <1>10, <1>11 DEF LoopStep

\* Every step keeps the types.
LEMMA NextTypes == IInv /\ [Next]_vars => TypeOK'
<1> SUFFICES ASSUME IInv, [Next]_vars PROVE TypeOK'
  OBVIOUS
<1>1. CASE UNCHANGED vars
  BY <1>1 DEF IInv, TypeOK, vars, service, bus, counters
<1>2. ASSUME NEW f \in Files, NEW c \in Contents \cup {None}, Change(f, c)
      PROVE  TypeOK'
  <2>1. files' \in [Files -> Contents \cup {None}]
    BY <1>2 DEF Change, IInv, TypeOK
  <2>2. [kind |-> RawKind(f, c), file |-> f] \in Events
    BY DEF RawKind, Events, Kinds
  <2>3. kernel' \in [Watches -> Seq(Events)]
    BY <1>2, <2>2, AppendProperties DEF Change, IInv, TypeOK
  <2> QED
    BY <1>2, <2>1, <2>3 DEF Change, IInv, TypeOK, service, bus
<1>3. CASE Request
  BY <1>3, RequestKeepsTypes
<1>4. CASE ReplayEnd
  <2>1. dead' \in Seq(Entries)
    <3>1. CASE ReplayFails
      BY <3>1 DEF ReplayFails, IInv, TypeOK
    <3>2. CASE ReplayDone
      <4>1. /\ dead \in Seq(Entries) /\ Len(dead) \in Nat
            /\ replay.index \in 1..Len(dead)
        BY <3>2, LenProperties DEF ReplayDone, IInv, TypeOK, ReplayKeepsPlace
      <4>2. /\ SubSeq(dead, 1, replay.index - 1) \in Seq(Entries)
            /\ SubSeq(dead, replay.index + 1, Len(dead)) \in Seq(Entries)
        BY <4>1, SubSeqProperties, ElementOfSeq
      <4> QED
        BY <3>2, <4>2, ConcatProperties DEF ReplayDone, RemoveAt
    <3> QED
      BY <1>4, <3>1, <3>2 DEF ReplayEnd
  <2> QED
    BY <1>4, <2>1 DEF ReplayEnd, ReplayDone, ReplayFails, IInv, TypeOK, bus,
       counters
<1>5. ASSUME NEW l \in Loops,
           LoopStep(l) \/ LoopStartFails(l) \/ LoopEndsInError(l)
      PROVE  TypeOK'
  BY <1>5, LoopKeepsTypes
<1> QED
  BY <1>1, <1>2, <1>3, <1>4, <1>5 DEF Next

\* Every step keeps the lock and the replay together, and the entry that the
\* replay has found in its place: who changes the list of dead letters has
\* found the lock free.
LEMMA NextLock ==
    ASSUME IInv, [Next]_vars
    PROVE  LockIsReplay' /\ ReplayKeepsPlace'
<1> USE WatchAssumption DEF WatchAssumption
<1> DEFINE Kept == LockIsReplay' /\ ReplayKeepsPlace'
<1>1. ASSUME UNCHANGED <<lock, replay, dead>>
      PROVE  Kept
  BY <1>1 DEF IInv, TypeOK, LockIsReplay, ReplayKeepsPlace
<1>2. ASSUME Unlocked, UNCHANGED <<lock, replay>>
      PROVE  Kept
  BY <1>2 DEF IInv, TypeOK, LockIsReplay, ReplayKeepsPlace, Unlocked
<1>5. CASE UNCHANGED vars
  BY <1>1, <1>5 DEF vars, service, bus
<1>6. ASSUME NEW f \in Files, NEW c \in Contents \cup {None}, Change(f, c)
      PROVE  Kept
  BY <1>1, <1>6 DEF Change, service, bus
<1>7. CASE Request
  <2>1. ASSUME NEW b, NEW c, CreateWatch(b, c) PROVE Kept
    BY <1>1, <2>1 DEF CreateWatch
  <2>2. ASSUME NEW w \in Watches, StartWatch(w) \/ PauseWatch(w) PROVE Kept
    BY <1>1, <2>2 DEF StartWatch, PauseWatch
  <2>3. ASSUME NEW w \in Watches, StopWatch(w) PROVE Kept
    BY <1>1, <2>3 DEF StopWatch
  <2>4. CASE Shutdown
    BY <1>1, <2>4 DEF Shutdown
  <2>5. ASSUME NEW n, Cleanup(n) PROVE Kept
    BY <1>1, <1>2, <2>5 DEF Cleanup
  <2>6. ASSUME NEW id, ReplayStart(id) PROVE Kept
    <3>1. PICK i \in DOMAIN dead :
             \/ Block /\ UNCHANGED <<lock, replay>>
             \/ /\ Unlocked /\ lock' = "replay"
                /\ replay' = [index |-> i, entry |-> dead[i]]
      BY <2>6 DEF ReplayStart
    <3>2. UNCHANGED dead
      BY <2>6 DEF ReplayStart
    <3>3. CASE Block /\ UNCHANGED <<lock, replay>>
      BY <1>1, <3>2, <3>3
    <3>4. CASE /\ Unlocked /\ lock' = "replay"
               /\ replay' = [index |-> i, entry |-> dead[i]]
      <4>0. dead \in Seq(Entries)
        BY DEF IInv, TypeOK
      <4>1. /\ DOMAIN dead = 1..Len(dead) /\ i \in Nat
            /\ dead[i] \in [id : Nat, file : Files]
        <5>1. DOMAIN dead = 1..Len(dead) /\ Len(dead) \in Nat
          BY <4>0, LenProperties
        <5>2. dead[i] \in Entries
          BY <4>0, <5>1, ElementOfSeq
        <5> QED
          BY <5>1, <5>2 DEF Entries
      <4>2. replay' # None
        BY <3>4, <4>1
      <4> QED
        BY <3>2, <3>4, <4>1, <4>2 DEF LockIsReplay, ReplayKeepsPlace
    <3> QED
      BY <3>1, <3>3, <3>4
  <2> QED
    BY <1>7, <2>1, <2>2, <2>3, <2>4, <2>5, <2>6 DEF Request
<1>8. CASE ReplayEnd
  BY <1>8 DEF ReplayEnd, ReplayDone, ReplayFails, Free, bus, LockIsReplay,
     ReplayKeepsPlace
<1>9. ASSUME NEW l \in Loops,
           LoopStep(l) \/ LoopStartFails(l) \/ LoopEndsInError(l)
      PROVE  Kept
  <2>1. CASE LoopCancelled(l) \/ LoopStartFails(l) \/ LoopEndsInError(l)
    BY <1>1, <2>1 DEF LoopCancelled, LoopStartFails, LoopEndsInError, service
  <2>2. CASE LoopStart(l)
    BY <1>1, <2>2 DEF LoopStart
  <2>3. CASE LoopScan(l)
    BY <1>1, <2>3 DEF LoopScan
  <2>4. CASE LoopWake(l) \/ LoopRead(l) \/ LoopSkip(l) \/ LoopBegin(l) \/ LoopCreated(l)
    BY <1>1, <2>4 DEF LoopWake, LoopRead, LoopSkip, LoopBegin, LoopCreated, service
  <2>5. CASE LoopFails(l)
    BY <1>1, <1>2, <2>5 DEF LoopFails
  <2> QED
    BY <1>9, <2>1, <2>2, <2>3, <2>4, <2>5 DEF LoopStep
<1> QED
  BY <1>5, <1>6, <1>7, <1>8, <1>9 DEF Next

\* Every step leaves an alive loop the one that _tasks names: whoever changes
\* the entry of a watch, or the watch, has cancelled its loop.
LEMMA NextOwned ==
    ASSUME IInv, [Next]_vars
    PROVE  AliveHasWatch' /\ OneLoopPerWatch'
<1> DEFINE Owned == AliveHasWatch' /\ OneLoopPerWatch'
<1> USE WatchAssumption DEF WatchAssumption
<1>1. \A l \in Loops : Alive(l) =>
         /\ loop[l].watch \in Watches /\ l # 0
         /\ current[loop[l].watch] = l
         /\ strategy[loop[l].watch] \in Strategies
         /\ strategy[loop[l].watch].status = "active"
  BY DEF IInv, AliveHasWatch, OneLoopPerWatch, TypeOK, Loops
<1>2. ASSUME \A l \in Loops : Alive(l)' =>
                /\ Alive(l) /\ loop'[l].watch = loop[l].watch
                /\ current'[loop[l].watch] = current[loop[l].watch]
                /\ strategy'[loop[l].watch] = strategy[loop[l].watch]
      PROVE  Owned
  BY <1>1, <1>2 DEF AliveHasWatch, OneLoopPerWatch
<1>4. ASSUME UNCHANGED <<loop, cancelled, current, strategy>>
      PROVE  Owned
  BY <1>2, <1>4 DEF Alive
<1>5. CASE UNCHANGED vars
  BY <1>4, <1>5 DEF vars, service, bus
<1>6. ASSUME NEW f, NEW c, Change(f, c)
      PROVE  Owned
  BY <1>4, <1>6 DEF Change, service, bus
<1>7. CASE Request
  <2>1. ASSUME NEW b, NEW c, CreateWatch(b, c) PROVE Owned
    <3>1. PICK w \in Watches :
             /\ strategy[w] = None
             /\ \/ UNCHANGED strategy
                \/ strategy' = [strategy EXCEPT ![w] =
                      [status |-> "initializing", backend |-> b, conflict |-> c]]
      BY <2>1 DEF CreateWatch
    <3>2. UNCHANGED <<loop, cancelled, current>>
      BY <2>1 DEF CreateWatch
    <3>3. ASSUME NEW l \in Loops, Alive(l)'
          PROVE  /\ Alive(l)
                 /\ strategy'[loop[l].watch] = strategy[loop[l].watch]
      <4>1. Alive(l)
        BY <3>2, <3>3 DEF Alive
      <4>2. loop[l].watch # w
        BY <1>1, <3>1, <4>1
      <4> QED
        BY <1>1, <3>1, <4>1, <4>2 DEF IInv, TypeOK
    <3> QED
      BY <1>2, <3>2, <3>3
  <2>2. ASSUME NEW w \in Watches, StartWatch(w) PROVE Owned
    <3>1. PICK l \in Loops :
             /\ loop[l].pc = "none"
             /\ loop' = [loop EXCEPT ![l] =
                            [NoLoop EXCEPT !.watch = w, !.pc = "start"]]
             /\ current' = [current EXCEPT ![w] = l]
      BY <2>2 DEF StartWatch
    <3>2. /\ strategy' = [strategy EXCEPT ![w].status = "active"]
          /\ cancelled' = IF current[w] = 0 THEN cancelled
                          ELSE cancelled \cup {current[w]}
          /\ strategy[w] \in Strategies
      BY <2>2 DEF StartWatch, Cancel, Live, IInv, TypeOK
    <3>3. ASSUME NEW k \in Loops, Alive(k)', k # l
          PROVE  /\ loop'[k].watch \in Watches
                 /\ current'[loop'[k].watch] = k
                 /\ strategy'[loop'[k].watch] # None
                 /\ strategy'[loop'[k].watch].status = "active"
      <4>1. loop'[k] = loop[k] /\ Alive(k)
        BY <3>1, <3>2, <3>3 DEF Alive, IInv, TypeOK
      <4>2. loop[k].watch # w
        BY <1>1, <3>2, <3>3, <4>1 DEF Alive
      <4>3. /\ loop[k].watch \in Watches /\ current[loop[k].watch] = k
            /\ strategy[loop[k].watch] # None
            /\ strategy[loop[k].watch].status = "active"
        BY <1>1, <4>1
      <4>4. /\ current'[loop[k].watch] = current[loop[k].watch]
            /\ strategy'[loop[k].watch] = strategy[loop[k].watch]
        BY <3>1, <3>2, <4>2, <4>3 DEF IInv, TypeOK
      <4> QED
        BY <4>1, <4>3, <4>4
    <3>4. /\ loop'[l].watch = w /\ current'[w] = l
          /\ strategy'[w] # None /\ strategy'[w].status = "active"
      BY <3>1, <3>2 DEF NoLoop, IInv, TypeOK, Strategies
    <3> QED
      BY <3>3, <3>4 DEF AliveHasWatch, OneLoopPerWatch
  <2>3. ASSUME NEW w \in Watches, PauseWatch(w) \/ StopWatch(w) PROVE Owned
    <3>1. /\ cancelled' = IF current[w] = 0 THEN cancelled
                          ELSE cancelled \cup {current[w]}
          /\ current' = [current EXCEPT ![w] = 0]
          /\ UNCHANGED loop
          /\ \A v \in Watches \ {w} : strategy'[v] = strategy[v]
      BY <2>3 DEF PauseWatch, StopWatch, Cancel, IInv, TypeOK
    <3>2. ASSUME NEW k \in Loops, Alive(k)'
          PROVE  Alive(k) /\ loop[k].watch # w
      <4>1. Alive(k)
        BY <3>1, <3>2 DEF Alive
      <4> QED
        BY <1>1, <3>1, <3>2, <4>1 DEF Alive
    <3> QED
      BY <1>1, <1>2, <3>1, <3>2 DEF IInv, TypeOK
  <2>4. CASE Shutdown
    <3>1. ASSUME NEW k \in Loops, Alive(k)'
          PROVE  FALSE
      <4>1. Alive(k)
        BY <2>4, <3>1 DEF Shutdown, Alive
      <4>2. loop[k].watch \in Live /\ current[loop[k].watch] = k /\ k # 0
        BY <1>1, <4>1 DEF Live
      <4>3. k \in cancelled'
        BY <2>4, <4>2 DEF Shutdown
      <4> QED
        BY <3>1, <4>3 DEF Alive
    <3> QED
      BY <1>2, <3>1
  <2>5. ASSUME NEW n, Cleanup(n) PROVE Owned
    BY <1>4, <2>5 DEF Cleanup
  <2>6. ASSUME NEW id, ReplayStart(id) PROVE Owned
    BY <1>4, <2>6 DEF ReplayStart
  <2> QED
    BY <1>7, <2>1, <2>2, <2>3, <2>4, <2>5, <2>6 DEF Request
<1>8. CASE ReplayEnd
  BY <1>4, <1>8 DEF ReplayEnd, ReplayDone, ReplayFails, bus
<1>9. ASSUME NEW l \in Loops,
           LoopStep(l) \/ LoopStartFails(l) \/ LoopEndsInError(l)
      PROVE  Owned
  <2> loop \in [Loops -> LoopRecords]
    BY DEF IInv, TypeOK
  <2>1. CASE LoopCancelled(l)
    <3>1. ASSUME NEW k \in Loops, Alive(k)'
          PROVE  Alive(k) /\ loop'[k] = loop[k]
      BY <2>1, <3>1 DEF LoopCancelled, NoLoop, Alive
    <3> QED
      BY <1>2, <2>1, <3>1 DEF LoopCancelled, service
  <2>2. CASE LoopStartFails(l) \/ LoopEndsInError(l)
    <3>0. /\ Alive(l) /\ UNCHANGED <<current, cancelled>>
          /\ loop' = [loop EXCEPT ![l] = [NoLoop EXCEPT !.pc = "done"]]
          /\ \A w \in Watches \ {loop[l].watch} : strategy'[w] = strategy[w]
      BY <2>2 DEF LoopStartFails, LoopEndsInError, At, IInv, TypeOK
    <3>1. ASSUME NEW k \in Loops, Alive(k)'
          PROVE  Alive(k) /\ k # l /\ loop'[k] = loop[k]
      BY <3>0, <3>1 DEF NoLoop, Alive
    <3>2. ASSUME NEW k \in Loops, Alive(k)'
          PROVE  loop[k].watch # loop[l].watch /\ loop[k].watch \in Watches
      BY <1>1, <3>0, <3>1, <3>2
    <3> QED
      BY <1>2, <3>0, <3>1, <3>2
  <2>3. ASSUME UNCHANGED <<current, strategy, cancelled>>, Alive(l),
               \A k \in Loops \ {l} : loop'[k] = loop[k],
               loop'[l].watch = loop[l].watch
        PROVE  Owned
    <3>1. \A k \in Loops : Alive(k)' => Alive(k) /\ loop'[k].watch = loop[k].watch
      BY <2>3 DEF Alive
    <3> QED
      BY <1>2, <2>3, <3>1
  <2>4. CASE LoopStart(l)
    <3>1. loop' = loop \/ \E pc \in {"sleep", "reading"} : loop' = [loop EXCEPT ![l].pc = pc]
      BY <2>4 DEF LoopStart
    <3>2. /\ \A k \in Loops \ {l} : loop'[k] = loop[k]
          /\ loop'[l].watch = loop[l].watch
      BY <3>1, SetPcTypes
    <3> QED
      BY <2>3, <2>4, <3>2 DEF LoopStart, At
  <2>5. CASE LoopScan(l)
    <3>1. loop' = loop \/ \E t : loop' = [loop EXCEPT ![l] =
             [watch |-> loop[l].watch, pc |-> "run", todo |-> t]]
      BY <2>5 DEF LoopScan
    <3>2. /\ \A k \in Loops \ {l} : loop'[k] = loop[k]
          /\ loop'[l].watch = loop[l].watch
      BY <3>1
    <3> QED
      BY <2>3, <2>5, <3>2 DEF LoopScan, At
  <2>6. CASE LoopRead(l)
    <3>1. PICK todo, pc : loop' = [loop EXCEPT ![l].todo = todo, ![l].pc = pc]
      BY <2>6 DEF LoopRead
    <3>2. /\ \A k \in Loops \ {l} : loop'[k] = loop[k]
          /\ loop'[l].watch = loop[l].watch
      BY <3>1 DEF LoopRecords
    <3> QED
      BY <2>3, <2>6, <3>2 DEF LoopRead, At, service
  <2>10. CASE LoopWake(l)
    <3>1. loop' = [loop EXCEPT ![l].pc = "reading"]
      BY <2>10 DEF LoopWake
    <3>2. /\ \A k \in Loops \ {l} : loop'[k] = loop[k]
          /\ loop'[l].watch = loop[l].watch
      BY <3>1, SetPcTypes
    <3> QED
      BY <2>3, <2>10, <3>2 DEF LoopWake, At, service
  <2>7. CASE LoopBegin(l)
    <3>1. /\ \A k \in Loops \ {l} : loop'[k] = loop[k]
          /\ loop'[l].watch = loop[l].watch
      BY <2>7 DEF LoopBegin, LoopRecords
    <3> QED
      BY <2>3, <2>7, <3>1 DEF LoopBegin, At, service
  <2>8. CASE LoopSkip(l) \/ LoopCreated(l)
    <3>1. (At(l, "run") \/ At(l, "creating")) /\ Rest(l)
      BY <2>8 DEF LoopSkip, LoopCreated
    <3>2. UNCHANGED <<current, strategy, cancelled>>
      BY <2>8 DEF LoopSkip, LoopCreated, service
    <3> QED
      BY <2>3, <3>1, <3>2, RestTypes DEF At
  <2>9. CASE LoopFails(l)
    <3>1. (At(l, "run") \/ At(l, "creating")) /\ (Rest(l) \/ UNCHANGED loop)
      BY <2>9 DEF LoopFails
    <3>2. UNCHANGED <<current, strategy, cancelled>>
      BY <2>9 DEF LoopFails
    <3> QED
      BY <2>3, <3>1, <3>2, RestTypes DEF At
  <2> QED
    BY <1>9, <2>1, <2>2, <2>4, <2>5, <2>6, <2>7, <2>8, <2>9,
       <2>10 DEF LoopStep
<1> QED
  BY <1>5, <1>6, <1>7, <1>8, <1>9 DEF Next

\* Every step keeps the tasks of a watch its own.
LEMMA NextMine ==
    ASSUME IInv, [Next]_vars
    PROVE  CurrentIsMine'
<1> USE WatchAssumption DEF WatchAssumption
<1>1. /\ loop \in [Loops -> LoopRecords]
      /\ current \in [Watches -> Loops \cup {0}]
  BY DEF IInv, TypeOK
<1>2. ASSUME \A w \in Watches : current'[w] \in {0, current[w]},
             \A k \in Loops : loop[k].pc # "none" =>
                 /\ loop'[k].pc # "none"
                 /\ \/ loop'[k].pc = "done"
                    \/ loop[k].pc # "done" /\ loop'[k].watch = loop[k].watch
      PROVE  CurrentIsMine'
  BY <1>1, <1>2 DEF IInv, CurrentIsMine
<1>3. ASSUME UNCHANGED <<loop, current>>
      PROVE  CurrentIsMine'
  BY <1>3 DEF IInv, CurrentIsMine
<1>4. ASSUME UNCHANGED current, NEW l \in Loops,
             \A k \in Loops \ {l} : loop'[k] = loop[k],
             loop'[l].pc # "none",
             \/ loop'[l].pc = "done"
             \/ Alive(l) /\ loop'[l].watch = loop[l].watch
      PROVE  CurrentIsMine'
  BY <1>2, <1>4 DEF Alive
<1>5. CASE UNCHANGED vars
  BY <1>3, <1>5 DEF vars, service, bus
<1>6. ASSUME NEW f, NEW c, Change(f, c)
      PROVE  CurrentIsMine'
  BY <1>3, <1>6 DEF Change, service, bus
<1>7. CASE Request
  <2>1. ASSUME NEW b, NEW c, CreateWatch(b, c) PROVE CurrentIsMine'
    BY <1>3, <2>1 DEF CreateWatch
  <2>2. ASSUME NEW w \in Watches, StartWatch(w) PROVE CurrentIsMine'
    <3>1. PICK l \in Loops :
             /\ loop[l].pc = "none"
             /\ loop' = [loop EXCEPT ![l] =
                            [NoLoop EXCEPT !.watch = w, !.pc = "start"]]
             /\ current' = [current EXCEPT ![w] = l]
      BY <2>2 DEF StartWatch
    <3>2. /\ current'[w] = l
          /\ loop'[l].watch = w /\ loop'[l].pc = "start"
      BY <1>1, <3>1 DEF NoLoop
    <3>3. ASSUME NEW v \in Watches \ {w}, current[v] # 0
          PROVE  /\ current'[v] = current[v]
                 /\ loop'[current[v]] = loop[current[v]]
      BY <1>1, <3>1, <3>3 DEF IInv, CurrentIsMine
    <3>4. \A v \in Watches \ {w} : current'[v] = current[v]
      BY <1>1, <3>1
    <3> QED
      BY <3>2, <3>3, <3>4 DEF IInv, CurrentIsMine
  <2>3. ASSUME NEW w \in Watches, PauseWatch(w) \/ StopWatch(w)
        PROVE  CurrentIsMine'
    <3>1. current' = [current EXCEPT ![w] = 0] /\ UNCHANGED loop
      BY <2>3 DEF PauseWatch, StopWatch
    <3> QED
      BY <1>1, <1>2, <3>1
  <2>4. CASE Shutdown
    BY <1>2, <2>4 DEF Shutdown
  <2>5. ASSUME NEW n, Cleanup(n) PROVE CurrentIsMine'
    BY <1>3, <2>5 DEF Cleanup
  <2>6. ASSUME NEW id, ReplayStart(id) PROVE CurrentIsMine'
    BY <1>3, <2>6 DEF ReplayStart
  <2> QED
    BY <1>7, <2>1, <2>2, <2>3, <2>4, <2>5, <2>6 DEF Request
<1>8. CASE ReplayEnd
  BY <1>3, <1>8 DEF ReplayEnd, ReplayDone, ReplayFails, bus
<1>9. ASSUME NEW l \in Loops,
           LoopStep(l) \/ LoopStartFails(l) \/ LoopEndsInError(l)
      PROVE  CurrentIsMine'
  <2>1. CASE LoopCancelled(l) \/ LoopStartFails(l) \/ LoopEndsInError(l)
    <3>1. /\ \A k \in Loops \ {l} : loop'[k] = loop[k]
          /\ loop'[l].pc = "done"
      BY <1>1, <2>1 DEF LoopCancelled, LoopStartFails, LoopEndsInError, NoLoop
    <3> QED
      BY <1>4, <2>1, <3>1 DEF LoopCancelled, LoopStartFails, LoopEndsInError, service
  <2>2. CASE LoopStart(l)
    <3>1. loop' = loop \/ \E pc \in {"sleep", "reading"} : loop' = [loop EXCEPT ![l].pc = pc]
      BY <2>2 DEF LoopStart
    <3>2. /\ \A k \in Loops \ {l} : loop'[k] = loop[k]
          /\ loop'[l].watch = loop[l].watch /\ loop'[l].pc # "none"
      BY <1>1, <2>2, <3>1, SetPcTypes DEF LoopStart, At
    <3> QED
      BY <1>4, <2>2, <3>2 DEF LoopStart, At
  <2>3. CASE LoopScan(l)
    <3>1. loop' = loop \/ \E t : loop' = [loop EXCEPT ![l] =
             [watch |-> loop[l].watch, pc |-> "run", todo |-> t]]
      BY <2>3 DEF LoopScan
    <3>2. /\ \A k \in Loops \ {l} : loop'[k] = loop[k]
          /\ loop'[l].watch = loop[l].watch /\ loop'[l].pc # "none"
      BY <1>1, <2>3, <3>1 DEF LoopScan, At
    <3> QED
      BY <1>4, <2>3, <3>2 DEF LoopScan, At
  <2>4. CASE LoopRead(l)
    <3>0. PICK todo, pc :
             /\ loop' = [loop EXCEPT ![l].todo = todo, ![l].pc = pc]
             /\ pc = IF todo = <<>> THEN "sleep" ELSE "run"
      BY <2>4 DEF LoopRead
    <3>1. /\ loop' = [loop EXCEPT ![l].todo = todo, ![l].pc = pc]
          /\ pc # "none"
      BY <3>0
    <3>2. /\ \A k \in Loops \ {l} : loop'[k] = loop[k]
          /\ loop'[l].watch = loop[l].watch /\ loop'[l].pc # "none"
      BY <1>1, <3>1 DEF LoopRecords
    <3> QED
      BY <1>4, <2>4, <3>2 DEF LoopRead, At, service
  <2>8. CASE LoopWake(l)
    <3>1. loop' = [loop EXCEPT ![l].pc = "reading"]
      BY <2>8 DEF LoopWake
    <3>2. /\ \A k \in Loops \ {l} : loop'[k] = loop[k]
          /\ loop'[l].watch = loop[l].watch /\ loop'[l].pc # "none"
      BY <1>1, <3>1, SetPcTypes
    <3> QED
      BY <1>4, <2>8, <3>2 DEF LoopWake, At, service
  <2>5. CASE LoopBegin(l)
    <3>1. /\ \A k \in Loops \ {l} : loop'[k] = loop[k]
          /\ loop'[l].watch = loop[l].watch /\ loop'[l].pc # "none"
      BY <1>1, <2>5 DEF LoopBegin, LoopRecords
    <3> QED
      BY <1>4, <2>5, <3>1 DEF LoopBegin, At, service
  <2>6. CASE LoopSkip(l) \/ LoopCreated(l)
    <3>1. (At(l, "run") \/ At(l, "creating")) /\ Rest(l)
      BY <2>6 DEF LoopSkip, LoopCreated
    <3>2. UNCHANGED current
      BY <2>6 DEF LoopSkip, LoopCreated, service
    <3> QED
      BY <1>4, <3>1, <3>2, RestTypes DEF At
  <2>7. CASE LoopFails(l)
    <3>1. At(l, "run") \/ At(l, "creating")
      BY <2>7 DEF LoopFails
    <3>2. UNCHANGED current /\ (Rest(l) \/ UNCHANGED loop)
      BY <2>7 DEF LoopFails
    <3> QED
      BY <1>3, <1>4, <3>1, <3>2, RestTypes DEF At
  <2> QED
    BY <1>9, <2>1, <2>2, <2>3, <2>4, <2>5, <2>6, <2>7, <2>8 DEF LoopStep
<1> QED
  BY <1>5, <1>6, <1>7, <1>8, <1>9 DEF Next

\* Every step leaves pending changes to watches that are polled: what removes
\* a watch forgets its changes, and no step changes a backend.
LEMMA NextPolled ==
    ASSUME IInv, [Next]_vars
    PROVE  PendingIsPolled'
<1> DEFINE Pending(w, f) == account[w][f] = "pending"
           Polled(w) == strategy[w] # None /\ strategy[w].backend = "polling"
<1> USE WatchAssumption DEF WatchAssumption
<1>1. /\ account \in [Watches -> [Files -> Fates]]
      /\ strategy \in [Watches -> Strategies \cup {None}]
      /\ \A w \in Watches, f \in Files : Pending(w, f) => Polled(w)
  BY DEF IInv, TypeOK, PendingIsPolled
<1>2. ASSUME \A w \in Watches, f \in Files :
                Pending(w, f)' => Polled(w)' \/ (Pending(w, f) /\ (Polled(w) => Polled(w)'))
      PROVE  PendingIsPolled'
  BY <1>1, <1>2 DEF PendingIsPolled
<1>3. ASSUME UNCHANGED <<account, strategy>>
      PROVE  PendingIsPolled'
  BY <1>2, <1>3
<1>4. ASSUME NEW w \in Watches, NEW status \in {"active", "paused", "error", "stopped"},
             strategy[w] # None,
             strategy' = [strategy EXCEPT ![w].status = status]
      PROVE  \A v \in Watches : Polled(v) => Polled(v)'
  <2>1. strategy[w] \in Strategies
    BY <1>1, <1>4
  <2>2. /\ [strategy[w] EXCEPT !.status = status] \in Strategies
        /\ [strategy[w] EXCEPT !.status = status].backend = strategy[w].backend
    BY <2>1 DEF Strategies
  <2>3. strategy' = [strategy EXCEPT ![w] = [strategy[w] EXCEPT !.status = status]]
    BY <1>4
  <2> QED
    BY <1>1, <2>2, <2>3
<1>5. ASSUME NEW w \in Watches, Cancel(w)
      PROVE  \A v \in Watches, f \in Files : Pending(v, f)' => Pending(v, f) /\ v # w
  BY <1>1, <1>5 DEF Cancel, Forget
<1>6. CASE UNCHANGED vars
  BY <1>3, <1>6 DEF vars, service
<1>7. ASSUME NEW f, NEW c, Change(f, c)
      PROVE  PendingIsPolled'
  BY <1>3, <1>7 DEF Change, service
<1>8. CASE Request
  <2>1. ASSUME NEW b, NEW c, CreateWatch(b, c) PROVE PendingIsPolled'
    <3>1. PICK w \in Watches :
             \/ UNCHANGED <<strategy, account>>
             \/ /\ strategy' = [strategy EXCEPT ![w] =
                      [status |-> "initializing", backend |-> b, conflict |-> c]]
                /\ account' = [account EXCEPT ![w] = [f \in Files |-> "none"]]
      BY <2>1 DEF CreateWatch
    <3> QED
      BY <1>1, <1>2, <3>1
  <2>2. ASSUME NEW w \in Watches, StartWatch(w) PROVE PendingIsPolled'
    BY <1>2, <1>4, <1>5, <2>2 DEF StartWatch, Live
  <2>3. ASSUME NEW w \in Watches, PauseWatch(w) PROVE PendingIsPolled'
    BY <1>2, <1>4, <1>5, <2>3 DEF PauseWatch, Live
  <2>4. ASSUME NEW w \in Watches, StopWatch(w) PROVE PendingIsPolled'
    <3>1. \A v \in Watches \ {w} : strategy'[v] = strategy[v]
      BY <1>1, <2>4 DEF StopWatch
    <3>2. Cancel(w)
      BY <2>4 DEF StopWatch
    <3> QED
      BY <1>2, <1>5, <3>1, <3>2
  <2>5. CASE Shutdown
    <3>1. \A w \in Watches, f \in Files : ~Pending(w, f)'
      BY <1>1, <2>5 DEF Shutdown
    <3> QED
      BY <1>2, <3>1
  <2>6. ASSUME NEW n, Cleanup(n) PROVE PendingIsPolled'
    BY <1>3, <2>6 DEF Cleanup
  <2>7. ASSUME NEW id, ReplayStart(id) PROVE PendingIsPolled'
    BY <1>3, <2>7 DEF ReplayStart
  <2> QED
    BY <1>8, <2>1, <2>2, <2>3, <2>4, <2>5, <2>6, <2>7 DEF Request
<1>9. CASE ReplayEnd
  BY <1>3, <1>9 DEF ReplayEnd, ReplayDone, ReplayFails
<1>10. ASSUME NEW l \in Loops,
              LoopStep(l) \/ LoopStartFails(l) \/ LoopEndsInError(l)
       PROVE  PendingIsPolled'
  <2>1. ASSUME NEW w \in Watches, FirstScan(w)
        PROVE  \A v \in Watches, f \in Files : Pending(v, f)' => Pending(v, f)
    BY <1>1, <2>1 DEF FirstScan
  <2>2. ASSUME Alive(l)
        PROVE  loop[l].watch \in Watches /\ strategy[loop[l].watch] # None
    BY <2>2 DEF IInv, AliveHasWatch, OneLoopPerWatch
  <2>3. CASE LoopCancelled(l) \/ LoopWake(l) \/ LoopRead(l) \/ LoopBegin(l)
    BY <1>3, <2>3 DEF LoopCancelled, LoopWake, LoopRead, LoopBegin, service
  <2>4. CASE LoopStart(l)
    <3>1. /\ UNCHANGED account \/ FirstScan(loop[l].watch)
          /\ UNCHANGED strategy /\ Alive(l)
      BY <2>4 DEF LoopStart, At
    <3> QED
      BY <1>2, <2>1, <2>2, <3>1
  <2>5. CASE LoopStartFails(l)
    <3>1. /\ UNCHANGED account \/ FirstScan(loop[l].watch)
          /\ \/ UNCHANGED strategy
             \/ strategy' = [strategy EXCEPT ![loop[l].watch].status = "error"]
          /\ Alive(l)
      BY <2>5 DEF LoopStartFails, At
    <3>2. \A v \in Watches : Polled(v) => Polled(v)'
      BY <1>4, <2>2, <3>1
    <3>3. \A v \in Watches, f \in Files : Pending(v, f)' => Pending(v, f)
      BY <2>1, <2>2, <3>1
    <3> QED
      BY <1>2, <3>2, <3>3
  <2>6. CASE LoopScan(l)
    <3>2. UNCHANGED strategy /\ Backend(l) = "polling" /\ Alive(l)
      BY <2>6 DEF LoopScan, At
    <3>0. PICK w \in Watches : w = loop[l].watch
      BY <2>2, <3>2
    <3>1. \/ UNCHANGED account
          \/ account' = [account EXCEPT ![w] =
                [f \in Files |-> IF f \in Changed(w) THEN "pending"
                                 ELSE @[f]]]
      BY <2>6, <3>0 DEF LoopScan
    <3>3. Polled(w)'
      BY <2>2, <3>0, <3>2 DEF Backend
    <3>4. \A v \in Watches \ {w} : account'[v] = account[v]
      BY <1>1, <3>1
    <3> QED
      BY <1>2, <3>2, <3>3, <3>4
  <2>7. CASE LoopEndsInError(l)
    <3>1. /\ UNCHANGED account /\ Alive(l)
          /\ strategy' = [strategy EXCEPT ![loop[l].watch].status = "error"]
      BY <2>7 DEF LoopEndsInError, At
    <3> QED
      BY <1>2, <1>4, <2>2, <3>1
  <2>8. ASSUME At(l, "run") \/ At(l, "creating"), UNCHANGED strategy,
               NEW what \in Fates \ {"pending"}, Settle(l, what)
        PROVE  PendingIsPolled'
    <3>1. loop[l].watch \in Watches /\ Head(loop[l].todo).file \in Files
      BY <2>8, HasEvent
    <3>2. \A v \in Watches, f \in Files : Pending(v, f)' => Pending(v, f)
      BY <1>1, <2>8, <3>1 DEF Settle
    <3> QED
      BY <1>2, <2>8, <3>2
  <2>9. CASE LoopSkip(l) \/ LoopCreated(l)
    BY <2>8, <2>9 DEF LoopSkip, LoopCreated, service, Fates
  <2>10. CASE LoopFails(l)
    <3>1. UNCHANGED account \/ Settle(l, "dead")
      BY <2>10 DEF LoopFails
    <3>2. UNCHANGED strategy /\ (At(l, "run") \/ At(l, "creating"))
      BY <2>10 DEF LoopFails
    <3> QED
      BY <1>3, <2>8, <3>1, <3>2 DEF Fates
  <2> QED
    BY <1>10, <2>3, <2>4, <2>5, <2>6, <2>7, <2>9, <2>10 DEF LoopStep
<1> QED
  BY <1>6, <1>7, <1>8, <1>9, <1>10 DEF Next

\* Every step keeps what a scan has found with the loop that has found it,
\* until it is settled.
LEMMA NextCarried ==
    ASSUME IInv, [Next]_vars
    PROVE  DetectedIsCarried'
<1> DEFINE Carries(l, f) == \E i \in 1..Len(loop[l].todo) : loop[l].todo[i].file = f
           Pending(w, f) == account[w][f] = "pending"
<1> USE WatchAssumption DEF WatchAssumption
<1>1. \A l \in Loops : loop[l].todo \in Seq(Events) /\ DOMAIN loop[l].todo = 1..Len(loop[l].todo)
  BY LenProperties DEF IInv, TypeOK, LoopRecords
<1>2. ASSUME NEW w \in Watches, NEW f \in Files, Pending(w, f)
      PROVE  \E l \in Loops : /\ Alive(l) /\ loop[l].watch = w
                              /\ loop[l].todo # <<>> /\ Carries(l, f)
  <2>1. PICK l \in Loops :
           /\ Alive(l) /\ loop[l].watch = w
           /\ \E i \in DOMAIN loop[l].todo : loop[l].todo[i].file = f
    BY <1>2 DEF IInv, DetectedIsCarried
  <2>2. Carries(l, f)
    BY <1>1, <2>1
  <2>3. loop[l].todo # <<>>
    BY <2>2, EmptySeq
  <2> QED
    BY <2>1, <2>2, <2>3
<1>3. \A l \in Loops : Alive(l) => /\ loop[l].watch \in Watches /\ l # 0
                                   /\ current[loop[l].watch] = l
                                   /\ strategy[loop[l].watch] # None
  BY DEF IInv, AliveHasWatch, OneLoopPerWatch, Loops
<1>4. loop' \in [Loops -> LoopRecords] /\ account \in [Watches -> [Files -> Fates]]
  BY NextTypes DEF IInv, TypeOK
<1>5. ASSUME \A w \in Watches, f \in Files : Pending(w, f)' => Pending(w, f),
             \A w \in Watches, f \in Files, l \in Loops :
                 /\ Pending(w, f)' /\ Alive(l) /\ loop[l].watch = w
                 /\ loop[l].todo # <<>> /\ Carries(l, f)
                 => Alive(l)' /\ loop'[l].watch = w /\ Carries(l, f)'
      PROVE  DetectedIsCarried'
  <2> SUFFICES ASSUME NEW w \in Watches, NEW f \in Files, Pending(w, f)'
               PROVE  \E l \in Loops :
                         /\ Alive(l)' /\ loop'[l].watch = w
                         /\ \E i \in DOMAIN loop'[l].todo : loop'[l].todo[i].file = f
    BY DEF DetectedIsCarried
  <2>1. PICK l \in Loops : /\ Alive(l) /\ loop[l].watch = w
                           /\ loop[l].todo # <<>> /\ Carries(l, f)
    BY <1>2, <1>5
  <2>2. Alive(l)' /\ loop'[l].watch = w /\ Carries(l, f)'
    BY <1>5, <2>1
  <2>3. DOMAIN loop'[l].todo = 1..Len(loop'[l].todo)
    BY <1>4, LenProperties DEF LoopRecords
  <2> QED
    BY <2>2, <2>3
<1>6. ASSUME UNCHANGED <<loop, cancelled, account>>
      PROVE  DetectedIsCarried'
  BY <1>6 DEF IInv, DetectedIsCarried, Alive
<1>7. CASE UNCHANGED vars
  BY <1>6, <1>7 DEF vars, bus
<1>8. ASSUME NEW f, NEW c, Change(f, c)
      PROVE  DetectedIsCarried'
  BY <1>6, <1>8 DEF Change, bus
<1>9. CASE Request
  <2>1. ASSUME NEW b, NEW c, CreateWatch(b, c) PROVE DetectedIsCarried'
    <3>1. \A w \in Watches, f \in Files : Pending(w, f)' => Pending(w, f)
      BY <1>4, <2>1 DEF CreateWatch
    <3>2. UNCHANGED <<loop, cancelled>>
      BY <2>1 DEF CreateWatch
    <3> QED
      BY <1>5, <3>1, <3>2 DEF Alive
  <2>2. ASSUME NEW w \in Watches, Cancel(w)
        PROVE  /\ \A v \in Watches, f \in Files :
                     Pending(v, f)' => Pending(v, f) /\ v # w
               /\ \A l \in Loops : Alive(l) /\ loop[l].watch # w => l \notin cancelled'
    <3>1. \A v \in Watches, f \in Files : Pending(v, f)' => Pending(v, f) /\ v # w
      BY <1>4, <2>2 DEF Cancel, Forget
    <3>2. ASSUME NEW l \in Loops, Alive(l), loop[l].watch # w
          PROVE  l \notin cancelled'
      BY <2>2, <3>2 DEF Cancel, Alive, IInv, CurrentIsMine
    <3> QED
      BY <3>1, <3>2
  <2>3. ASSUME NEW w \in Watches, StartWatch(w) PROVE DetectedIsCarried'
    <3>1. PICK k \in Loops :
             /\ loop[k].pc = "none"
             /\ loop' = [loop EXCEPT ![k] =
                            [NoLoop EXCEPT !.watch = w, !.pc = "start"]]
      BY <2>3 DEF StartWatch
    <3>2. Cancel(w)
      BY <2>3 DEF StartWatch
    <3>3. ASSUME NEW l \in Loops, Alive(l), loop[l].watch # w
          PROVE  Alive(l)' /\ loop'[l] = loop[l]
      BY <2>2, <3>1, <3>2, <3>3 DEF Alive, IInv, TypeOK
    <3> QED
      BY <1>5, <2>2, <3>2, <3>3
  <2>4. ASSUME NEW w \in Watches, PauseWatch(w) \/ StopWatch(w)
        PROVE  DetectedIsCarried'
    <3>1. Cancel(w) /\ UNCHANGED loop
      BY <2>4 DEF PauseWatch, StopWatch
    <3>2. ASSUME NEW l \in Loops, Alive(l), loop[l].watch # w
          PROVE  Alive(l)' /\ loop'[l] = loop[l]
      BY <2>2, <3>1, <3>2 DEF Alive
    <3> QED
      BY <1>5, <2>2, <3>1, <3>2
  <2>5. CASE Shutdown
    <3>1. \A w \in Watches, f \in Files : ~Pending(w, f)'
      BY <2>5 DEF Shutdown
    <3> QED
      BY <1>5, <3>1
  <2>6. ASSUME NEW n, Cleanup(n) PROVE DetectedIsCarried'
    BY <1>6, <2>6 DEF Cleanup
  <2>7. ASSUME NEW id, ReplayStart(id) PROVE DetectedIsCarried'
    BY <1>6, <2>7 DEF ReplayStart
  <2> QED
    BY <1>9, <2>1, <2>3, <2>4, <2>5, <2>6, <2>7 DEF Request
<1>10. CASE ReplayEnd
  BY <1>6, <1>10 DEF ReplayEnd, ReplayDone, ReplayFails, bus
<1>11. ASSUME NEW l \in Loops,
           LoopStep(l) \/ LoopStartFails(l) \/ LoopEndsInError(l)
       PROVE  DetectedIsCarried'
  <2> loop \in [Loops -> LoopRecords]
    BY DEF IInv, TypeOK
  <2>1. ASSUME UNCHANGED cancelled, \A k \in Loops \ {l} : loop'[k] = loop[k]
        PROVE  \A k \in Loops \ {l}, f \in Files :
                   Alive(k) /\ Carries(k, f) => Alive(k)' /\ Carries(k, f)'
    BY <2>1 DEF Alive
  <2>2. CASE LoopCancelled(l)
    <3>1. /\ \A k \in Loops \ {l} : loop'[k] = loop[k]
          /\ ~Alive(l) /\ UNCHANGED <<cancelled, account>>
      BY <2>2 DEF LoopCancelled, Alive
    <3> QED
      BY <1>5, <2>1, <3>1
  <2>3. CASE LoopWake(l) \/ LoopRead(l)
    <3>1. /\ \A k \in Loops \ {l} : loop'[k] = loop[k]
          /\ UNCHANGED <<cancelled, account>>
      BY <2>3 DEF LoopWake, LoopRead
    <3>2. loop[l].todo = <<>>
      BY <2>3 DEF LoopWake, LoopRead, At, IInv, TypeOK
    <3> QED
      BY <1>5, <2>1, <3>1, <3>2
  <2>10. CASE LoopEndsInError(l)
    <3>1. /\ \A k \in Loops \ {l} : loop'[k] = loop[k]
          /\ UNCHANGED <<cancelled, account>>
      BY <2>10 DEF LoopEndsInError
    <3>2. loop[l].todo = <<>> \/ Backend(l) = "inotify"
      BY <2>10 DEF LoopEndsInError, At, IInv, TypeOK
    <3>3. ASSUME NEW w \in Watches, NEW f \in Files, Pending(w, f)',
                 loop[l].todo # <<>>
          PROVE  loop[l].watch # w
      BY <3>1, <3>2, <3>3 DEF Backend, IInv, PendingIsPolled
    <3> QED
      BY <1>5, <2>1, <3>1, <3>3
  <2>4. CASE LoopStart(l) \/ LoopStartFails(l)
    <3>1. /\ \A k \in Loops \ {l} : loop'[k] = loop[k]
          /\ UNCHANGED cancelled
          /\ UNCHANGED account \/ FirstScan(loop[l].watch)
          /\ At(l, "start")
      BY <2>4 DEF LoopStart, LoopStartFails
    <3>2. \A w \in Watches, f \in Files : Pending(w, f)' => Pending(w, f)
      BY <1>3, <1>4, <3>1 DEF FirstScan, At
    <3>3. loop[l].todo = <<>>
      BY <3>1 DEF At, IInv, TypeOK
    <3> QED
      BY <1>5, <2>1, <3>1, <3>2, <3>3
  <2>5. CASE LoopScan(l)
    <3>1. CASE UNCHANGED <<loop, account>>
      BY <1>6, <2>5, <3>1 DEF LoopScan
    <3>2. CASE ~UNCHANGED <<loop, account>>
      <4>1. PICK w \in Watches : w = loop[l].watch
        BY <1>3, <2>5 DEF LoopScan, At
      <4>2. PICK found \in Found(w) :
               /\ account' = [account EXCEPT ![w] =
                     [f \in Files |-> IF f \in Changed(w) THEN "pending" ELSE @[f]]]
               /\ \/ found = <<>> /\ UNCHANGED loop
                  \/ /\ found # <<>>
                     /\ loop' = [loop EXCEPT ![l] =
                           [watch |-> w, pc |-> "run", todo |-> found]]
        BY <2>5, <3>2, <4>1 DEF LoopScan
      <4>3. /\ found \in Seq(Events) /\ (found # <<>> <=> Changed(w) # {})
            /\ \A f \in Changed(w) : \E i \in 1..Len(found) : found[i].file = f
        BY ScanList
      <4>4. /\ At(l, "sleep") /\ UNCHANGED cancelled
            /\ loop[l].todo = <<>>
        BY <2>5 DEF LoopScan, At, IInv, TypeOK
      <4>5. \A k \in Loops \ {l} : loop'[k] = loop[k]
        BY <4>2
      <4>6. ASSUME NEW v \in Watches, NEW f \in Files, Pending(v, f)'
            PROVE  Pending(v, f) \/ (v = w /\ f \in Changed(w))
        BY <1>4, <4>2, <4>6
      <4> SUFFICES ASSUME NEW v \in Watches, NEW f \in Files, Pending(v, f)'
                   PROVE  \E k \in Loops :
                             /\ Alive(k)' /\ loop'[k].watch = v
                             /\ \E i \in DOMAIN loop'[k].todo :
                                   loop'[k].todo[i].file = f
        BY DEF DetectedIsCarried
      <4>7. CASE Pending(v, f)
        <5>1. PICK k \in Loops : /\ Alive(k) /\ loop[k].watch = v
                                 /\ loop[k].todo # <<>> /\ Carries(k, f)
          BY <1>2, <4>7
        <5>2. k # l
          BY <4>4, <5>1
        <5>3. loop'[k] = loop[k] /\ Alive(k)'
          BY <4>4, <4>5, <5>1, <5>2 DEF Alive
        <5> QED
          BY <1>1, <5>1, <5>3
      <4>8. CASE v = w /\ f \in Changed(w)
        <5>1. loop' = [loop EXCEPT ![l] =
                          [watch |-> w, pc |-> "run", todo |-> found]]
          BY <4>2, <4>3, <4>8
        <5>2. /\ loop'[l].watch = w /\ loop'[l].todo = found
              /\ loop'[l].pc = "run"
          BY <5>1
        <5>3. Alive(l)'
          BY <4>4, <5>2 DEF At, Alive
        <5>4. \E i \in DOMAIN found : found[i].file = f
          BY <4>3, <4>8, LenProperties
        <5> QED
          BY <4>8, <5>2, <5>3, <5>4
      <4> QED
        BY <4>6, <4>7, <4>8
    <3> QED
      BY <3>1, <3>2
  <2>6. CASE LoopBegin(l)
    <3>1. /\ \A k \in Loops \ {l} : loop'[k] = loop[k]
          /\ loop'[l].watch = loop[l].watch /\ loop'[l].todo = loop[l].todo
          /\ loop'[l].pc = "creating" /\ UNCHANGED <<cancelled, account>>
      BY <2>6 DEF LoopBegin, LoopRecords
    <3>2. Alive(l) => Alive(l)'
      BY <3>1 DEF Alive
    <3> QED
      BY <1>5, <2>1, <3>1, <3>2
  <2>7. ASSUME At(l, "run") \/ At(l, "creating"), Rest(l), UNCHANGED cancelled,
               NEW what \in Fates \ {"pending"}, Settle(l, what)
        PROVE  DetectedIsCarried'
    <3> DEFINE w == loop[l].watch
               first == Head(loop[l].todo)
    <3>1. /\ w \in Watches /\ first.file \in Files
          /\ loop[l].todo \in Seq(Events) /\ loop[l].todo # <<>>
      BY <2>7, HasEvent
    <3>2. /\ \A k \in Loops \ {l} : loop'[k] = loop[k]
          /\ loop'[l].watch = w
          /\ loop'[l].todo = Tail(loop[l].todo)
          /\ loop'[l].pc \in {"sleep", "run"}
      BY <2>7, RestTypes
    <3>3. \A v \in Watches, f \in Files :
             Pending(v, f)' => Pending(v, f) /\ ~(v = w /\ f = first.file)
      BY <1>4, <2>7, <3>1 DEF Settle
    <3>4. Alive(l)'
      BY <2>7, <3>2 DEF At, Alive
    <3>5. ASSUME NEW f \in Files, Carries(l, f), f # first.file
          PROVE  Carries(l, f)'
      <4>1. PICK i \in 1..Len(loop[l].todo) : loop[l].todo[i].file = f
        BY <3>5
      <4>2. PICK j \in 1..Len(Tail(loop[l].todo)) :
               Tail(loop[l].todo)[j] = loop[l].todo[i]
        BY <3>1, <3>5, <4>1, RestKeeps
      <4> QED
        BY <3>2, <4>1, <4>2
    <3>6. ASSUME NEW v \in Watches, NEW f \in Files, NEW k \in Loops,
                 Pending(v, f)', Alive(k), loop[k].watch = v, Carries(k, f)
          PROVE  Alive(k)' /\ loop'[k].watch = v /\ Carries(k, f)'
      <4>1. CASE k = l
        <5>1. v = w
          BY <3>6, <4>1
        <5>2. f # first.file
          BY <3>3, <3>6, <5>1
        <5>3. Carries(l, f)'
          BY <3>5, <3>6, <4>1, <5>2
        <5> QED
          BY <3>2, <3>4, <4>1, <5>1, <5>3
      <4>2. CASE k # l
        BY <2>1, <2>7, <3>2, <3>6, <4>2
      <4> QED
        BY <4>1, <4>2
    <3> HIDE DEF first, w
    <3> QED
      BY <1>5, <3>3, <3>6
  <2>8. CASE LoopSkip(l) \/ LoopCreated(l)
    BY <2>7, <2>8 DEF LoopSkip, LoopCreated, Fates
  <2>9. CASE LoopFails(l)
    <3>1. \/ UNCHANGED <<account, loop>>
          \/ Settle(l, "dead") /\ Rest(l)
      BY <2>9 DEF LoopFails
    <3>2. UNCHANGED cancelled /\ (At(l, "run") \/ At(l, "creating"))
      BY <2>9 DEF LoopFails
    <3> QED
      BY <1>6, <2>7, <3>1, <3>2 DEF Fates
  <2> QED
    BY <1>11, <2>2, <2>3, <2>4, <2>5, <2>6, <2>8, <2>9, <2>10 DEF LoopStep
<1> QED
  BY <1>7, <1>8, <1>9, <1>10, <1>11 DEF Next


-----------------------------------------------------------------------------
(* The theorems.                                                           *)

\* The invariant holds in every reachable state.
LEMMA Invariant == Spec => []IInv
<1>1. Init => IInv
  BY InitIInv
<1>2. IInv /\ [Next]_vars => IInv'
  <2> SUFFICES ASSUME IInv, [Next]_vars PROVE IInv'
    OBVIOUS
  <2> QED
    BY NextTypes, NextLock, NextOwned, NextMine, NextPolled, NextCarried DEF IInv
<1> QED
  BY <1>1, <1>2, PTL DEF Spec

\* Every variable of the watch service keeps its type.
THEOREM TypeCorrect == Spec => []TypeOK
<1>1. IInv => TypeOK
  BY DEF IInv
<1> QED
  BY <1>1, Invariant, PTL

\* However starts, pauses, stops and failures follow each other, no watch has
\* two loops that handle its changes.
THEOREM OneLoop == Spec => []OneLoopPerWatch
<1>1. IInv => OneLoopPerWatch
  BY DEF IInv
<1> QED
  BY <1>1, Invariant, PTL

\* A change that a scan has taken into the cache of hashes stays in the list of
\* an alive loop until it is handled, dead or cancelled.
THEOREM ChangesAreCarried == Spec => []DetectedIsCarried
<1>1. IInv => DetectedIsCarried
  BY DEF IInv
<1> QED
  BY <1>1, Invariant, PTL

\* A replay removes the dead letter that it has read, although the list was
\* out of its sight while it awaited the entity.
THEOREM ReplayIsExact == Spec => ReplayTakesItsEntry
<1> DEFINE Takes == replay # None /\ replay' = None /\ dead' # dead =>
                        /\ replay.entry = dead[replay.index]
                        /\ dead' = RemoveAt(dead, replay.index)
<1>1. IInv /\ [Next]_vars => [Takes]_vars
  <2> SUFFICES ASSUME IInv, Next, replay # None, replay' = None, dead' # dead
               PROVE  /\ replay.entry = dead[replay.index]
                      /\ dead' = RemoveAt(dead, replay.index)
    BY DEF vars
  <2>1. CASE ReplayDone
    BY <2>1 DEF ReplayDone, IInv, ReplayKeepsPlace
  <2>2. ~Unlocked
    BY WatchAssumption DEF WatchAssumption, IInv, LockIsReplay, Unlocked
  <2>3. CASE Request
    BY <2>2, <2>3 DEF Request, CreateWatch, StartWatch, PauseWatch, StopWatch,
       Shutdown, Cleanup, ReplayStart
  <2>4. ASSUME NEW l \in Loops,
           LoopStep(l) \/ LoopStartFails(l) \/ LoopEndsInError(l)
        PROVE  FALSE
    BY <2>2, <2>4 DEF LoopStep, LoopCancelled, LoopStart, LoopScan, LoopWake,
       LoopRead, LoopSkip, LoopBegin, LoopCreated, LoopFails, LoopStartFails,
       LoopEndsInError, service
  <2>5. CASE ReplayFails
    BY <2>5 DEF ReplayFails
  <2>6. ASSUME NEW f, NEW c, Change(f, c)
        PROVE  FALSE
    BY <2>6 DEF Change, service
  <2> QED
    BY <2>1, <2>3, <2>4, <2>5, <2>6 DEF Next, ReplayEnd
<1> QED
  BY <1>1, Invariant, PTL DEF Spec, ReplayTakesItsEntry

=============================================================================
