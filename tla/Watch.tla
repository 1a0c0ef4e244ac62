------------------------------- MODULE Watch --------------------------------
(***************************************************************************)
(* The watch service (app/services/watch.py): background loops compare the *)
(* files of a directory with a hash cache, or read inotify events, and     *)
(* create entities; failures become dead letters that a client replays.    *)
(*                                                                         *)
(* Loops and requests share the event loop: whoever has it (`running`)     *)
(* keeps it until it awaits.  The files change at any time.  Two calls keep *)
(* the thread although they wait: inotify.read, up to a second, in every   *)
(* round of an inotify loop (pc "reading"); and a threading.Lock that is   *)
(* taken (`lock`), which blocks the thread and with it the replay that     *)
(* would give the lock back (`blocked`).                                   *)
(***************************************************************************)
EXTENDS Naturals, Sequences, SequencesExt

CONSTANTS Files,       \* paths in the watched directory
          Contents,    \* file contents; a hash is named by its content
          MaxWatches,  \* bound: watches that exist at a time
          MaxLoops,    \* bound: background tasks of a behaviour
          MaxChanges,  \* bound: file changes of a behaviour
          MaxFailures, \* bound: failed scans, reads and creations
          None         \* no file, no content, nobody

Strategies == [status : {"initializing", "active", "paused", "stopped", "error"},
               backend : {"polling", "inotify"},
               conflict : {"update", "skip"}]

ASSUME WatchAssumption ==
    /\ IsFiniteSet(Files)
    /\ MaxWatches \in Nat /\ MaxLoops \in Nat
    /\ MaxChanges \in Nat /\ MaxFailures \in Nat
    /\ None \notin Contents \cup Files
    /\ None \notin Strategies /\ None # "replay"
    /\ None \notin [index : Nat, entry : [id : Nat, file : Files]]

Watches == 1..MaxWatches    \* the number in watch_001, watch_002, ...
Loops == 1..MaxLoops        \* background tasks, in the order of their creation

VARIABLES
    files,      \* [Files -> content on disk, or None]
    kernel,     \* [Watches -> inotify events not read yet]
    \* WatchService
    strategy,   \* [Watches -> the WatchStrategy, or None]
    hashes,     \* [Watches -> [Files -> _file_hashes entry, or None]]
    current,    \* [Watches -> the loop in _tasks, or 0]
    dead,       \* _dead_letters
    lock,       \* holder of _lock: None or "replay"
    replay,     \* the replay that awaits its entity, or None
    \* the event loop
    loop,       \* [Loops -> a background task]
    cancelled,  \* loops on which cancel() was called
    running,    \* the loop that has the thread, or 0
    blocked,    \* the thread waits for a lock that nobody will release
    \* history
    account,    \* [Watches -> [Files -> what became of the cached hash]]
    changes, failures

service == <<strategy, hashes, current, dead, lock, replay>>
bus == <<loop, cancelled, running, blocked>>
counters == <<changes, failures>>
vars == <<files, kernel, service, bus, account, counters>>

NoLoop == [watch |-> 0, pc |-> "none", todo |-> <<>>]

Init ==
    /\ files \in [Files -> Contents \cup {None}]
    /\ kernel = [w \in Watches |-> <<>>]
    /\ strategy = [w \in Watches |-> None]
    /\ hashes = [w \in Watches |-> [f \in Files |-> None]]
    /\ current = [w \in Watches |-> 0]
    /\ dead = <<>> /\ lock = None /\ replay = None
    /\ loop = [l \in Loops |-> NoLoop]
    /\ cancelled = {} /\ running = 0 /\ blocked = FALSE
    /\ account = [w \in Watches |-> [f \in Files |-> "none"]]
    /\ changes = 0 /\ failures = 0

Live == {w \in Watches : strategy[w] # None}
Alive(l) == loop[l].pc \notin {"none", "done"} /\ l \notin cancelled
Free == running = 0 /\ ~blocked

\* The handler finds the lock taken.
Block == lock # None /\ blocked' = TRUE
Unlocked == lock = None /\ UNCHANGED blocked

-----------------------------------------------------------------------------
(* Another program writes, replaces or deletes a file.                     *)

RawKind(f, c) == CASE files[f] = None -> "created"
                   [] c = None -> "deleted"
                   [] OTHER -> "modified"

Change(f, c) ==
    /\ changes < MaxChanges
    /\ changes' = changes + 1
    /\ c # files[f]
    /\ files' = [files EXCEPT ![f] = c]
    /\ kernel' = [w \in Watches |->
           IF /\ strategy[w] # None /\ strategy[w].backend = "inotify"
              /\ current[w] # 0 /\ loop[current[w]].pc \notin {"start", "done"}
           THEN Append(kernel[w], [kind |-> RawKind(f, c), file |-> f])
           ELSE kernel[w]]
    /\ UNCHANGED <<service, bus, account, failures>>

-----------------------------------------------------------------------------
(* Requests.                                                               *)

\* create_watch_strategy names the watch by the number of watches, so that a
\* name may be taken (409); create_watch takes the lock.
CreateWatch(backend, conflict) ==
    LET w == Len(SetToSeq(Live)) + 1 IN
    /\ Free
    /\ w \in Watches
    /\ strategy[w] = None
    /\ \/ Block /\ UNCHANGED <<strategy, hashes, account>>
       \/ /\ Unlocked
          /\ strategy' = [strategy EXCEPT ![w] =
                [status |-> "initializing", backend |-> backend,
                 conflict |-> conflict]]
          /\ hashes' = [hashes EXCEPT ![w] = [f \in Files |-> None]]
          /\ account' = [account EXCEPT ![w] = [f \in Files |-> "none"]]
    /\ UNCHANGED <<files, kernel, current, dead, lock, replay, loop, cancelled,
                   running, counters>>

\* The pending changes of a loop that is cancelled are lost.
Forget(w) == account' = [account EXCEPT ![w] =
    [f \in Files |-> IF @[f] = "pending" THEN "cancelled" ELSE @[f]]]

Cancel(w) ==
    /\ cancelled' = IF current[w] = 0 THEN cancelled
                    ELSE cancelled \cup {current[w]}
    /\ kernel' = [kernel EXCEPT ![w] = <<>>]
    /\ Forget(w)

\* Mutant of StartWatch: the task that runs already is not cancelled.
StartWatchTwice(w) ==
    /\ Free
    /\ w \in Live
    /\ strategy' = [strategy EXCEPT ![w].status = "active"]
    /\ \E l \in Loops :
          /\ loop[l].pc = "none"
          /\ \A k \in 1..(l - 1) : loop[k].pc # "none"
          /\ loop' = [loop EXCEPT ![l] =
                         [NoLoop EXCEPT !.watch = w, !.pc = "start"]]
          /\ current' = [current EXCEPT ![w] = l]
    /\ UNCHANGED <<files, kernel, hashes, dead, lock, replay, cancelled,
                   running, blocked, account, counters>>

StartWatch(w) ==
    /\ Free
    /\ w \in Live
    /\ strategy' = [strategy EXCEPT ![w].status = "active"]
    /\ Cancel(w)
    /\ \E l \in Loops :
          /\ loop[l].pc = "none"
          /\ \A k \in 1..(l - 1) : loop[k].pc # "none"
          /\ loop' = [loop EXCEPT ![l] =
                         [NoLoop EXCEPT !.watch = w, !.pc = "start"]]
          /\ current' = [current EXCEPT ![w] = l]
    /\ UNCHANGED <<files, hashes, dead, lock, replay, running, blocked, counters>>

PauseWatch(w) ==
    /\ Free
    /\ w \in Live
    /\ strategy' = [strategy EXCEPT ![w].status = "paused"]
    /\ Cancel(w)
    /\ current' = [current EXCEPT ![w] = 0]
    /\ UNCHANGED <<files, hashes, dead, lock, replay, loop, running, blocked, counters>>

\* stop_watch cancels the task and then takes the lock.
StopWatch(w) ==
    /\ Free
    /\ w \in Live
    /\ Cancel(w)
    /\ current' = [current EXCEPT ![w] = 0]
    /\ \/ Block /\ UNCHANGED <<strategy, hashes>>
       \/ /\ Unlocked
          /\ strategy' = [strategy EXCEPT ![w] = None]
          /\ hashes' = [hashes EXCEPT ![w] = [f \in Files |-> None]]
    /\ UNCHANGED <<files, dead, lock, replay, loop, running, counters>>

\* cleanup_dead_letters: entries are in the order of their age.
Cleanup(n) ==
    /\ Free
    /\ n \in 1..Len(dead)
    /\ \/ Block /\ UNCHANGED dead
       \/ Unlocked /\ dead' = SubSeq(dead, n + 1, Len(dead))
    /\ UNCHANGED <<files, kernel, strategy, hashes, current, lock, replay, loop,
                   cancelled, running, account, counters>>

\* shutdown, as the application stops: no lock, the watches stay registered.
Shutdown ==
    /\ Free
    /\ cancelled' = cancelled \cup ({current[w] : w \in Live} \ {0})
    /\ current' = [w \in Watches |-> 0]
    /\ strategy' = [w \in Watches |-> IF strategy[w] = None THEN None
                       ELSE [strategy[w] EXCEPT !.status = "stopped"]]
    /\ kernel' = [w \in Watches |-> <<>>]
    /\ account' = [w \in Watches |-> [f \in Files |->
           IF account[w][f] = "pending" THEN "cancelled" ELSE account[w][f]]]
    /\ UNCHANGED <<files, hashes, dead, lock, replay, loop, running, blocked,
                   counters>>

-----------------------------------------------------------------------------
(* replay_dead_letter holds the lock until the entity is created.          *)

\* Mutant of ReplayStart: the entry is looked up under the lock, and the lock
\* is given back before the await.
ReplayStartUnlocked(id) ==
    /\ Free
    /\ replay = None
    /\ \E i \in DOMAIN dead :
          /\ dead[i].id = id
          /\ files[dead[i].file] # None
          /\ replay' = [index |-> i, entry |-> dead[i]]
    /\ UNCHANGED <<files, kernel, strategy, hashes, current, dead, lock, loop,
                   cancelled, running, blocked, account, counters>>

\* The first entry of that id; nothing happens when its file is gone.
ReplayStart(id) ==
    /\ Free
    /\ \E i \in DOMAIN dead :
          /\ dead[i].id = id
          /\ \A j \in 1..(i - 1) : dead[j].id # id
          /\ files[dead[i].file] # None
          /\ \/ Block /\ UNCHANGED <<lock, replay>>
             \/ /\ Unlocked
                /\ lock' = "replay"
                /\ replay' = [index |-> i, entry |-> dead[i]]
    /\ UNCHANGED <<files, kernel, strategy, hashes, current, dead, loop,
                   cancelled, running, account, counters>>

ReplayDone ==
    /\ Free
    /\ replay # None
    /\ dead' = RemoveAt(dead, replay.index)
    /\ lock' = None
    /\ replay' = None
    /\ UNCHANGED <<files, kernel, strategy, hashes, current, bus, account,
                   counters>>

\* create_from_bytes raises: the entry stays.
ReplayFails ==
    /\ Free
    /\ replay # None
    /\ failures < MaxFailures
    /\ failures' = failures + 1
    /\ lock' = None
    /\ replay' = None
    /\ UNCHANGED <<files, kernel, strategy, hashes, current, dead, bus, account, changes>>

-----------------------------------------------------------------------------
(* The background loops.                                                   *)

At(l, pc) == Alive(l) /\ loop[l].pc = pc
Turn(l) == running \in {0, l} /\ ~blocked
Backend(l) == strategy[loop[l].watch].backend

\* The task is cancelled: CancelledError is raised where it awaits.
LoopCancelled(l) ==
    /\ Free
    /\ l \in cancelled
    /\ loop[l].pc # "done"
    /\ loop' = [loop EXCEPT ![l] = [NoLoop EXCEPT !.pc = "done"]]
    /\ UNCHANGED <<files, kernel, service, cancelled, running, blocked, account, counters>>

\* The first scan replaces the cache by the files that are there.
FirstScan(w) ==
    /\ hashes' = [hashes EXCEPT ![w] = files]
    /\ account' = [account EXCEPT ![w] = [f \in Files |-> "initial"]]

\* Nothing is created for what the first scan finds, nor for what changed
\* while the watch was paused.  A polling loop then sleeps; an inotify loop
\* keeps the thread and reads.
LoopStart(l) ==
    /\ At(l, "start")
    /\ Turn(l)
    /\ \/ Block /\ UNCHANGED <<hashes, account, loop, running>>
       \/ /\ Unlocked
          /\ FirstScan(loop[l].watch)
          /\ \/ /\ Backend(l) = "polling"
                /\ loop' = [loop EXCEPT ![l].pc = "sleep"]
                /\ UNCHANGED running
             \/ /\ Backend(l) = "inotify"
                /\ loop' = [loop EXCEPT ![l].pc = "reading"]
                /\ running' = l
    /\ UNCHANGED <<files, kernel, strategy, current, dead, lock, replay,
                   cancelled, counters>>

\* What fails before the loop is entered ends the task outside its try: the
\* scan raises, or inotify has no watch to give after it, and the status stays
\* "active"; only a directory that is gone makes it "error" (inotify).
LoopStartFails(l) ==
    /\ At(l, "start")
    /\ Turn(l)
    /\ failures < MaxFailures
    /\ failures' = failures + 1
    /\ loop' = [loop EXCEPT ![l] = [NoLoop EXCEPT !.pc = "done"]]
    /\ \/ UNCHANGED <<strategy, hashes, account>>
       \/ /\ Backend(l) = "inotify"
          /\ lock = None
          /\ FirstScan(loop[l].watch)
          /\ UNCHANGED strategy
       \/ /\ Backend(l) = "inotify"
          /\ strategy' = [strategy EXCEPT ![loop[l].watch].status = "error"]
          /\ UNCHANGED <<hashes, account>>
    /\ UNCHANGED <<files, kernel, current, dead, lock, replay, cancelled,
                   running, blocked, changes>>

EventKind(w, f) ==
    CASE hashes[w][f] = files[f] -> "none"
      [] hashes[w][f] = None -> "created"
      [] files[f] = None -> "deleted"
      [] OTHER -> "modified"

Event(w, f) == [kind |-> EventKind(w, f), file |-> f]

Changed(w) == {f \in Files : EventKind(w, f) # "none"}

\* The lists that _scan_files may return: the files in any order, but those
\* that are there before those that are gone.
Found(w) ==
    {[i \in DOMAIN fs |-> Event(w, fs[i])] :
        fs \in {s \in SetToSeqs(Changed(w)) :
                   \A i, j \in DOMAIN s :
                      i < j /\ files[s[i]] = None => files[s[j]] = None}}

\* The cache is replaced before any event is handled.
LoopScan(l) ==
    /\ At(l, "sleep")
    /\ Turn(l)
    /\ Backend(l) = "polling"
    /\ LET w == loop[l].watch IN
       \/ Block /\ UNCHANGED <<hashes, account, loop, running>>
       \/ /\ Unlocked
          /\ hashes' = [hashes EXCEPT ![w] = files]
          /\ account' = [account EXCEPT ![w] =
                [f \in Files |-> IF f \in Changed(w) THEN "pending" ELSE @[f]]]
          /\ \E found \in Found(w) :
                \/ found = <<>> /\ UNCHANGED <<loop, running>>
                \/ /\ found # <<>>
                   /\ loop' = [loop EXCEPT ![l] =
                                  [watch |-> w, pc |-> "run", todo |-> found]]
                   /\ running' = l
    /\ UNCHANGED <<files, kernel, strategy, current, dead, lock, replay,
                   cancelled, counters>>

\* A file vanishes while it is looked at, or the read raises: the loop ends
\* with status ERROR, an inotify loop with the rest of its batch.
LoopEndsInError(l) ==
    /\ \/ At(l, "sleep") /\ Backend(l) = "polling"
       \/ At(l, "reading")
       \/ At(l, "run") /\ Backend(l) = "inotify"
    /\ Turn(l)
    /\ failures < MaxFailures
    /\ failures' = failures + 1
    /\ strategy' = [strategy EXCEPT ![loop[l].watch].status = "error"]
    /\ loop' = [loop EXCEPT ![l] = [NoLoop EXCEPT !.pc = "done"]]
    /\ kernel' = [kernel EXCEPT ![loop[l].watch] = <<>>]
    /\ running' = 0
    /\ UNCHANGED <<files, hashes, current, dead, lock, replay, cancelled,
                   blocked, account, changes>>

\* The next round of an inotify loop, after sleep(0): the read is a plain
\* call, so that the thread is the loop's until it returns.
LoopWake(l) ==
    /\ At(l, "sleep")
    /\ Turn(l)
    /\ Backend(l) = "inotify"
    /\ loop' = [loop EXCEPT ![l].pc = "reading"]
    /\ running' = l
    /\ UNCHANGED <<files, kernel, service, cancelled, blocked, account,
                   counters>>

\* Mutant of LoopRead: the read has no timeout.
LoopReadUntimed(l) ==
    /\ At(l, "reading")
    /\ Turn(l)
    /\ kernel[loop[l].watch] # <<>>
    /\ loop' = [loop EXCEPT ![l].todo = kernel[loop[l].watch], ![l].pc = "run"]
    /\ running' = l
    /\ kernel' = [kernel EXCEPT ![loop[l].watch] = <<>>]
    /\ UNCHANGED <<files, service, cancelled, blocked, account,
                   counters>>

\* inotify.read returns everything the kernel has, or nothing when the second
\* is over; no lock, no cache.
LoopRead(l) ==
    /\ At(l, "reading")
    /\ Turn(l)
    /\ LET events == kernel[loop[l].watch] IN
       /\ loop' = [loop EXCEPT ![l].todo = events,
                               ![l].pc = IF events = <<>> THEN "sleep" ELSE "run"]
       /\ running' = IF events = <<>> THEN 0 ELSE l
    /\ kernel' = [kernel EXCEPT ![loop[l].watch] = <<>>]
    /\ UNCHANGED <<files, service, cancelled, blocked, account,
                   counters>>

\* What became of the change that the scan of a file recorded.
Settle(l, what) ==
    account' = [account EXCEPT ![loop[l].watch][Head(loop[l].todo).file] =
                   IF @ = "pending" THEN what ELSE @]

\* Mutant of Rest: an empty list is not noticed.
RestStays(l) ==
    /\ loop' = [loop EXCEPT ![l].todo = Tail(@), ![l].pc = "run"]
    /\ running' = l

\* The next event, or the next sleep, which gives the thread away.
Rest(l) == LET rest == Tail(loop[l].todo) IN
    /\ loop' = [loop EXCEPT ![l].todo = rest,
                            ![l].pc = IF rest = <<>> THEN "sleep" ELSE "run"]
    /\ running' = IF rest = <<>> THEN 0 ELSE l

\* An event that creates nothing: deletions are logged, modifications may be
\* skipped, and the inotify loop ignores a file that is not there.
LoopSkip(l) ==
    /\ At(l, "run")
    /\ Turn(l)
    /\ LET e == Head(loop[l].todo) IN
       \/ e.kind = "deleted"
       \/ e.kind = "modified" /\ strategy[loop[l].watch].conflict = "skip"
       \/ Backend(l) = "inotify" /\ files[e.file] = None
    /\ Settle(l, "handled")
    /\ Rest(l)
    /\ UNCHANGED <<files, kernel, service, cancelled, blocked,
                   counters>>

\* The file is read as it is now, and the loop awaits create_from_bytes.
LoopBegin(l) ==
    /\ At(l, "run")
    /\ Turn(l)
    /\ LET e == Head(loop[l].todo) IN
       /\ \/ e.kind = "created"
          \/ e.kind = "modified" /\ strategy[loop[l].watch].conflict = "update"
       /\ files[e.file] # None
       /\ loop' = [loop EXCEPT ![l].pc = "creating"]
    /\ running' = 0
    /\ UNCHANGED <<files, kernel, service, cancelled, blocked,
                   account, counters>>

LoopCreated(l) ==
    /\ At(l, "creating")
    /\ Turn(l)
    /\ Settle(l, "handled")
    /\ Rest(l)
    /\ UNCHANGED <<files, kernel, service, cancelled, blocked, counters>>

\* Mutant of LoopFails: the exception ends the batch, not the event.
LoopFailsBatch(l) ==
    /\ At(l, "creating")
    /\ Turn(l)
    /\ failures < MaxFailures
    /\ failures' = failures + 1
    /\ dead' = Append(dead, [id |-> Len(dead), file |-> Head(loop[l].todo).file])
    /\ Settle(l, "dead")
    /\ loop' = [loop EXCEPT ![l].todo = <<>>,
                            ![l].pc = "sleep"]
    /\ running' = 0
    /\ UNCHANGED <<files, kernel, strategy, hashes, current, lock, replay,
                   cancelled, blocked, changes>>

\* create_from_bytes raises, or read_bytes because the file is gone: a dead
\* letter, named by the length of the list.
LoopFails(l) ==
    /\ \/ /\ At(l, "creating")
          /\ failures < MaxFailures
          /\ failures' = failures + 1
       \/ /\ At(l, "run")
          /\ Backend(l) = "polling"
          /\ \/ Head(loop[l].todo).kind = "created"
             \/ /\ Head(loop[l].todo).kind = "modified"
                /\ strategy[loop[l].watch].conflict = "update"
          /\ files[Head(loop[l].todo).file] = None
          /\ UNCHANGED failures
    /\ Turn(l)
    /\ \/ Block /\ UNCHANGED <<dead, account, loop, running>>
       \/ /\ Unlocked
          /\ dead' = Append(dead, [id |-> Len(dead),
                                   file |-> Head(loop[l].todo).file])
          /\ Settle(l, "dead")
          /\ Rest(l)
    /\ UNCHANGED <<files, kernel, strategy, hashes, current, lock, replay,
                   cancelled, changes>>

-----------------------------------------------------------------------------
LoopStep(l) ==
    \/ LoopCancelled(l)
    \/ LoopStart(l)
    \/ LoopScan(l)
    \/ LoopWake(l)
    \/ LoopRead(l)
    \/ LoopSkip(l)
    \/ LoopBegin(l)
    \/ LoopCreated(l)
    \/ LoopFails(l)

ReplayEnd == ReplayDone \/ ReplayFails

Request ==
    \/ \E b \in {"polling", "inotify"}, c \in {"update", "skip"} :
          CreateWatch(b, c)
    \/ \E w \in Watches : StartWatch(w) \/ PauseWatch(w) \/ StopWatch(w)
    \/ Shutdown
    \/ \E n \in DOMAIN dead : Cleanup(n)
    \/ \E i \in DOMAIN dead : ReplayStart(dead[i].id)

Next ==
    \/ \E f \in Files, c \in Contents \cup {None} : Change(f, c)
    \/ Request
    \/ ReplayEnd
    \/ \E l \in Loops : LoopStep(l) \/ LoopStartFails(l) \/ LoopEndsInError(l)

\* The event loop resumes whatever is ready: a task whose sleep is over or
\* whose entity is created, and the replay.
Fairness ==
    /\ \A l \in Loops : WF_vars(LoopStep(l))
    /\ WF_vars(ReplayEnd)

Spec == Init /\ [][Next]_vars /\ Fairness

-----------------------------------------------------------------------------
Kinds == {"created", "modified", "deleted"}
Fates == {"none", "initial", "pending", "handled", "dead", "cancelled"}
Entries == [id : Nat, file : Files]
Events == [kind : Kinds, file : Files]
LoopRecords == [watch : Watches \cup {0},
                pc : {"none", "start", "sleep", "reading", "run", "creating", "done"},
                todo : Seq(Events)]

\* Every variable has its type (WatchService, WatchStrategy, DeadLetterEntry);
\* a loop has events to do exactly while it is between two sleeps.
TypeOK ==
    /\ files \in [Files -> Contents \cup {None}]
    /\ kernel \in [Watches -> Seq(Events)]
    /\ strategy \in [Watches -> Strategies \cup {None}]
    /\ hashes \in [Watches -> [Files -> Contents \cup {None}]]
    /\ account \in [Watches -> [Files -> Fates]]
    /\ current \in [Watches -> Loops \cup {0}]
    /\ dead \in Seq(Entries)
    /\ lock \in {None, "replay"}
    /\ replay = None \/ replay \in [index : Nat \ {0}, entry : Entries]
    /\ loop \in [Loops -> LoopRecords]
    /\ cancelled \subseteq Loops
    /\ running \in Loops \cup {0}
    /\ blocked \in BOOLEAN
    /\ running # 0 => loop[running].pc \in {"reading", "run"}
    /\ \A l \in Loops :
          loop[l].todo # <<>> <=> loop[l].pc \in {"run", "creating"}

\* The cache is replaced before the events are handled, so that a change that
\* is in no loop's list any more is never seen again: while it is pending,
\* the loop that detected it is alive and still has it to do, whatever failed
\* before it in the list (_poll_loop, _process_event).
DetectedIsCarried ==
    \A w \in Watches, f \in Files :
        account[w][f] = "pending" =>
            \E l \in Loops :
                /\ Alive(l) /\ loop[l].watch = w
                /\ \E i \in DOMAIN loop[l].todo : loop[l].todo[i].file = f

\* Two loops on one watch would handle every change twice: a loop that is not
\* cancelled is the one that _tasks names, however start, pause and stop
\* follow each other, and a watch that is paused or removed has none.
OneLoopPerWatch ==
    \A l \in Loops :
        Alive(l) => /\ current[loop[l].watch] = l
                    /\ strategy[loop[l].watch] # None
                    /\ strategy[loop[l].watch].status = "active"

\* A replay takes out of the list the entry whose file it has made an entity,
\* although it found the entry before its await (replay_dead_letter).
ReplayTakesItsEntry ==
    [][replay # None /\ replay' = None /\ dead' # dead =>
          replay.entry = dead[replay.index]
          /\ dead' = RemoveAt(dead, replay.index)]_vars

\* Liveness: a change that a scan has detected is handled, becomes a dead
\* letter, or is lost with its cancelled loop, unless the event loop blocks.
DetectedIsSettled ==
    \A w \in Watches, f \in Files :
        account[w][f] = "pending" ~> account[w][f] # "pending" \/ blocked

\* Liveness: the loops share one thread with every request.  Whoever has it
\* gives it back: a batch ends whatever fails in it, and a read that finds
\* nothing times out (_inotify_loop); only a lock that is taken keeps it for
\* good.
ThreadComesBack == running # 0 ~> running = 0 \/ blocked

=============================================================================
