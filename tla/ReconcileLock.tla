---------------------------- MODULE ReconcileLock ----------------------------
(***************************************************************************)
(* The lock file that keeps reconcile runs of a collection apart           *)
(* (app/services/reconciler.py, "Distributed lock (file-based)").          *)
(*                                                                         *)
(* Processes that share the storage directory take the lock step by step,  *)
(* each a system call.  A lock older than LOCK_TIMEOUT counts as stale; its *)
(* age is that of the file, nobody refreshes it, and a run that takes      *)
(* longer keeps running.                                                   *)
(***************************************************************************)
EXTENDS Naturals, FiniteSets

CONSTANTS Procs,        \* processes that may run a reconcile
          MaxTakeovers, \* bound: where the count of takeovers stops
          MaxDeaths,    \* bound: processes that die
          NoFile        \* no file

ASSUME LockAssumption ==
    /\ IsFiniteSet(Procs)
    /\ MaxTakeovers \in Nat /\ MaxTakeovers >= Cardinality(Procs)
    /\ MaxDeaths \in Nat
    /\ NoFile \notin Procs

VARIABLES
    lock,      \* who created .reconcile.lock, or NoFile
    old,       \* its age is LOCK_TIMEOUT or more
    stage,     \* [Procs -> where reconcile() is]
    takeovers, \* history: locks unlinked as stale, up to MaxTakeovers
    aged,      \* history: some lock has grown old
    crashed    \* processes that died inside a run

lockVars == <<lock, old, stage, takeovers, aged, crashed>>

LockInit ==
    /\ lock = NoFile /\ old = FALSE
    /\ stage = [p \in Procs |-> "idle"]
    /\ takeovers = 0 /\ aged = FALSE /\ crashed = {}

MoveTo(p, l) == stage' = [stage EXCEPT ![p] = l]

Holders == {p \in Procs : stage[p] = "hold"}

\* Mutant of Remove: the age is remembered apart from the file.
RemoveKeepsAge == lock' = NoFile /\ UNCHANGED old

\* The system calls on the lock file: os.open with O_CREAT | O_EXCL, unlink.
Create(p) == lock' = p /\ old' = FALSE
Remove == lock' = NoFile /\ old' = FALSE

-----------------------------------------------------------------------------
(* _acquire_lock.                                                          *)

OpenFirst(p) ==
    /\ stage[p] = "idle"
    /\ p \notin crashed
    /\ \/ lock = NoFile /\ Create(p) /\ MoveTo(p, "hold")
       \/ lock # NoFile /\ MoveTo(p, "stat") /\ UNCHANGED <<lock, old>>
    /\ UNCHANGED <<takeovers, aged, crashed>>

\* The file is gone: stat raises FileNotFoundError, which nobody catches.
\* A young lock: the run is refused.
Stat(p) ==
    /\ stage[p] = "stat"
    /\ MoveTo(p, IF lock # NoFile /\ old THEN "unlink" ELSE "idle")
    /\ UNCHANGED <<lock, old, takeovers, aged, crashed>>

\* Whatever lock is there now is unlinked, the old one or a new one; if there
\* is none, unlink raises FileNotFoundError.
Unlink(p) ==
    /\ stage[p] = "unlink"
    /\ \/ lock = NoFile /\ MoveTo(p, "idle") /\ UNCHANGED <<lock, old, takeovers>>
       \/ /\ lock # NoFile
          /\ takeovers' = IF takeovers < MaxTakeovers THEN takeovers + 1
                          ELSE takeovers
          /\ Remove
          /\ MoveTo(p, "reopen")
    /\ UNCHANGED <<aged, crashed>>

\* Mutant of OpenAgain: the second open has no O_EXCL.
OpenAgainShared(p) ==
    /\ stage[p] = "reopen"
    /\ Create(p) /\ MoveTo(p, "hold")
    /\ UNCHANGED <<takeovers, aged, crashed>>

\* Another process was faster: the run is refused.
OpenAgain(p) ==
    /\ stage[p] = "reopen"
    /\ \/ lock = NoFile /\ Create(p) /\ MoveTo(p, "hold")
       \/ lock # NoFile /\ MoveTo(p, "idle") /\ UNCHANGED <<lock, old>>
    /\ UNCHANGED <<takeovers, aged, crashed>>

-----------------------------------------------------------------------------
\* Mutant of Release: only a lock of one's own that is young is removed.
ReleaseYoung(p) ==
    /\ stage[p] = "hold"
    /\ IF lock = p /\ ~old THEN Remove ELSE UNCHANGED <<lock, old>>
    /\ MoveTo(p, "idle")
    /\ UNCHANGED <<takeovers, aged, crashed>>

\* Mutant of Release: a run that is refused releases as well.
ReleaseAlways(p) ==
    /\ stage[p] \in {"hold", "stat"}
    /\ Remove
    /\ MoveTo(p, "idle")
    /\ UNCHANGED <<takeovers, aged, crashed>>

\* The run ends, by return or exception (finally): _release_lock unlinks the
\* lock that is there, whoever created it.
Release(p) ==
    /\ stage[p] = "hold"
    /\ Remove
    /\ MoveTo(p, "idle")
    /\ UNCHANGED <<takeovers, aged, crashed>>

\* Time passes.
Age ==
    /\ lock # NoFile
    /\ ~old
    /\ old' = TRUE
    /\ aged' = TRUE
    /\ UNCHANGED <<lock, stage, takeovers, crashed>>

\* A process dies, in the middle of a run or of taking the lock.
Die(p) ==
    /\ stage[p] # "idle"
    /\ Cardinality(crashed) < MaxDeaths
    /\ MoveTo(p, "idle")
    /\ crashed' = crashed \cup {p}
    /\ UNCHANGED <<lock, old, takeovers, aged>>

LockNext ==
    \/ \E p \in Procs : \/ OpenFirst(p) \/ Stat(p) \/ Unlink(p) \/ OpenAgain(p)
                        \/ Release(p)
                        \/ Die(p)
    \/ Age

LockSpec == LockInit /\ [][LockNext]_lockVars

-----------------------------------------------------------------------------
\* Every variable has its type; only a file has an age.
LockTypeOK ==
    /\ lock \in Procs \cup {NoFile}
    /\ old \in BOOLEAN /\ (old => lock # NoFile)
    /\ stage \in [Procs -> {"idle", "stat", "unlink", "reopen", "hold"}]
    /\ takeovers \in Nat
    /\ aged \in BOOLEAN
    /\ crashed \subseteq Procs

\* As long as no lock has grown old, two reconcile runs never overlap, and
\* only the run itself removes its lock (_acquire_lock, _release_lock).
ExclusiveWhileYoung == ~aged => \A p \in Holders : lock = p

\* Each takeover of a stale lock lets in at most one run more: however the
\* takeovers race with each other, with slow runs that wake up and with
\* releases that unlink the lock of another run, the runs at work are no more
\* than the takeovers so far, plus the one that a lock file stands for.
OverlapBounded ==
    Cardinality(Holders) <= takeovers + (IF lock = NoFile THEN 0 ELSE 1)

\* No lock is left behind: the file that is there belongs to a run at work or
\* to a process that died, however often it has been replaced (finally).
NoLeak == lock # NoFile => lock \in Holders \cup crashed

=============================================================================
