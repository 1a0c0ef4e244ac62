------------------------- MODULE ReconcileLockProofs -------------------------
(***************************************************************************)
(* Proofs about ReconcileLock, for any finite set of processes and any     *)
(* number of takeovers and crashes.                                        *)
(***************************************************************************)
EXTENDS ReconcileLock, FiniteSetTheorems, TLAPS

\* Before any lock has grown old nobody is about to unlink one.
NobodyTakesOver ==
    ~aged => ~old /\ \A p \in Procs : stage[p] \notin {"unlink", "reopen"}

\* The inductive invariant: the four invariants of the runs together with
\* what makes the exclusion while locks are young inductive.
IInv ==
    /\ LockTypeOK
    /\ NobodyTakesOver
    /\ ExclusiveWhileYoung
    /\ OverlapBounded
    /\ NoLeak

\* The holders are finitely many, at most all processes.
LEMMA HoldersFinite ==
    ASSUME LockTypeOK
    PROVE  /\ IsFiniteSet(Holders)
           /\ Cardinality(Holders) \in Nat
           /\ Cardinality(Holders) <= MaxTakeovers
<1>1. Holders \subseteq Procs
  BY DEF Holders
<1>2. /\ IsFiniteSet(Holders)
      /\ Cardinality(Holders) <= Cardinality(Procs)
  BY <1>1, FS_Subset, LockAssumption DEF LockAssumption
<1>3. Cardinality(Holders) \in Nat /\ Cardinality(Procs) \in Nat
  BY <1>2, FS_CardinalityType, LockAssumption DEF LockAssumption
<1> QED
  BY <1>2, <1>3, LockAssumption DEF LockAssumption

\* Initially nobody runs and there is no lock.
LEMMA InitIInv == LockInit => IInv
<1> SUFFICES ASSUME LockInit PROVE IInv
  OBVIOUS
<1>1. Holders = {}
  BY DEF LockInit, Holders
<1>2. Cardinality(Holders) = 0
  BY <1>1, FS_EmptySet
<1>3. OverlapBounded
  BY <1>2 DEF LockInit, OverlapBounded
<1>4. LockTypeOK /\ NobodyTakesOver /\ ExclusiveWhileYoung /\ NoLeak
  BY <1>1 DEF LockInit, LockTypeOK, NobodyTakesOver, ExclusiveWhileYoung, NoLeak
<1> QED
  BY <1>3, <1>4 DEF IInv

\* A process that creates the lock file becomes the one holder more that the
\* file stands for (os.open with O_EXCL).
LEMMA CreateIInv ==
    ASSUME IInv, NEW p \in Procs, lock = NoFile,
           stage[p] \in {"idle", "reopen"}, Create(p), MoveTo(p, "hold"),
           UNCHANGED <<takeovers, aged, crashed>>
    PROVE  IInv'
<1> USE DEF IInv
<1>1. Holders' = Holders \cup {p} /\ p \notin Holders
  BY DEF Holders, MoveTo, LockTypeOK
<1>2. /\ Cardinality(Holders') = Cardinality(Holders) + 1
      /\ Cardinality(Holders) \in Nat
  BY <1>1, HoldersFinite, FS_AddElement
<1>3. LockTypeOK'
  BY DEF LockTypeOK, Create, MoveTo
<1>4. NobodyTakesOver'
  BY DEF NobodyTakesOver, LockTypeOK, Create, MoveTo
<1>5. ExclusiveWhileYoung'
  <2>1. ~aged => Holders = {}
    BY LockAssumption DEF ExclusiveWhileYoung, LockAssumption, Holders
  <2> QED
    BY <1>1, <2>1 DEF ExclusiveWhileYoung, Create
<1>6. OverlapBounded'
  BY <1>2, LockAssumption DEF OverlapBounded, Create, LockTypeOK, LockAssumption
<1>7. NoLeak'
  BY <1>1 DEF NoLeak, Create
<1> QED
  BY <1>3, <1>4, <1>5, <1>6, <1>7

\* A run that ends removes one holder and any lock file (_release_lock).
LEMMA ReleaseIInv ==
    ASSUME IInv, NEW p \in Procs, Release(p)
    PROVE  IInv'
<1> USE DEF IInv
<1>1. Holders' = Holders \ {p} /\ p \in Holders
  BY DEF Holders, Release, MoveTo, LockTypeOK
<1>2. /\ Cardinality(Holders') = Cardinality(Holders) - 1
      /\ Cardinality(Holders) \in Nat
  BY <1>1, HoldersFinite, FS_RemoveElement
<1>3. LockTypeOK'
  BY DEF LockTypeOK, Release, Remove, MoveTo
<1>4. NobodyTakesOver'
  BY DEF NobodyTakesOver, LockTypeOK, Release, Remove, MoveTo
<1>5. ExclusiveWhileYoung'
  <2>1. ~aged => Holders' = {}
    BY <1>1 DEF ExclusiveWhileYoung
  <2> QED
    BY <2>1 DEF ExclusiveWhileYoung, Release
<1>6. OverlapBounded'
  BY <1>2 DEF OverlapBounded, Release, Remove, LockTypeOK
<1>7. NoLeak'
  BY DEF NoLeak, Release, Remove
<1> QED
  BY <1>3, <1>4, <1>5, <1>6, <1>7

\* A process that dies keeps its lock file, which stays accounted for.
LEMMA CrashIInv ==
    ASSUME IInv, NEW p \in Procs, Die(p)
    PROVE  IInv'
<1> USE DEF IInv
<1>1. Holders' = Holders \ {p}
  BY DEF Holders, Die, MoveTo, LockTypeOK
<1>2. /\ Cardinality(Holders') <= Cardinality(Holders)
      /\ Cardinality(Holders) \in Nat /\ Cardinality(Holders') \in Nat
  BY <1>1, HoldersFinite, FS_Subset, FS_CardinalityType
<1>3. LockTypeOK'
  BY DEF LockTypeOK, Die, MoveTo
<1>4. NobodyTakesOver'
  BY DEF NobodyTakesOver, LockTypeOK, Die, MoveTo
<1>5. ExclusiveWhileYoung'
  BY <1>1 DEF ExclusiveWhileYoung, Die
<1>6. OverlapBounded'
  BY <1>2 DEF OverlapBounded, Die, LockTypeOK
<1>7. NoLeak'
  BY <1>1 DEF NoLeak, Die
<1> QED
  BY <1>3, <1>4, <1>5, <1>6, <1>7

\* A stale lock is unlinked: the file that goes is counted as a takeover, so
\* that the holder it stood for stays within the bound.
LEMMA UnlinkIInv ==
    ASSUME IInv, NEW p \in Procs, Unlink(p)
    PROVE  IInv'
<1> USE DEF IInv
<1>1. Holders' = Holders
  BY DEF Holders, Unlink, MoveTo, LockTypeOK
<1>2. aged
  BY DEF NobodyTakesOver, Unlink
<1>3. LockTypeOK'
  <2>1. takeovers' \in Nat
    BY DEF LockTypeOK, Unlink
  <2>2. CASE lock = NoFile
    BY <2>1, <2>2 DEF LockTypeOK, Unlink, MoveTo
  <2>3. CASE lock # NoFile
    BY <2>1, <2>3 DEF LockTypeOK, Unlink, Remove, MoveTo
  <2> QED
    BY <2>2, <2>3
<1>4. NobodyTakesOver' /\ ExclusiveWhileYoung'
  BY <1>2 DEF NobodyTakesOver, ExclusiveWhileYoung, Unlink
<1>5. OverlapBounded'
  BY <1>1, HoldersFinite, LockAssumption
     DEF OverlapBounded, Unlink, Remove, LockTypeOK, LockAssumption
<1>6. NoLeak'
  BY <1>1 DEF NoLeak, Unlink, Remove
<1> QED
  BY <1>3, <1>4, <1>5, <1>6

\* A process that finds the lock taken looks at its age, or is refused.
LEMMA LookIInv ==
    ASSUME IInv, NEW p \in Procs,
           \/ stage[p] = "idle" /\ MoveTo(p, "stat")
           \/ stage[p] \in {"stat", "reopen"} /\ MoveTo(p, "idle")
           \/ stage[p] = "stat" /\ old /\ MoveTo(p, "unlink"),
           UNCHANGED <<lock, old, takeovers, aged, crashed>>
    PROVE  IInv'
<1> USE DEF IInv
<1>1. Holders' = Holders
  BY DEF Holders, MoveTo, LockTypeOK
<1>2. LockTypeOK'
  BY DEF LockTypeOK, MoveTo
<1>3. NobodyTakesOver'
  BY DEF NobodyTakesOver, MoveTo, LockTypeOK
<1>4. ExclusiveWhileYoung' /\ OverlapBounded' /\ NoLeak'
  BY <1>1 DEF ExclusiveWhileYoung, OverlapBounded, NoLeak
<1> QED
  BY <1>2, <1>3, <1>4

\* Every step preserves the inductive invariant.
LEMMA StepIInv == IInv /\ [LockNext]_lockVars => IInv'
<1> SUFFICES ASSUME IInv, [LockNext]_lockVars PROVE IInv'
  OBVIOUS
<1>1. ASSUME NEW p \in Procs, OpenFirst(p) PROVE IInv'
  <2>1. CASE lock = NoFile
    BY <1>1, <2>1, CreateIInv DEF OpenFirst
  <2>2. CASE lock # NoFile
    BY <1>1, <2>2, LookIInv DEF OpenFirst
  <2> QED
    BY <2>1, <2>2
<1>2. ASSUME NEW p \in Procs, Stat(p) PROVE IInv'
  BY <1>2, LookIInv DEF Stat
<1>3. ASSUME NEW p \in Procs, Unlink(p) PROVE IInv'
  BY <1>3, UnlinkIInv
<1>4. ASSUME NEW p \in Procs, OpenAgain(p) PROVE IInv'
  <2>1. CASE lock = NoFile
    BY <1>4, <2>1, CreateIInv DEF OpenAgain
  <2>2. CASE lock # NoFile
    BY <1>4, <2>2, LookIInv DEF OpenAgain
  <2> QED
    BY <2>1, <2>2
<1>5. ASSUME NEW p \in Procs, Release(p) PROVE IInv'
  BY <1>5, ReleaseIInv
<1>6. ASSUME NEW p \in Procs, Die(p) PROVE IInv'
  BY <1>6, CrashIInv
<1>7. CASE Age
  <2>1. Holders' = Holders
    BY <1>7 DEF Age, Holders
  <2> QED
    BY <1>7, <2>1 DEF Age, IInv, LockTypeOK, NobodyTakesOver,
                      ExclusiveWhileYoung, OverlapBounded, NoLeak
<1>8. CASE UNCHANGED lockVars
  <2>1. Holders' = Holders
    BY <1>8 DEF lockVars, Holders
  <2> QED
    BY <1>8, <2>1 DEF lockVars, IInv, LockTypeOK, NobodyTakesOver,
                      ExclusiveWhileYoung, OverlapBounded, NoLeak
<1> QED
  BY <1>1, <1>2, <1>3, <1>4, <1>5, <1>6, <1>7, <1>8 DEF LockNext

\* The inductive invariant holds in every state.
LEMMA InductiveInvariant == LockSpec => []IInv
  BY InitIInv, StepIInv, PTL DEF LockSpec

\* Type correctness of the lock protocol.
THEOREM TypeCorrect == LockSpec => []LockTypeOK
<1>1. IInv => LockTypeOK
  BY DEF IInv
<1> QED
  BY InductiveInvariant, <1>1, PTL

\* Mutual exclusion as long as no lock has grown old.
THEOREM MutualExclusion == LockSpec => []ExclusiveWhileYoung
<1>1. IInv => ExclusiveWhileYoung
  BY DEF IInv
<1> QED
  BY InductiveInvariant, <1>1, PTL

\* However stale locks are taken over, by however many processes, the runs at
\* work are at most the takeovers, plus one while there is a lock file.
THEOREM BoundedOverlap == LockSpec => []OverlapBounded
<1>1. IInv => OverlapBounded
  BY DEF IInv
<1> QED
  BY InductiveInvariant, <1>1, PTL

\* A lock file never outlives the run that created it, unless by a crash.
THEOREM NoLockLeaks == LockSpec => []NoLeak
<1>1. IInv => NoLeak
  BY DEF IInv
<1> QED
  BY InductiveInvariant, <1>1, PTL

=============================================================================
