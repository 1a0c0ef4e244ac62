--------------------------- MODULE IndexViewProofs ---------------------------
(***************************************************************************)
(* Proofs about IndexView, for any sets of entities, representations and   *)
(* executor threads and any number of writes and failures.                 *)
(*                                                                         *)
(* FreshExact is not inductive: that a key is exact when a job ends needs  *)
(* that a clean job is alone on its keys (CleanAlone), that what it read   *)
(* is still in the files (CleanReads), and that there were no rows when it *)
(* added them (AddAfterDelete), which OverlapTangles keeps also for jobs   *)
(* that are not clean: DuplicatesNeedOverlap is about those.               *)
(***************************************************************************)
EXTENDS IndexView, TLAPS

\* A fresh key has no job, and its entity is not being deleted.
FreshIdle ==
    \A k \in fresh : ~Busy(k) /\ ~Dooms(deleting, k)

\* A job that is clean shares no key with another one, nor with a deletion.
CleanAlone ==
    \A j \in Jobs, k \in Keys :
        job[j].clean /\ Touches(j, k) =>
            /\ \A i \in Jobs : Touches(i, k) => i = j
            /\ ~Dooms(deleting, k)

\* What a clean job has read is what the files still say; only a rebuild
\* skips files.
CleanReads ==
    \A j \in Jobs, k \in Keys :
        job[j].clean /\ Touches(j, k) =>
            \/ job[j].data[k] = staging[k]
            \/ job[j].kind = "rebuild" /\ k \in job[j].skipped

\* Keys on which two jobs are at work are tangled.
OverlapTangles ==
    \A i, j \in Jobs, k \in Keys :
        Touches(i, k) /\ Touches(j, k) => i = j \/ k \in tangled

\* Between delete and add there are no rows, unless somebody interfered.
AddAfterDelete ==
    \A j \in Jobs, k \in Keys :
        /\ JobAt(j, "sync", "add") /\ job[j].key = k
        /\ job[j].clean \/ k \notin tangled
        => Rows(k) = <<>>

\* The files of what is being deleted are gone.
DeletedHasNoFiles ==
    \A k \in Keys : Dooms(deleting, k) => staging[k] = Nil

\* The inductive invariant: the invariants of the runs and what makes them
\* inductive.
IInv ==
    /\ ViewTypeOK
    /\ FreshIdle
    /\ CleanAlone
    /\ CleanReads
    /\ OverlapTangles
    /\ AddAfterDelete
    /\ DeletedHasNoFiles
    /\ FreshExact
    /\ DuplicatesNeedOverlap
    /\ SchemaFitsRows

-----------------------------------------------------------------------------
(* Types.                                                                  *)

\* A key is of an entity, so that nobody's deletion is about it, and that of
\* the collection about every key.
LEMMA KeyIsOfEntity ==
    \A k \in Keys : /\ k[1] \in EntityIds
                    /\ ~Dooms(Nil, k)
                    /\ Dooms("all", k)
                    /\ \A e \in EntityIds : Dooms(e, k) <=> k[1] = e
BY IndexAssumption DEF Keys, Dooms, IndexAssumption

\* The record of a thread that has no job.
LEMMA IdleRecord == Idle \in JobRecords
<1>1. NoFiles \in Files
  BY DEF NoFiles, Files
<1> QED
  BY <1>1 DEF Idle, JobRecords

\* Disturb changes nothing but `clean`, ...
LEMMA DisturbType ==
    ASSUME ViewTypeOK, NEW ks
    PROVE  Disturb(ks) \in [Jobs -> JobRecords]
<1> SUFFICES ASSUME NEW i \in Jobs PROVE Disturb(ks)[i] \in JobRecords
  BY DEF Disturb
<1>1. job[i] \in JobRecords
  BY DEF ViewTypeOK
<1>2. [job[i] EXCEPT !.clean = FALSE] \in JobRecords
  BY <1>1 DEF JobRecords
<1> QED
  BY <1>1, <1>2 DEF Disturb

\* ... whichever job it is about, ...
LEMMA DisturbKeeps ==
    ASSUME ViewTypeOK, NEW ks, NEW i \in Jobs
    PROVE  LET d == Disturb(ks)[i] IN
           /\ d.kind = job[i].kind /\ d.key = job[i].key
           /\ d.data = job[i].data /\ d.pc = job[i].pc
           /\ d.skipped = job[i].skipped
<1>1. job[i] \in JobRecords
  BY DEF ViewTypeOK
<1>2. Disturb(ks)[i] \in {job[i], [job[i] EXCEPT !.clean = FALSE]}
  BY DEF Disturb
<1> QED
  BY <1>1, <1>2 DEF JobRecords

\* ... and Outdate nothing but `stale`.
LEMMA OutdateType ==
    ASSUME NEW jobs \in [Jobs -> JobRecords]
    PROVE  Outdate(jobs) \in [Jobs -> JobRecords]
<1> SUFFICES ASSUME NEW i \in Jobs PROVE Outdate(jobs)[i] \in JobRecords
  BY DEF Outdate
<1>1. [jobs[i] EXCEPT !.stale = TRUE] \in JobRecords
  BY DEF JobRecords
<1> QED
  BY <1>1 DEF Outdate

\* A step of a job to its next call keeps the types.
LEMMA PcType ==
    ASSUME NEW r \in JobRecords,
           NEW pc \in {"idle", "list", "delete", "add", "create", "drop"}
    PROVE  [r EXCEPT !.pc = pc] \in JobRecords
BY DEF JobRecords

\* The rows of a key after its first add.
LEMMA AppendToEmpty == \A x : Append(<<>>, x) = <<x>>
OBVIOUS

\* Changing the rows of one key gives a table.
LEMMA RowsType ==
    ASSUME NEW t \in Tables, NEW k \in Keys, NEW s \in Seq(Versions)
    PROVE  [t EXCEPT !.rows[k] = s] \in Tables
BY DEF Tables

\* The content that a sync copies is a version.
LEMMA SyncJob ==
    ASSUME ViewTypeOK, NEW j \in Jobs, job[j].kind = "sync"
    PROVE  /\ job[j].key \in Keys
           /\ job[j].data[job[j].key] \in Versions
           /\ \A k \in Keys : Touches(j, k) <=> k = job[j].key
BY DEF ViewTypeOK, HasFile, JobRecords, Files, Touches

\* A rebuild touches every key.
LEMMA RebuildJob ==
    ASSUME NEW j \in Jobs, job[j].kind = "rebuild"
    PROVE  \A k \in Keys : Touches(j, k)
BY DEF Touches

\* What the end of a job does: it touches nothing any more, the others are as
\* before, and a clean one leaves its keys fresh and not tangled.
LEMMA FinishKeeps ==
    ASSUME IInv, NEW j \in Jobs, NEW ks \in SUBSET Keys, Finish(j, ks),
           \A k \in ks : Touches(j, k), UNCHANGED <<staging, deleting>>
    PROVE  /\ job' \in [Jobs -> JobRecords]
           /\ \A i \in Jobs \ {j} : job'[i] = job[i]
           /\ \A i \in Jobs, k \in Keys : Touches(i, k)' <=> i # j /\ Touches(i, k)
           /\ fresh' \subseteq Keys /\ tangled' \subseteq Keys
           /\ FreshIdle'
           /\ CleanAlone'
           /\ CleanReads'
           /\ OverlapTangles'
           /\ DeletedHasNoFiles'
<1> USE DEF IInv
<1>1. job' \in [Jobs -> JobRecords]
  BY IdleRecord DEF Finish, ViewTypeOK
<1>2. \A i \in Jobs \ {j} : job'[i] = job[i]
  BY DEF Finish, ViewTypeOK
<1>3. job'[j] = Idle
  BY DEF Finish, ViewTypeOK
<1>4. \A i \in Jobs, k \in Keys : Touches(i, k)' <=> i # j /\ Touches(i, k)
  BY <1>2, <1>3 DEF Touches, Idle
<1>5. fresh' \subseteq Keys /\ tangled' \subseteq Keys
  BY DEF Finish, ViewTypeOK
<1>6. FreshIdle'
  <2> SUFFICES ASSUME NEW k \in fresh' PROVE ~Busy(k)' /\ ~Dooms(deleting', k)
    BY DEF FreshIdle
  <2>1. CASE k \in fresh
    BY <1>4, <1>5, <2>1 DEF FreshIdle, Busy
  <2>2. CASE k \notin fresh
    <3>1. job[j].clean /\ k \in ks
      BY <2>2 DEF Finish
    <3> QED
      BY <1>4, <3>1 DEF CleanAlone, Busy
  <2> QED
    BY <2>1, <2>2
<1>7. CleanAlone'
  BY <1>2, <1>3, <1>4 DEF CleanAlone, Idle
<1>8. CleanReads'
  BY <1>2, <1>3, <1>4 DEF CleanReads, Idle
<1>9. OverlapTangles'
  <2> SUFFICES ASSUME NEW i \in Jobs, NEW h \in Jobs, NEW k \in Keys,
                      Touches(i, k)', Touches(h, k)', i # h
               PROVE  k \in tangled'
    BY DEF OverlapTangles
  <2>1. i # j /\ Touches(i, k) /\ Touches(h, k)
    BY <1>4
  <2>2. k \in tangled
    BY <2>1 DEF OverlapTangles
  <2>3. k \in ks => ~job[j].clean
    BY <2>1 DEF CleanAlone
  <2> QED
    BY <2>2, <2>3 DEF Finish
<1>10. DeletedHasNoFiles'
  BY DEF DeletedHasNoFiles
<1> QED
  BY <1>1, <1>2, <1>4, <1>5, <1>6, <1>7, <1>8, <1>9, <1>10

-----------------------------------------------------------------------------
(* The event loop and the jobs, one lemma for each action.                 *)

\* A new content disturbs the jobs on its key, which is not fresh any more.
LEMMA WriteIInv ==
    ASSUME IInv, NEW k \in Keys, Write(k)
    PROVE  IInv'
<1> USE DEF IInv
<1>1. ViewTypeOK'
  <2>1. staging' \in Files
    BY IndexAssumption DEF Write, ViewTypeOK, Files, Versions, IndexAssumption
  <2>2. table' \in Tables \cup {Nil}
    BY DEF Write, ViewTypeOK
  <2>3. job' \in [Jobs -> JobRecords]
    BY DisturbType DEF Write
  <2>4. \A i \in Jobs : job'[i].kind = "sync" =>
            job'[i].key \in Keys /\ job'[i].data[job'[i].key] # Nil
    BY DEF Write, Disturb, ViewTypeOK, JobRecords, HasFile
  <2>5. writes' \in 0..MaxWrites /\ failures' \in 0..MaxFailures
    BY IndexAssumption DEF Write, ViewTypeOK, IndexAssumption
  <2>6. /\ deleting' \in EntityIds \cup {Nil, "all"}
        /\ fresh' \subseteq Keys /\ tangled' \subseteq Keys
    BY DEF Write, ViewTypeOK
  <2> QED
    BY <2>1, <2>2, <2>3, <2>4, <2>5, <2>6 DEF ViewTypeOK, HasFile
<1>2. \A i \in Jobs, l \in Keys : Touches(i, l)' <=> Touches(i, l)
  BY DEF Write, Disturb, ViewTypeOK, JobRecords, Touches
<1>3. \A i \in Jobs : job'[i].clean => job[i].clean /\ ~Touches(i, k)
  BY DEF Write, Disturb, ViewTypeOK, JobRecords
<1>4. FreshIdle'
  BY <1>2 DEF Write, FreshIdle, Busy, ViewTypeOK
<1>5. CleanAlone'
  BY <1>2, <1>3 DEF Write, CleanAlone
<1>6. CleanReads'
  BY <1>2, <1>3 DEF Write, Disturb, CleanReads, ViewTypeOK, JobRecords, Files
<1>7. OverlapTangles'
  BY <1>2 DEF Write, OverlapTangles
<1>8. AddAfterDelete'
  BY <1>3 DEF Write, Disturb, AddAfterDelete, JobAt, Rows, ViewTypeOK, JobRecords
<1>9. DeletedHasNoFiles'
  BY KeyIsOfEntity DEF Write, Loop, DeletedHasNoFiles
<1>10. FreshExact'
  BY DEF Write, FreshExact, Rows, ViewTypeOK, Files
<1>11. DuplicatesNeedOverlap'
  BY DEF Write, DuplicatesNeedOverlap, Rows
<1>12. SchemaFitsRows'
  BY DEF Write, SchemaFitsRows, Rows
<1> QED
  BY <1>1, <1>4, <1>5, <1>6, <1>7, <1>8, <1>9, <1>10, <1>11, <1>12

\* The files of an entity, or all, go, and their keys are disturbed.
LEMMA RemoveFilesIInv ==
    ASSUME IInv, NEW e \in EntityIds \cup {"all"}, RemoveFiles(e)
    PROVE  IInv'
<1> USE DEF IInv
<1>1. ViewTypeOK'
  <2>1. staging' \in Files
    BY DEF RemoveFiles, ViewTypeOK, Files
  <2>2. table' \in Tables \cup {Nil}
    BY DEF RemoveFiles, ViewTypeOK
  <2>3. job' \in [Jobs -> JobRecords]
    BY DisturbType DEF RemoveFiles
  <2>4. \A i \in Jobs : job'[i].kind = "sync" =>
            job'[i].key \in Keys /\ job'[i].data[job'[i].key] # Nil
    BY DEF RemoveFiles, Disturb, ViewTypeOK, JobRecords, HasFile
  <2> QED
    BY <2>1, <2>2, <2>3, <2>4, IndexAssumption
       DEF RemoveFiles, ViewTypeOK, HasFile, counters, IndexAssumption
<1>2. \A i \in Jobs, l \in Keys : Touches(i, l)' <=> Touches(i, l)
  BY DEF RemoveFiles, Disturb, ViewTypeOK, JobRecords, Touches
<1>3. \A i \in Jobs : job'[i].clean =>
          job[i].clean /\ \A l \in Keys : Dooms(e, l) => ~Touches(i, l)
  BY DEF RemoveFiles, Disturb, ViewTypeOK, JobRecords
<1>4. FreshIdle'
  BY <1>2 DEF RemoveFiles, FreshIdle, Busy, ViewTypeOK
<1>5. CleanAlone'
  BY <1>2, <1>3 DEF RemoveFiles, CleanAlone
<1>6. CleanReads'
  BY <1>2, <1>3 DEF RemoveFiles, Disturb, CleanReads, ViewTypeOK, JobRecords, Files
<1>7. OverlapTangles'
  BY <1>2 DEF RemoveFiles, OverlapTangles
<1>8. AddAfterDelete'
  BY <1>3 DEF RemoveFiles, Disturb, AddAfterDelete, JobAt, Rows, ViewTypeOK, JobRecords
<1>9. DeletedHasNoFiles'
  BY DEF RemoveFiles, DeletedHasNoFiles
<1>10. FreshExact'
  BY DEF RemoveFiles, FreshExact, Rows, ViewTypeOK, Files
<1>11. DuplicatesNeedOverlap'
  BY DEF RemoveFiles, DuplicatesNeedOverlap, Rows
<1>12. SchemaFitsRows'
  BY DEF RemoveFiles, SchemaFitsRows, Rows
<1> QED
  BY <1>1, <1>4, <1>5, <1>6, <1>7, <1>8, <1>9, <1>10, <1>11, <1>12

\* The rows of the entity go; its keys that no job touches are fresh again.
LEMMA DeleteRowsIInv ==
    ASSUME IInv, DeleteRows
    PROVE  IInv'
<1> USE DEF IInv
<1>1. table # Nil => table' \in Tables
  <2> SUFFICES ASSUME table # Nil PROVE table' \in Tables
    OBVIOUS
  <2>1. table \in Tables
    BY DEF ViewTypeOK
  <2>2. [k \in Keys |-> IF k \in {l \in Keys : l[1] = deleting}
                       THEN <<>> ELSE table.rows[k]] \in [Keys -> Seq(Versions)]
    BY <2>1 DEF Tables
  <2> QED
    BY <2>1, <2>2 DEF DeleteRows, Tables
<1>2. ViewTypeOK'
  <2>1. staging' \in Files
    BY DEF DeleteRows, ViewTypeOK
  <2>2. table' \in Tables \cup {Nil}
    BY <1>1 DEF DeleteRows
  <2>3. job' \in [Jobs -> JobRecords]
    BY DEF DeleteRows, ViewTypeOK
  <2>4. \A i \in Jobs : job'[i].kind = "sync" =>
            job'[i].key \in Keys /\ job'[i].data[job'[i].key] # Nil
    BY DEF DeleteRows, ViewTypeOK, HasFile
  <2> QED
    BY <2>1, <2>2, <2>3, <2>4, IndexAssumption
       DEF DeleteRows, ViewTypeOK, HasFile, counters, IndexAssumption
<1>3. \A k \in Keys : Rows(k)' = IF k[1] = deleting THEN <<>> ELSE Rows(k)
  <2>1. CASE table = Nil
    BY <2>1 DEF DeleteRows, Rows
  <2>2. CASE table # Nil
    <3>1. table \in Tables /\ table' # Nil
      BY <1>1, <2>2, IndexAssumption DEF ViewTypeOK, IndexAssumption
    <3> QED
      BY <2>2, <3>1 DEF DeleteRows, Rows, Tables
  <2> QED
    BY <2>1, <2>2
<1>4. \A i \in Jobs, k \in Keys : Touches(i, k)' <=> Touches(i, k)
  BY DEF DeleteRows, Touches
<1>5. FreshIdle'
  <2>1. \A k \in fresh' : ~Busy(k)
    BY DEF DeleteRows, FreshIdle
  <2>2. \A k \in fresh' : ~Dooms(deleting', k)
    BY KeyIsOfEntity DEF DeleteRows, ViewTypeOK
  <2>3. \A k \in fresh' : ~Busy(k)'
    BY <1>4, <2>1 DEF DeleteRows, ViewTypeOK, Busy
  <2> QED
    BY <2>2, <2>3 DEF FreshIdle
<1>6. CleanAlone'
  BY <1>4, KeyIsOfEntity DEF DeleteRows, CleanAlone
<1>7. CleanReads'
  BY <1>4 DEF DeleteRows, CleanReads
<1>8. OverlapTangles'
  BY <1>4 DEF DeleteRows, OverlapTangles, Busy
<1>9. AddAfterDelete'
  <2> SUFFICES ASSUME NEW j \in Jobs, NEW k \in Keys,
                      JobAt(j, "sync", "add"), job[j].key = k,
                      job[j].clean \/ k \notin tangled'
               PROVE  Rows(k)' = <<>>
    BY DEF DeleteRows, AddAfterDelete, JobAt
  <2>1. Busy(k)
    BY SyncJob DEF JobAt, Busy
  <2>2. job[j].clean \/ k \notin tangled
    BY <2>1 DEF DeleteRows
  <2>3. Rows(k) = <<>>
    BY <2>2 DEF AddAfterDelete
  <2> QED
    BY <1>3, <2>3
<1>10. DeletedHasNoFiles'
  BY KeyIsOfEntity DEF DeleteRows, DeletedHasNoFiles
<1>11. FreshExact'
  BY <1>3, KeyIsOfEntity
     DEF DeleteRows, FreshExact, FreshIdle, DeletedHasNoFiles, ViewTypeOK
<1>12. DuplicatesNeedOverlap'
  BY <1>3 DEF DeleteRows, DuplicatesNeedOverlap
<1>13. SchemaFitsRows'
  BY <1>3, IndexAssumption DEF DeleteRows, SchemaFitsRows, Rows, ViewTypeOK, Tables
<1> QED
  BY <1>2, <1>5, <1>6, <1>7, <1>8, <1>9, <1>10, <1>11, <1>12, <1>13

\* Without files and table everything that nobody touches is exact.
LEMMA DropTableIInv ==
    ASSUME IInv, DropTable
    PROVE  IInv'
<1> USE DEF IInv
<1>0. \A k \in Keys : staging[k] = Nil
  BY KeyIsOfEntity DEF DropTable, DeletedHasNoFiles
<1>1. ViewTypeOK'
  <2>1. staging' \in Files
    BY DEF DropTable, ViewTypeOK
  <2>2. table' \in Tables \cup {Nil}
    BY DEF DropTable
  <2>3. job' \in [Jobs -> JobRecords]
    BY OutdateType DEF DropTable, ViewTypeOK
  <2>4. \A i \in Jobs : job'[i].kind = "sync" =>
            job'[i].key \in Keys /\ job'[i].data[job'[i].key] # Nil
    BY DEF DropTable, Outdate, ViewTypeOK, JobRecords, HasFile
  <2> QED
    BY <2>1, <2>2, <2>3, <2>4, IndexAssumption
       DEF DropTable, ViewTypeOK, HasFile, counters, IndexAssumption
<1>2. \A k \in Keys : Rows(k)' = <<>>
  BY DEF DropTable, Rows
<1>3. \A i \in Jobs, k \in Keys : Touches(i, k)' <=> Touches(i, k)
  BY DEF DropTable, Outdate, ViewTypeOK, JobRecords, Touches
<1>4. \A i \in Jobs, k \in Keys : Touches(i, k) => ~job'[i].clean
  <2>1. \A i \in Jobs, k \in Keys : Touches(i, k) => ~job[i].clean
    BY KeyIsOfEntity DEF DropTable, CleanAlone
  <2> QED
    BY <2>1 DEF DropTable, Outdate, ViewTypeOK, JobRecords
<1>5. FreshIdle'
  <2>1. \A k \in fresh' : ~Busy(k)
    BY DEF DropTable, FreshIdle
  <2>2. \A k \in fresh' : ~Dooms(deleting', k)
    BY KeyIsOfEntity DEF DropTable, ViewTypeOK
  <2>3. \A k \in fresh' : ~Busy(k)'
    BY <1>3, <2>1 DEF DropTable, ViewTypeOK, Busy
  <2> QED
    BY <2>2, <2>3 DEF FreshIdle
<1>6. CleanAlone'
  BY <1>3, <1>4 DEF CleanAlone
<1>7. CleanReads'
  BY <1>3, <1>4 DEF CleanReads
<1>8. OverlapTangles'
  BY <1>3 DEF DropTable, OverlapTangles, Busy
<1>9. AddAfterDelete'
  BY <1>2 DEF AddAfterDelete
<1>10. DeletedHasNoFiles'
  BY KeyIsOfEntity DEF DropTable, DeletedHasNoFiles
<1>11. FreshExact'
  BY <1>0, <1>1, <1>2 DEF DropTable, FreshExact, ViewTypeOK
<1>12. DuplicatesNeedOverlap'
  BY <1>2 DEF DuplicatesNeedOverlap
<1>13. SchemaFitsRows'
  BY <1>2 DEF SchemaFitsRows
<1> QED
  BY <1>1, <1>5, <1>6, <1>7, <1>8, <1>9, <1>10, <1>11, <1>12, <1>13

\* A sync that starts beside another job on its key tangles it.
LEMMA SyncStartIInv ==
    ASSUME IInv, NEW j \in Jobs, NEW k \in Keys, SyncStart(j, k)
    PROVE  IInv'
<1> USE DEF IInv
<1> DEFINE started == [Idle EXCEPT !.kind = "sync", !.key = k, !.data = staging,
                                   !.pc = "list", !.clean = ~Busy(k)]
<1>1. ViewTypeOK'
  <2>1. staging' \in Files
    BY DEF SyncStart, ViewTypeOK
  <2>2. table' \in Tables \cup {Nil}
    BY DEF SyncStart, ViewTypeOK
  <2>3. job' \in [Jobs -> JobRecords]
    <3>1. started \in JobRecords
      BY DEF Idle, JobRecords, ViewTypeOK
    <3> QED
      BY <3>1, DisturbType DEF SyncStart
  <2>4. \A i \in Jobs : job'[i].kind = "sync" =>
            job'[i].key \in Keys /\ job'[i].data[job'[i].key] # Nil
    BY DEF SyncStart, Disturb, ViewTypeOK, JobRecords, HasFile
  <2> QED
    BY <2>1, <2>2, <2>3, <2>4, IndexAssumption
       DEF SyncStart, ViewTypeOK, HasFile, counters, IndexAssumption
<1>2. /\ job'[j] = started
      /\ \A i \in Jobs \ {j} : job'[i] = Disturb({k})[i]
  BY DEF SyncStart, Disturb
<1>3. \A i \in Jobs, l \in Keys :
         Touches(i, l)' <=> Touches(i, l) \/ (i = j /\ l = k)
  BY <1>2 DEF SyncStart, Free, Disturb, Touches, Idle, ViewTypeOK, JobRecords
<1>4. \A i \in Jobs \ {j} : job'[i].clean => job[i].clean /\ ~Touches(i, k)
  BY <1>2 DEF Disturb, ViewTypeOK, JobRecords
<1>5. job'[j].clean <=> ~Busy(k)
  BY <1>2 DEF Idle
<1>6. \A l \in Keys : ~Touches(j, l)
  BY DEF SyncStart, Free, Touches
<1>7. FreshIdle'
  BY <1>3 DEF SyncStart, FreshIdle, Busy, ViewTypeOK
<1>8. CleanAlone'
  <2> SUFFICES ASSUME NEW i \in Jobs, NEW l \in Keys, job'[i].clean, Touches(i, l)'
               PROVE  /\ \A h \in Jobs : Touches(h, l)' => h = i
                      /\ ~Dooms(deleting', l)
    BY DEF CleanAlone
  <2>1. ~Dooms(deleting', l)
    BY KeyIsOfEntity DEF SyncStart, Loop
  <2>2. CASE i = j
    BY <1>3, <1>5, <1>6, <2>1, <2>2 DEF Busy
  <2>3. CASE i # j
    BY <1>3, <1>4, <2>1, <2>3 DEF CleanAlone
  <2> QED
    BY <2>2, <2>3
<1>9. CleanReads'
  <2> SUFFICES ASSUME NEW i \in Jobs, NEW l \in Keys, job'[i].clean, Touches(i, l)'
               PROVE  \/ job'[i].data[l] = staging[l]
                      \/ job'[i].kind = "rebuild" /\ l \in job'[i].skipped
    BY DEF SyncStart, CleanReads
  <2>1. CASE i = j
    BY <1>2, <2>1 DEF Idle
  <2>2. CASE i # j
    <3>1. /\ job'[i].data = job[i].data /\ job'[i].kind = job[i].kind
          /\ job'[i].skipped = job[i].skipped
      BY <1>2, <2>2, DisturbKeeps
    <3> QED
      BY <1>3, <1>4, <2>2, <3>1 DEF CleanReads
  <2> QED
    BY <2>1, <2>2
<1>10. OverlapTangles'
  BY <1>3 DEF SyncStart, OverlapTangles, Busy
<1>11. AddAfterDelete'
  <2> SUFFICES ASSUME NEW i \in Jobs, NEW l \in Keys,
                      JobAt(i, "sync", "add")', job'[i].key = l,
                      job'[i].clean \/ l \notin tangled'
               PROVE  Rows(l)' = <<>>
    BY DEF AddAfterDelete
  <2>1. i # j
    BY <1>2 DEF JobAt, Idle
  <2>2. JobAt(i, "sync", "add") /\ job[i].key = l
    BY <1>2, <2>1, DisturbKeeps DEF JobAt
  <2>3. job[i].clean \/ l \notin tangled
    <3>1. tangled \subseteq tangled'
      BY DEF SyncStart
    <3> QED
      BY <1>4, <2>1, <3>1
  <2> QED
    BY <2>2, <2>3 DEF SyncStart, AddAfterDelete, Rows
<1>12. DeletedHasNoFiles'
  BY DEF SyncStart, DeletedHasNoFiles
<1>13. FreshExact'
  BY DEF SyncStart, FreshExact, Rows
<1>14. DuplicatesNeedOverlap'
  BY DEF SyncStart, DuplicatesNeedOverlap, Rows
<1>15. SchemaFitsRows'
  BY DEF SyncStart, SchemaFitsRows, Rows
<1> QED
  BY <1>1, <1>7, <1>8, <1>9, <1>10, <1>11, <1>12, <1>13, <1>14, <1>15

\* The rows of the key go, which nobody relies on while a job is at work.
LEMMA SyncDeleteIInv ==
    ASSUME IInv, NEW j \in Jobs, SyncDelete(j)
    PROVE  IInv'
<1> USE DEF IInv
<1> DEFINE k == job[j].key
<1>1. k \in Keys /\ Touches(j, k) /\ table \in Tables
  BY SyncJob DEF SyncDelete, JobAt, ViewTypeOK
<1>2. table' \in Tables
  <2>1. <<>> \in Seq(Versions)
    OBVIOUS
  <2> QED
    BY <1>1, <2>1, RowsType DEF SyncDelete
<1>3. ViewTypeOK'
  <2>1. staging' \in Files
    BY DEF SyncDelete, ViewTypeOK
  <2>2. table' \in Tables \cup {Nil}
    BY <1>2
  <2>3. job' \in [Jobs -> JobRecords]
    BY PcType DEF SyncDelete, JobGoto, ViewTypeOK
  <2>4. \A i \in Jobs : job'[i].kind = "sync" =>
            job'[i].key \in Keys /\ job'[i].data[job'[i].key] # Nil
    BY DEF SyncDelete, JobGoto, ViewTypeOK, JobRecords, HasFile
  <2> QED
    BY <2>1, <2>2, <2>3, <2>4, IndexAssumption
       DEF SyncDelete, ViewTypeOK, HasFile, counters, IndexAssumption
<1>4. \A l \in Keys : Rows(l)' = IF l = k THEN <<>> ELSE Rows(l)
  BY <1>1, <1>2, IndexAssumption DEF SyncDelete, Rows, Tables, IndexAssumption
<1>5. \A i \in Jobs, l \in Keys : Touches(i, l)' <=> Touches(i, l)
  BY DEF SyncDelete, JobGoto, Touches, ViewTypeOK, JobRecords
<1>6. FreshIdle'
  BY <1>5 DEF SyncDelete, FreshIdle, Busy, ViewTypeOK
<1>7. CleanAlone'
  BY <1>5 DEF SyncDelete, JobGoto, CleanAlone, ViewTypeOK, JobRecords
<1>8. CleanReads'
  BY <1>5 DEF SyncDelete, JobGoto, CleanReads, ViewTypeOK, JobRecords
<1>9. OverlapTangles'
  BY <1>5 DEF SyncDelete, OverlapTangles
<1>10. AddAfterDelete'
  <2> SUFFICES ASSUME NEW i \in Jobs, NEW l \in Keys,
                      JobAt(i, "sync", "add")', job'[i].key = l,
                      job'[i].clean \/ l \notin tangled'
               PROVE  Rows(l)' = <<>>
    BY DEF AddAfterDelete
  <2>2. CASE i = j
    BY <1>4, <2>2 DEF SyncDelete, JobGoto, ViewTypeOK, JobRecords
  <2>3. CASE i # j
    <3>1. job'[i] = job[i]
      BY <2>3 DEF SyncDelete, JobGoto, ViewTypeOK
    <3>2. Rows(l) = <<>>
      BY <3>1 DEF SyncDelete, AddAfterDelete, JobAt
    <3> QED
      BY <1>4, <3>2
  <2> QED
    BY <2>2, <2>3
<1>11. DeletedHasNoFiles'
  BY DEF SyncDelete, DeletedHasNoFiles
<1>12. FreshExact'
  <2>1. k \notin fresh
    BY <1>1 DEF FreshIdle, Busy
  <2> QED
    BY <1>4, <2>1 DEF SyncDelete, FreshExact, ViewTypeOK
<1>13. DuplicatesNeedOverlap'
  BY <1>4 DEF SyncDelete, DuplicatesNeedOverlap
<1>14. SchemaFitsRows'
  BY <1>1, <1>4 DEF SyncDelete, SchemaFitsRows, Tables
<1> QED
  BY <1>3, <1>6, <1>7, <1>8, <1>9, <1>10, <1>11, <1>12, <1>13, <1>14

\* A clean sync finds no rows left when it adds: its key is exact.
LEMMA SyncAddIInv ==
    ASSUME IInv, NEW j \in Jobs, SyncAdd(j)
    PROVE  IInv'
<1> USE DEF IInv
<1> DEFINE k == job[j].key
<1>1. /\ k \in Keys /\ job[j].data[k] \in Versions
      /\ {k} \in SUBSET Keys /\ \A l \in {k} : Touches(j, l)
      /\ table \in Tables
  BY SyncJob DEF SyncAdd, JobAt, ViewTypeOK
<1>2. /\ job' \in [Jobs -> JobRecords]
      /\ \A i \in Jobs \ {j} : job'[i] = job[i]
      /\ \A i \in Jobs, l \in Keys : Touches(i, l)' <=> i # j /\ Touches(i, l)
      /\ fresh' \subseteq Keys /\ tangled' \subseteq Keys
      /\ FreshIdle' /\ CleanAlone' /\ CleanReads' /\ OverlapTangles'
      /\ DeletedHasNoFiles'
  BY <1>1, FinishKeeps DEF SyncAdd
<1>3. job'[j] = Idle
  BY DEF SyncAdd, Finish, ViewTypeOK
<1>4. table' \in Tables
  <2>1. Append(table.rows[k], job[j].data[k]) \in Seq(Versions)
    BY <1>1 DEF Tables
  <2> QED
    BY <1>1, <2>1, RowsType DEF SyncAdd
<1>5. ViewTypeOK'
  <2>2. \A i \in Jobs : job'[i].kind = "sync" =>
            job'[i].key \in Keys /\ job'[i].data[job'[i].key] # Nil
    BY <1>2, <1>3 DEF Idle, ViewTypeOK, HasFile
  <2> QED
    BY <1>2, <1>4, <2>2 DEF SyncAdd, ViewTypeOK, HasFile, counters
<1>6. \A l \in Keys : Rows(l)' = IF l = k THEN Append(Rows(k), job[j].data[k])
                                ELSE Rows(l)
  BY <1>1, <1>4, IndexAssumption
     DEF SyncAdd, Rows, Tables, IndexAssumption, ViewTypeOK
<1>7. job[j].clean \/ k \notin tangled => Rows(k) = <<>>
  BY <1>1 DEF SyncAdd, AddAfterDelete
<1>8. AddAfterDelete'
  <2> SUFFICES ASSUME NEW i \in Jobs, NEW l \in Keys,
                      JobAt(i, "sync", "add")', job'[i].key = l,
                      job'[i].clean \/ l \notin tangled'
               PROVE  Rows(l)' = <<>>
    BY DEF AddAfterDelete
  <2>1. i # j /\ job'[i] = job[i] /\ JobAt(i, "sync", "add")
    BY <1>2, <1>3 DEF JobAt, Idle
  <2>2. job[i].key = l /\ Touches(i, l)
    BY <2>1, SyncJob DEF JobAt
  <2>3. l # k
    <3> SUFFICES ASSUME l = k PROVE FALSE
      OBVIOUS
    <3>1. ~job[i].clean /\ ~job[j].clean
      BY <1>1, <2>1, <2>2 DEF CleanAlone
    <3>2. k \in tangled
      BY <1>1, <2>1, <2>2 DEF OverlapTangles
    <3> QED
      BY <2>1, <3>1, <3>2 DEF SyncAdd, Finish
  <2>4. job[i].clean \/ l \notin tangled
    BY <2>1, <2>3 DEF SyncAdd, Finish
  <2> QED
    BY <1>6, <2>1, <2>2, <2>3, <2>4 DEF AddAfterDelete
<1>9. FreshExact'
  <2> SUFFICES ASSUME NEW l \in fresh'
               PROVE  Rows(l)' = IF staging[l] = Nil THEN <<>> ELSE <<staging[l]>>
    BY DEF SyncAdd, FreshExact
  <2>1. CASE l = k
    <3>1. k \notin fresh
      BY <1>1 DEF FreshIdle, Busy
    <3>2. job[j].clean
      BY <2>1, <3>1 DEF SyncAdd, Finish
    <3>3. job[j].data[k] = staging[k]
      BY <1>1, <3>2 DEF CleanReads, SyncAdd, JobAt
    <3>4. staging[k] # Nil
      BY <1>1, <3>3, IndexAssumption DEF Versions, IndexAssumption
    <3>5. Rows(l)' = Append(<<>>, staging[l])
      BY <1>1, <1>6, <1>7, <2>1, <3>2, <3>3
    <3> QED
      BY <2>1, <3>4, <3>5, AppendToEmpty
  <2>2. CASE l # k
    BY <1>2, <1>6, <2>2 DEF SyncAdd, Finish, FreshExact
  <2> QED
    BY <2>1, <2>2
<1>10. DuplicatesNeedOverlap'
  <2> SUFFICES ASSUME NEW l \in Keys, l \notin tangled'
               PROVE  ~(Len(Rows(l)') > 1)
    BY DEF DuplicatesNeedOverlap
  <2>1. CASE l = k
    <3>1. Rows(k) = <<>>
      BY <1>7, <2>1 DEF SyncAdd, Finish
    <3>2. Rows(l)' = <<job[j].data[k]>>
      BY <1>6, <2>1, <3>1, AppendToEmpty
    <3> QED
      BY <3>2
  <2>2. CASE l # k
    BY <1>6, <2>2 DEF SyncAdd, Finish, DuplicatesNeedOverlap
  <2> QED
    BY <2>1, <2>2
<1>11. SchemaFitsRows'
  BY <1>1, <1>6 DEF SyncAdd, Castable, SchemaFitsRows, Tables
<1> QED
  BY <1>5, <1>2, <1>8, <1>9, <1>10, <1>11

\* Without a table every key had no rows; the first ones are of one key.
LEMMA SyncCreateIInv ==
    ASSUME IInv, NEW j \in Jobs, SyncCreate(j)
    PROVE  IInv'
<1> USE DEF IInv
<1> DEFINE k == job[j].key
<1>1. /\ k \in Keys /\ job[j].data[k] \in Versions
      /\ {k} \in SUBSET Keys /\ \A l \in {k} : Touches(j, l)
  BY SyncJob DEF SyncCreate, JobAt
<1>2. /\ job' \in [Jobs -> JobRecords]
      /\ \A i \in Jobs \ {j} : job'[i] = job[i]
      /\ \A i \in Jobs, l \in Keys : Touches(i, l)' <=> i # j /\ Touches(i, l)
      /\ fresh' \subseteq Keys /\ tangled' \subseteq Keys
      /\ FreshIdle' /\ CleanAlone' /\ CleanReads' /\ OverlapTangles'
      /\ DeletedHasNoFiles'
  BY <1>1, FinishKeeps DEF SyncCreate
<1>3. job'[j] = Idle
  BY DEF SyncCreate, Finish, ViewTypeOK
<1>4. table' \in Tables
  <2>1. <<job[j].data[k]>> \in Seq(Versions) /\ <<>> \in Seq(Versions)
    BY <1>1
  <2>2. [NoRows EXCEPT ![k] = <<job[j].data[k]>>] \in [Keys -> Seq(Versions)]
    BY <2>1 DEF NoRows
  <2> QED
    BY <2>2 DEF SyncCreate, Tables, IsLexical
<1>5. ViewTypeOK'
  <2>2. \A i \in Jobs : job'[i].kind = "sync" =>
            job'[i].key \in Keys /\ job'[i].data[job'[i].key] # Nil
    BY <1>2, <1>3 DEF Idle, ViewTypeOK, HasFile
  <2> QED
    BY <1>2, <1>4, <2>2 DEF SyncCreate, ViewTypeOK, HasFile, counters
<1>6. \A l \in Keys : Rows(l)' = IF l = k THEN <<job[j].data[k]>> ELSE <<>>
  BY <1>1, <1>4, IndexAssumption
     DEF SyncCreate, Rows, NoRows, Tables, IndexAssumption
<1>7. \A l \in Keys : Rows(l) = <<>>
  BY DEF SyncCreate, Rows
<1>8. AddAfterDelete'
  <2> SUFFICES ASSUME NEW i \in Jobs, NEW l \in Keys,
                      JobAt(i, "sync", "add")', job'[i].key = l,
                      job'[i].clean \/ l \notin tangled'
               PROVE  Rows(l)' = <<>>
    BY DEF AddAfterDelete
  <2>1. i # j /\ job'[i] = job[i] /\ JobAt(i, "sync", "add")
    BY <1>2, <1>3 DEF JobAt, Idle
  <2>2. job[i].key = l /\ Touches(i, l)
    BY <2>1, SyncJob DEF JobAt
  <2>3. l # k
    <3> SUFFICES ASSUME l = k PROVE FALSE
      OBVIOUS
    <3>1. ~job[i].clean /\ ~job[j].clean
      BY <1>1, <2>1, <2>2 DEF CleanAlone
    <3>2. k \in tangled
      BY <1>1, <2>1, <2>2 DEF OverlapTangles
    <3> QED
      BY <2>1, <3>1, <3>2 DEF SyncCreate, Finish
  <2> QED
    BY <1>6, <2>1, <2>2, <2>3
<1>9. FreshExact'
  <2> SUFFICES ASSUME NEW l \in fresh'
               PROVE  Rows(l)' = IF staging[l] = Nil THEN <<>> ELSE <<staging[l]>>
    BY DEF SyncCreate, FreshExact
  <2>1. CASE l = k
    <3>1. k \notin fresh
      BY <1>1 DEF FreshIdle, Busy
    <3>2. job[j].clean
      BY <2>1, <3>1 DEF SyncCreate, Finish
    <3>3. job[j].data[k] = staging[k]
      BY <1>1, <3>2 DEF CleanReads, SyncCreate, JobAt
    <3>4. staging[k] # Nil
      BY <1>1, <3>3, IndexAssumption DEF Versions, IndexAssumption
    <3> QED
      BY <1>1, <1>6, <2>1, <3>3, <3>4
  <2>2. CASE l # k
    <3>1. l \in fresh /\ l \in Keys
      BY <1>2, <2>2 DEF SyncCreate, Finish
    <3> QED
      BY <1>6, <1>7, <2>2, <3>1 DEF FreshExact
  <2> QED
    BY <2>1, <2>2
<1>10. DuplicatesNeedOverlap'
  <2> SUFFICES ASSUME NEW l \in Keys PROVE ~(Len(Rows(l)') > 1)
    BY DEF DuplicatesNeedOverlap
  <2>1. CASE l = k
    <3>1. Rows(l)' = <<job[j].data[k]>>
      BY <1>6, <2>1
    <3> QED
      BY <3>1
  <2>2. CASE l # k
    BY <1>6, <2>2
  <2> QED
    BY <2>1, <2>2
<1>11. SchemaFitsRows'
  BY <1>1, <1>6 DEF SyncCreate, SchemaFitsRows
<1> QED
  BY <1>5, <1>2, <1>8, <1>9, <1>10, <1>11

\* A rebuild touches all keys: nothing is fresh.
LEMMA RebuildStartIInv ==
    ASSUME IInv, NEW j \in Jobs, RebuildStart(j)
    PROVE  IInv'
<1> USE DEF IInv
<1>0. PICK skipped \in SUBSET {k \in Keys : staging[k] # Nil} :
         /\ failures' \in {failures, failures + 1}
         /\ failures' # failures => failures < MaxFailures
         /\ job' = [Disturb(Keys) EXCEPT ![j] =
               [Idle EXCEPT !.kind = "rebuild", !.pc = "drop",
                            !.data = [k \in Keys |-> IF k \in skipped THEN Nil
                                                    ELSE staging[k]],
                            !.skipped = skipped,
                            !.clean = \A k \in Keys : ~Busy(k)]]
  BY DEF RebuildStart
<1> DEFINE data == [k \in Keys |-> IF k \in skipped THEN Nil ELSE staging[k]]
           started == [Idle EXCEPT !.kind = "rebuild", !.pc = "drop",
                                   !.data = data, !.skipped = skipped,
                                   !.clean = \A k \in Keys : ~Busy(k)]
<1>17. job' = [Disturb(Keys) EXCEPT ![j] = started]
  BY <1>0
<1>15. UNCHANGED <<staging, table, deleting, writes>>
  BY DEF RebuildStart
<1>16. data \in Files
  BY DEF ViewTypeOK, Files
<1>1. ViewTypeOK'
  <2>1. staging' \in Files
    BY DEF RebuildStart, ViewTypeOK
  <2>2. table' \in Tables \cup {Nil}
    BY DEF RebuildStart, ViewTypeOK
  <2>3. job' \in [Jobs -> JobRecords]
    <3>1. started \in JobRecords
      BY <1>16 DEF Idle, JobRecords
    <3> QED
      BY <1>17, <3>1, DisturbType
  <2>4. \A i \in Jobs : job'[i].kind = "sync" =>
            job'[i].key \in Keys /\ job'[i].data[job'[i].key] # Nil
    BY <1>17 DEF Disturb, ViewTypeOK, JobRecords, HasFile
  <2>5. /\ deleting' \in EntityIds \cup {Nil, "all"}
        /\ fresh' \subseteq Keys /\ tangled' \subseteq Keys
        /\ writes' \in 0..MaxWrites
    BY <1>15 DEF RebuildStart, ViewTypeOK
  <2>6. failures' \in 0..MaxFailures
    BY <1>0, IndexAssumption DEF ViewTypeOK, IndexAssumption
  <2> QED
    BY <2>1, <2>2, <2>3, <2>4, <2>5, <2>6 DEF ViewTypeOK, HasFile
<1>2. /\ job'[j] = started
      /\ \A i \in Jobs \ {j} : job'[i] = Disturb(Keys)[i]
  BY <1>17 DEF Disturb
<1>18. /\ job'[j].kind = "rebuild" /\ job'[j].pc = "drop"
       /\ job'[j].data = data /\ job'[j].skipped = skipped
  BY <1>2 DEF Idle
<1>3. \A i \in Jobs, l \in Keys : Touches(i, l)' <=> Touches(i, l) \/ i = j
  BY <1>2 DEF RebuildStart, Free, Disturb, Touches, Idle, ViewTypeOK, JobRecords
<1>4. \A i \in Jobs \ {j} : job'[i].clean => \A l \in Keys : ~Touches(i, l)
  BY <1>2 DEF Disturb, ViewTypeOK, JobRecords
<1>5. job'[j].clean <=> \A l \in Keys : ~Busy(l)
  BY <1>2
<1>6. FreshIdle'
  BY DEF RebuildStart, FreshIdle
<1>7. CleanAlone'
  <2> SUFFICES ASSUME NEW i \in Jobs, NEW l \in Keys, job'[i].clean, Touches(i, l)'
               PROVE  /\ \A h \in Jobs : Touches(h, l)' => h = i
                      /\ ~Dooms(deleting', l)
    BY DEF CleanAlone
  <2>1. i = j
    BY <1>3, <1>4
  <2> QED
    BY <1>3, <1>5, <2>1, KeyIsOfEntity DEF RebuildStart, Loop, Busy
<1>8. CleanReads'
  <2> SUFFICES ASSUME NEW i \in Jobs, NEW l \in Keys, job'[i].clean, Touches(i, l)'
               PROVE  \/ job'[i].data[l] = staging[l]
                      \/ job'[i].kind = "rebuild" /\ l \in job'[i].skipped
    BY <1>15 DEF CleanReads
  <2>1. i = j
    BY <1>3, <1>4
  <2>2. l \in skipped \/ data[l] = staging[l]
    OBVIOUS
  <2> HIDE DEF data
  <2> QED
    BY <1>18, <2>1, <2>2
<1>9. OverlapTangles'
  BY <1>3 DEF RebuildStart, OverlapTangles, Busy
<1>10. AddAfterDelete'
  <2> SUFFICES ASSUME NEW i \in Jobs, NEW l \in Keys,
                      JobAt(i, "sync", "add")', job'[i].key = l,
                      job'[i].clean \/ l \notin tangled'
               PROVE  Rows(l)' = <<>>
    BY DEF AddAfterDelete
  <2>1. i # j
    BY <1>18 DEF JobAt
  <2>2. Touches(i, l)
    BY <1>3, <2>1 DEF JobAt, Touches
  <2> QED
    BY <1>4, <2>1, <2>2 DEF RebuildStart, Busy
<1>11. DeletedHasNoFiles'
  BY DEF RebuildStart, DeletedHasNoFiles
<1>12. FreshExact'
  BY DEF RebuildStart, FreshExact
<1>13. DuplicatesNeedOverlap'
  BY DEF RebuildStart, DuplicatesNeedOverlap, Rows
<1>14. SchemaFitsRows'
  BY DEF RebuildStart, SchemaFitsRows, Rows
<1> QED
  BY <1>1, <1>6, <1>7, <1>8, <1>9, <1>10, <1>11, <1>12, <1>13, <1>14

\* Nothing is fresh when the table goes: the rebuild touches every key.
LEMMA RebuildDropIInv ==
    ASSUME IInv, NEW j \in Jobs, RebuildDrop(j)
    PROVE  IInv'
<1> USE DEF IInv
<1>1. ViewTypeOK'
  <2>1. staging' \in Files
    BY DEF RebuildDrop, ViewTypeOK
  <2>2. table' \in Tables \cup {Nil}
    BY DEF RebuildDrop
  <2>3. job' \in [Jobs -> JobRecords]
    <3>1. Outdate(job) \in [Jobs -> JobRecords]
      BY OutdateType DEF ViewTypeOK
    <3> QED
      BY <3>1, PcType DEF RebuildDrop
  <2>4. \A i \in Jobs : job'[i].kind = "sync" =>
            job'[i].key \in Keys /\ job'[i].data[job'[i].key] # Nil
    BY DEF RebuildDrop, Outdate, ViewTypeOK, JobRecords, HasFile
  <2> QED
    BY <2>1, <2>2, <2>3, <2>4, IndexAssumption
       DEF RebuildDrop, ViewTypeOK, HasFile, counters, IndexAssumption
<1>2. \A k \in Keys : Rows(k)' = <<>>
  BY DEF RebuildDrop, Rows
<1>3. \A i \in Jobs, k \in Keys : Touches(i, k)' <=> Touches(i, k)
  BY DEF RebuildDrop, Outdate, ViewTypeOK, JobRecords, Touches
<1>4. fresh = {}
  BY RebuildJob DEF RebuildDrop, JobAt, FreshIdle, Busy, ViewTypeOK
<1>5. FreshIdle'
  BY <1>4 DEF RebuildDrop, FreshIdle
<1>6. CleanAlone'
  BY <1>3 DEF RebuildDrop, Outdate, CleanAlone, ViewTypeOK, JobRecords
<1>7. CleanReads'
  BY <1>3 DEF RebuildDrop, Outdate, CleanReads, ViewTypeOK, JobRecords
<1>8. OverlapTangles'
  BY <1>3 DEF RebuildDrop, OverlapTangles
<1>9. AddAfterDelete'
  BY DEF RebuildDrop, AddAfterDelete, Rows
<1>10. DeletedHasNoFiles'
  BY DEF RebuildDrop, DeletedHasNoFiles
<1>11. FreshExact'
  BY <1>4 DEF RebuildDrop, FreshExact
<1>12. DuplicatesNeedOverlap'
  BY <1>2 DEF DuplicatesNeedOverlap
<1>13. SchemaFitsRows'
  BY <1>2 DEF SchemaFitsRows
<1> QED
  BY <1>1, <1>5, <1>6, <1>7, <1>8, <1>9, <1>10, <1>11, <1>12, <1>13

\* The new table has what the files said; if nobody interfered they still do.
LEMMA RebuildCreateIInv ==
    ASSUME IInv, NEW j \in Jobs, RebuildCreate(j)
    PROVE  IInv'
<1> USE DEF IInv
<1>1. /\ Keys \ job[j].skipped \in SUBSET Keys
      /\ \A l \in Keys : Touches(j, l)
      /\ job[j].data \in Files
  BY RebuildJob DEF RebuildCreate, JobAt, ViewTypeOK, JobRecords
<1>2. /\ job' \in [Jobs -> JobRecords]
      /\ \A i \in Jobs \ {j} : job'[i] = job[i]
      /\ \A i \in Jobs, l \in Keys : Touches(i, l)' <=> i # j /\ Touches(i, l)
      /\ fresh' \subseteq Keys /\ tangled' \subseteq Keys
      /\ FreshIdle' /\ CleanAlone' /\ CleanReads' /\ OverlapTangles'
      /\ DeletedHasNoFiles'
  BY <1>1, FinishKeeps DEF RebuildCreate
<1>3. job'[j] = Idle
  BY DEF RebuildCreate, Finish, ViewTypeOK
<1>4. table' \in Tables
  <2>1. \A l \in Keys : HasFile(j, l) => job[j].data[l] \in Versions
    BY <1>1 DEF HasFile, Files
  <2>2. [l \in Keys |-> IF HasFile(j, l) THEN <<job[j].data[l]>> ELSE <<>>]
        \in [Keys -> Seq(Versions)]
    BY <2>1
  <2> QED
    BY <2>2 DEF RebuildCreate, Tables
<1>5. ViewTypeOK'
  <2>2. \A i \in Jobs : job'[i].kind = "sync" =>
            job'[i].key \in Keys /\ job'[i].data[job'[i].key] # Nil
    BY <1>2, <1>3 DEF Idle, ViewTypeOK, HasFile
  <2> QED
    BY <1>2, <1>4, <2>2 DEF RebuildCreate, ViewTypeOK, HasFile, counters
<1>6. \A l \in Keys : Rows(l)' = IF HasFile(j, l) THEN <<job[j].data[l]>> ELSE <<>>
  BY <1>1, <1>4, IndexAssumption
     DEF RebuildCreate, Rows, ViewTypeOK, Tables, IndexAssumption
<1>7. \A l \in Keys : Rows(l) = <<>>
  BY DEF RebuildCreate, Rows
<1>8. AddAfterDelete'
  <2> SUFFICES ASSUME NEW i \in Jobs, NEW l \in Keys,
                      JobAt(i, "sync", "add")', job'[i].key = l,
                      job'[i].clean \/ l \notin tangled'
               PROVE  Rows(l)' = <<>>
    BY DEF AddAfterDelete
  <2>1. i # j /\ job'[i] = job[i] /\ JobAt(i, "sync", "add")
    BY <1>2, <1>3 DEF JobAt, Idle
  <2>2. job[i].key = l /\ Touches(i, l)
    BY <2>1, SyncJob DEF JobAt
  <2>3. l \in tangled /\ ~job[i].clean /\ ~job[j].clean
    BY <1>1, <2>1, <2>2 DEF CleanAlone, OverlapTangles
  <2> QED
    BY <2>1, <2>3 DEF RebuildCreate, Finish
<1>9. FreshExact'
  <2> SUFFICES ASSUME NEW l \in fresh'
               PROVE  Rows(l)' = IF staging[l] = Nil THEN <<>> ELSE <<staging[l]>>
    BY DEF RebuildCreate, FreshExact
  <2>1. l \in Keys /\ l \notin fresh
    BY <1>1, <1>2 DEF FreshIdle, Busy
  <2>2. job[j].clean /\ l \notin job[j].skipped
    BY <2>1 DEF RebuildCreate, Finish
  <2>3. job[j].data[l] = staging[l]
    BY <1>1, <2>1, <2>2 DEF CleanReads
  <2> QED
    BY <1>6, <2>1, <2>3 DEF HasFile
<1>10. DuplicatesNeedOverlap'
  <2> SUFFICES ASSUME NEW l \in Keys PROVE ~(Len(Rows(l)') > 1)
    BY DEF DuplicatesNeedOverlap
  <2>1. CASE HasFile(j, l)
    <3>1. Rows(l)' = <<job[j].data[l]>>
      BY <1>6, <2>1
    <3> QED
      BY <3>1
  <2>2. CASE ~HasFile(j, l)
    BY <1>6, <2>2
  <2> QED
    BY <2>1, <2>2
<1>11. SchemaFitsRows'
  BY <1>6 DEF RebuildCreate, SchemaFitsRows
<1> QED
  BY <1>5, <1>2, <1>8, <1>9, <1>10, <1>11

-----------------------------------------------------------------------------
(* The remaining steps.                                                    *)

\* A deletion that fails in LanceDB leaves the rows of keys that are not fresh.
LEMMA DeleteFailsIInv ==
    ASSUME IInv, DeleteFails
    PROVE  IInv'
<1> USE DEF IInv
<1>1. ViewTypeOK'
  BY IndexAssumption DEF DeleteFails, ViewTypeOK, HasFile, IndexAssumption
<1>2. FreshIdle' /\ CleanAlone' /\ DeletedHasNoFiles'
  BY KeyIsOfEntity DEF DeleteFails, FreshIdle, CleanAlone, DeletedHasNoFiles,
                       Busy, Touches, ViewTypeOK
<1>3. CleanReads' /\ OverlapTangles' /\ AddAfterDelete'
  BY
     DEF DeleteFails, CleanReads, OverlapTangles, AddAfterDelete, JobAt, Rows,
         Touches
<1>4. FreshExact' /\ DuplicatesNeedOverlap' /\ SchemaFitsRows'
  BY DEF DeleteFails, FreshExact, DuplicatesNeedOverlap, SchemaFitsRows, Rows
<1> QED
  BY <1>1, <1>2, <1>3, <1>4

\* Looking the table up changes nothing but where the job is.
LEMMA SyncListIInv ==
    ASSUME IInv, NEW j \in Jobs, SyncList(j)
    PROVE  IInv'
<1> USE DEF IInv
<1>1. job' \in [Jobs -> JobRecords]
  BY PcType DEF SyncList, JobGoto, ViewTypeOK
<1>2. \A i \in Jobs : /\ job'[i].kind = job[i].kind /\ job'[i].key = job[i].key
                      /\ job'[i].skipped = job[i].skipped
                      /\ job'[i].data = job[i].data /\ job'[i].clean = job[i].clean
                      /\ JobAt(i, "sync", "add")' => JobAt(i, "sync", "add")
  BY DEF SyncList, JobGoto, JobAt, ViewTypeOK, JobRecords
<1>3. \A i \in Jobs, k \in Keys : Touches(i, k)' <=> Touches(i, k)
  BY <1>2 DEF Touches
<1>4. ViewTypeOK'
  BY <1>1, <1>2 DEF SyncList, ViewTypeOK, HasFile, counters
<1>5. FreshIdle' /\ CleanAlone' /\ CleanReads'
  BY <1>2, <1>3 DEF SyncList, FreshIdle, CleanAlone, CleanReads, Busy, ViewTypeOK
<1>6. OverlapTangles' /\ DeletedHasNoFiles'
  BY <1>3 DEF SyncList, OverlapTangles, DeletedHasNoFiles
<1>7. AddAfterDelete'
  BY <1>2 DEF SyncList, AddAfterDelete, Rows
<1>8. FreshExact' /\ DuplicatesNeedOverlap' /\ SchemaFitsRows'
  BY DEF SyncList, FreshExact, DuplicatesNeedOverlap, SchemaFitsRows, Rows
<1> QED
  BY <1>4, <1>5, <1>6, <1>7, <1>8

\* A job that ends without having made its keys fresh: nothing else changes.
LEMMA JobsEndIInv ==
    ASSUME IInv, NEW ended \in SUBSET Jobs,
           job' = [i \in Jobs |-> IF i \in ended THEN Idle ELSE job[i]],
           deleting' \in {deleting, Nil}, failures' \in 0..MaxFailures,
           UNCHANGED <<staging, table, fresh, tangled, writes>>
    PROVE  IInv'
<1> USE DEF IInv
<1>1. job' \in [Jobs -> JobRecords]
  BY IdleRecord DEF ViewTypeOK
<1>2. \A i \in ended : job'[i] = Idle
  OBVIOUS
<1>3. \A i \in Jobs \ ended : job'[i] = job[i]
  OBVIOUS
<1>4. \A i \in Jobs, k \in Keys : Touches(i, k)' <=> i \notin ended /\ Touches(i, k)
  BY <1>2, <1>3 DEF Touches, Idle
<1>5. ViewTypeOK'
  <2>1. \A i \in Jobs : job'[i].kind = "sync" =>
            job'[i].key \in Keys /\ job'[i].data[job'[i].key] # Nil
    BY <1>2, <1>3 DEF Idle, ViewTypeOK, HasFile
  <2> QED
    BY <1>1, <2>1 DEF ViewTypeOK, HasFile
<1>6. FreshIdle'
  BY <1>4, KeyIsOfEntity DEF FreshIdle, Busy, ViewTypeOK
<1>7. CleanAlone'
  BY <1>3, <1>4, KeyIsOfEntity DEF CleanAlone
<1>8. CleanReads' /\ OverlapTangles'
  BY <1>3, <1>4 DEF CleanReads, OverlapTangles
<1>9. AddAfterDelete'
  BY <1>2, <1>3 DEF AddAfterDelete, JobAt, Rows, Idle
<1>10. DeletedHasNoFiles'
  BY KeyIsOfEntity DEF DeletedHasNoFiles
<1>11. FreshExact' /\ DuplicatesNeedOverlap' /\ SchemaFitsRows'
  BY DEF FreshExact, DuplicatesNeedOverlap, SchemaFitsRows, Rows
<1> QED
  BY <1>5, <1>6, <1>7, <1>8, <1>9, <1>10, <1>11

\* A call of LanceDB that raises ends the job and leaves the table as it is.
LEMMA RaisesIInv ==
    ASSUME IInv, NEW j \in Jobs, SyncRaises(j) \/ RebuildRaises(j)
    PROVE  IInv'
<1>1. job' = [i \in Jobs |-> IF i \in {j} THEN Idle ELSE job[i]]
  BY DEF SyncRaises, RebuildRaises, IInv, ViewTypeOK
<1>2. failures' \in 0..MaxFailures
  BY IndexAssumption
     DEF SyncRaises, RebuildRaises, IInv, ViewTypeOK, IndexAssumption
<1> QED
  BY <1>1, <1>2, JobsEndIInv DEF SyncRaises, RebuildRaises

\* A crash ends all jobs, and the deletion.
LEMMA CrashIInv ==
    ASSUME IInv, ProcessDies
    PROVE  IInv'
<1>1. job' = [i \in Jobs |-> IF i \in Jobs THEN Idle ELSE job[i]]
  BY DEF ProcessDies
<1>2. failures' \in 0..MaxFailures /\ writes' = writes
  BY DEF ProcessDies, IInv, ViewTypeOK, counters
<1> QED
  BY <1>1, <1>2, JobsEndIInv DEF ProcessDies

-----------------------------------------------------------------------------
\* Initially there is nothing, and every key is exact.
LEMMA InitIInv == ViewInit => IInv
<1> SUFFICES ASSUME ViewInit PROVE IInv
  OBVIOUS
<1>1. NoFiles \in Files
  BY DEF NoFiles, Files
<1>2. ViewTypeOK
  BY <1>1, IdleRecord, IndexAssumption DEF ViewInit, ViewTypeOK, Idle, IndexAssumption
<1>3. \A j \in Jobs, k \in Keys : ~Touches(j, k)
  BY DEF ViewInit, Touches, Idle
<1>4. FreshIdle /\ CleanAlone /\ CleanReads /\ OverlapTangles /\ DeletedHasNoFiles
  BY <1>3, KeyIsOfEntity
     DEF ViewInit, FreshIdle, CleanAlone, CleanReads, OverlapTangles,
                             DeletedHasNoFiles, Busy
<1>5. \A k \in Keys : Rows(k) = <<>>
  BY DEF ViewInit, Rows
<1>6. AddAfterDelete /\ DuplicatesNeedOverlap /\ SchemaFitsRows
  BY <1>5 DEF AddAfterDelete, DuplicatesNeedOverlap, SchemaFitsRows
<1>7. FreshExact
  BY <1>5 DEF ViewInit, FreshExact, NoFiles
<1> QED
  BY <1>2, <1>4, <1>6, <1>7 DEF IInv

\* Every step keeps the invariant.
LEMMA StepIInv == IInv /\ [ViewNext]_viewVars => IInv'
<1> SUFFICES ASSUME IInv, [ViewNext]_viewVars PROVE IInv'
  OBVIOUS
<1>1. CASE \E k \in Keys : Write(k)
  BY <1>1, WriteIInv
<1>2. CASE Delete
  BY <1>2, RemoveFilesIInv, DeleteRowsIInv, DropTableIInv, DeleteFailsIInv
     DEF Delete, DeleteFiles, DropFiles
<1>4. ASSUME NEW j \in Jobs, \/ \E k \in Keys : SyncStart(j, k)
                             \/ RebuildStart(j)
                             \/ SyncSteps(j)
                             \/ Rebuild(j)
      PROVE  IInv'
  <2>1. CASE \E k \in Keys : SyncStart(j, k)
    BY <2>1, SyncStartIInv
  <2>2. CASE RebuildStart(j)
    BY <2>2, RebuildStartIInv
  <2>3. CASE SyncSteps(j)
    BY <2>3, SyncListIInv, SyncDeleteIInv, SyncAddIInv, SyncCreateIInv, RaisesIInv
       DEF SyncSteps
  <2>4. CASE Rebuild(j)
    BY <2>4, RebuildDropIInv, RebuildCreateIInv, RaisesIInv DEF Rebuild
  <2> QED
    BY <1>4, <2>1, <2>2, <2>3, <2>4
<1>5. CASE ProcessDies
  BY <1>5, CrashIInv
<1>6. CASE UNCHANGED viewVars
  BY <1>6 DEF viewVars, counters, IInv, ViewTypeOK, FreshIdle, CleanAlone, CleanReads,
              OverlapTangles, AddAfterDelete, DeletedHasNoFiles, FreshExact,
              DuplicatesNeedOverlap, SchemaFitsRows, Busy, Touches, JobAt, Rows, HasFile,
              Dooms
<1> QED
  BY <1>1, <1>2, <1>4, <1>5, <1>6 DEF ViewNext

-----------------------------------------------------------------------------
\* The invariant holds in every reachable state.
LEMMA Invariance == ViewSpec => []IInv
<1> QED
  BY InitIInv, StepIInv, PTL DEF ViewSpec

\* Every variable of the model has its type (IndexService, one table).
THEOREM TypeCorrect == ViewSpec => []ViewTypeOK
<1>1. IInv => ViewTypeOK
  BY DEF IInv
<1> QED
  BY <1>1, Invariance, PTL

\* What an undisturbed sync, rebuild or deletion leaves is what the parquet
\* files say, until somebody touches the key again (sync_to_lance,
\* rebuild_lance_table, delete_entity_chunks).
THEOREM ViewIsExact == ViewSpec => []FreshExact
<1>1. IInv => FreshExact
  BY DEF IInv
<1> QED
  BY <1>1, Invariance, PTL

\* Without an overlap of two jobs on a key no row is there twice, through
\* failures, retries and crashes (sync_to_lance).
THEOREM NoDuplicatesAlone == ViewSpec => []DuplicatesNeedOverlap
<1>1. IInv => DuplicatesNeedOverlap
  BY DEF IInv
<1> QED
  BY <1>1, Invariance, PTL

\* A table that a vector query can search has no chunks without a vector
\* (_cast_to_lance_schema).
THEOREM FixedTablesHaveVectors == ViewSpec => []SchemaFitsRows
<1>1. IInv => SchemaFitsRows
  BY DEF IInv
<1> QED
  BY <1>1, Invariance, PTL
=============================================================================
