------------------------------ MODULE IndexView ------------------------------
(***************************************************************************)
(* One LanceDB table as a view of the parquet files of a collection        *)
(* (app/services/index.py): parquet is the truth, sync_to_lance copies one *)
(* file, rebuild_lance_table all of them.                                  *)
(*                                                                         *)
(* Both read the files on the event loop and then work in a thread of the  *)
(* executor, so that requests run and other threads change the table       *)
(* between any two of their calls of LanceDB.  Who starts them: the sync   *)
(* worker, VectorIndexTemplate.build, the reconciler and the cascade for   *)
(* sync_to_lance; the rebuild-index endpoint for rebuild_lance_table.      *)
(***************************************************************************)
EXTENDS Naturals, Sequences

CONSTANTS EntityIds,   \* entities of the collection
          Reps,        \* representations that are indexed
          Lexical,     \* those whose chunks have no vector (index_mode lexical)
          Jobs,        \* bound: executor threads at work on the table
          MaxWrites,   \* bound: parquet files written
          MaxFailures, \* bound: calls that fail, of LanceDB or to read files
          Nil          \* no file, no table, no entity

Keys == EntityIds \X Reps
Versions == 1..MaxWrites        \* each write has content of its own
Tables == [fixed : BOOLEAN, rows : [Keys -> Seq(Versions)]]

ASSUME IndexAssumption ==
    /\ Lexical \subseteq Reps
    /\ MaxWrites \in Nat /\ MaxFailures \in Nat
    /\ Nil \notin EntityIds /\ Nil \notin Nat /\ Nil \notin Tables
    /\ "all" \notin EntityIds /\ Nil # "all"

IsLexical(k) == k[2] \in Lexical

VARIABLES
    staging,   \* [Keys -> version in the file, or Nil]
    table,     \* the LanceDB table, or Nil
    job,       \* [Jobs -> what a thread does]
    deleting,  \* whose deletion has the event loop: an entity, "all", or Nil
    fresh,     \* history: keys whose last job or deletion was undisturbed
    tangled,   \* history: keys on which two jobs overlapped since
    writes, failures

counters == <<writes, failures>>
viewVars == <<staging, table, job, deleting, fresh, tangled, counters>>

NoRows == [k \in Keys |-> <<>>]
NoFiles == [k \in Keys |-> Nil]
Rows(k) == IF table = Nil THEN <<>> ELSE table.rows[k]

\* A job has the files it read on the loop, without those that it could not
\* read and `skipped`; `stale` when its handle is of a table that was dropped
\* since; `clean` while nobody else touched its keys.
Idle == [kind |-> "none", key |-> Nil, data |-> NoFiles, skipped |-> {},
         pc |-> "idle", stale |-> FALSE, clean |-> FALSE]

ViewInit ==
    /\ staging = NoFiles
    /\ table = Nil
    /\ job = [j \in Jobs |-> Idle]
    /\ deleting = Nil
    /\ fresh = Keys /\ tangled = {}
    /\ writes = 0 /\ failures = 0

Touches(j, k) == \/ job[j].kind = "rebuild"
                 \/ job[j].kind = "sync" /\ job[j].key = k
Busy(k) == \E j \in Jobs : Touches(j, k)

\* Somebody else touches the keys of a set.
Disturb(ks) == [j \in Jobs |->
    IF \E k \in ks : Touches(j, k) THEN [job[j] EXCEPT !.clean = FALSE]
    ELSE job[j]]

Loop == deleting = Nil     \* the event loop is free

-----------------------------------------------------------------------------
(* On the event loop.                                                      *)

\* upsert_chunks: the file is replaced by one with a new content.
Write(k) ==
    /\ Loop
    /\ writes < MaxWrites
    /\ writes' = writes + 1
    /\ staging' = [staging EXCEPT ![k] = writes + 1]
    /\ job' = Disturb({k})
    /\ fresh' = fresh \ {k}
    /\ UNCHANGED <<table, deleting, tangled, failures>>

\* The keys that a deletion is about.
Dooms(d, k) == d \in {k[1], "all"}

\* A deletion removes the files first, and they stay removed whatever fails.
RemoveFiles(d) ==
    /\ Loop
    /\ deleting' = d
    /\ staging' = [k \in Keys |-> IF Dooms(d, k) THEN Nil ELSE staging[k]]
    /\ job' = Disturb({k \in Keys : Dooms(d, k)})
    /\ fresh' = {k \in fresh : ~Dooms(d, k)}
    /\ UNCHANGED <<table, tangled, counters>>

\* delete_entity_chunks: the files of the entity ...
DeleteFiles(e) == RemoveFiles(e)

\* ... then the rows of the entity, with whatever threads did in between.
DeleteRows ==
    /\ deleting \in EntityIds
    /\ deleting' = Nil
    /\ LET mine == {k \in Keys : k[1] = deleting}
           undisturbed == {k \in mine : ~Busy(k)} IN
       /\ table' = IF table = Nil THEN Nil
                   ELSE [table EXCEPT !.rows =
                            [k \in Keys |-> IF k \in mine THEN <<>> ELSE @[k]]]
       /\ fresh' = fresh \cup undisturbed
       /\ tangled' = tangled \ undisturbed
    /\ UNCHANGED <<staging, job, counters>>

\* LanceDB raises: delete_entity logs it, delete_collection does not; both
\* go on, and the rows of the files that are gone stay.
DeleteFails ==
    /\ ~Loop
    /\ table # Nil
    /\ failures < MaxFailures
    /\ failures' = failures + 1
    /\ deleting' = Nil
    /\ UNCHANGED <<staging, table, job, fresh, tangled, writes>>

\* Handles of a table that is dropped.
Outdate(jobs) == [j \in Jobs |->
    IF jobs[j].pc \in {"delete", "add"} THEN [jobs[j] EXCEPT !.stale = TRUE]
    ELSE jobs[j]]

\* delete_collection: the directory ...
DropFiles == RemoveFiles("all")

\* ... then the table.
DropTable ==
    /\ deleting = "all"
    /\ deleting' = Nil
    /\ table' = Nil
    /\ job' = Outdate(job)
    /\ fresh' = fresh \cup {k \in Keys : ~Busy(k)}
    /\ tangled' = {k \in tangled : Busy(k)}
    /\ UNCHANGED <<staging, counters>>

-----------------------------------------------------------------------------
(* sync_to_lance.                                                          *)

Free(j) == job[j].kind = "none"
JobAt(j, kind, pc) == job[j].kind = kind /\ job[j].pc = pc

\* The file is read on the loop; without one there is nothing to do.
SyncStart(j, k) ==
    /\ Loop
    /\ Free(j)
    /\ staging[k] # Nil
    /\ job' = [Disturb({k}) EXCEPT ![j] =
          [Idle EXCEPT !.kind = "sync", !.key = k, !.data = staging,
                       !.pc = "list", !.clean = ~Busy(k)]]
    /\ fresh' = fresh \ {k}
    /\ tangled' = IF Busy(k) THEN tangled \cup {k} ELSE tangled
    /\ UNCHANGED <<staging, table, deleting, counters>>

JobGoto(j, pc) == job' = [job EXCEPT ![j].pc = pc]

SyncList(j) ==
    /\ JobAt(j, "sync", "list")
    /\ JobGoto(j, IF table = Nil THEN "create" ELSE "delete")
    /\ UNCHANGED <<staging, table, deleting, fresh, tangled, counters>>

\* Mutant of SyncDelete: the filter has no rep_name.
SyncDeleteEntity(j) ==
    /\ JobAt(j, "sync", "delete")
    /\ table # Nil
    /\ table' = [table EXCEPT !.rows = [k \in Keys |->
                    IF k[1] = job[j].key[1] THEN <<>> ELSE @[k]]]
    /\ JobGoto(j, "add")
    /\ UNCHANGED <<staging, deleting, fresh, tangled, counters>>

\* Mutant of SyncDelete: the filter finds only rows of the same content.
SyncDeleteSame(j) ==
    /\ JobAt(j, "sync", "delete")
    /\ table # Nil
    /\ table' = [table EXCEPT !.rows[job[j].key] =
                    IF @ = <<job[j].data[job[j].key]>> THEN <<>> ELSE @]
    /\ JobGoto(j, "add")
    /\ UNCHANGED <<staging, deleting, fresh, tangled, counters>>

\* The old rows of the key go.
SyncDelete(j) ==
    /\ JobAt(j, "sync", "delete")
    /\ table # Nil
    /\ table' = [table EXCEPT !.rows[job[j].key] = <<>>]
    /\ JobGoto(j, "add")
    /\ UNCHANGED <<staging, deleting, fresh, tangled, counters>>

\* A job is over; undisturbed, it leaves the keys ks as the files say.
Finish(j, ks) ==
    /\ job' = [job EXCEPT ![j] = Idle]
    /\ fresh' = IF job[j].clean THEN fresh \cup ks ELSE fresh
    /\ tangled' = IF job[j].clean THEN tangled \ ks ELSE tangled

\* Chunks without a vector cannot be cast to the fixed dimension of a table.
Castable(j) == table.fixed => ~IsLexical(job[j].key)

SyncAdd(j) ==
    /\ JobAt(j, "sync", "add")
    /\ table # Nil
    /\ Castable(j)
    /\ table' = [table EXCEPT !.rows[job[j].key] =
                    Append(@, job[j].data[job[j].key])]
    /\ Finish(j, {job[j].key})
    /\ UNCHANGED <<staging, deleting, counters>>

\* Mutant of SyncCreate: the dimension is fixed whatever the first rows are.
SyncCreateFixed(j) ==
    /\ JobAt(j, "sync", "create")
    /\ table = Nil
    /\ table' = [fixed |-> TRUE,
                 rows |-> [NoRows EXCEPT ![job[j].key] =
                              <<job[j].data[job[j].key]>>]]
    /\ Finish(j, {job[j].key})
    /\ UNCHANGED <<staging, deleting, counters>>

\* The first rows decide whether the table has a fixed dimension.
SyncCreate(j) ==
    /\ JobAt(j, "sync", "create")
    /\ table = Nil
    /\ table' = [fixed |-> ~IsLexical(job[j].key),
                 rows |-> [NoRows EXCEPT ![job[j].key] =
                              <<job[j].data[job[j].key]>>]]
    /\ Finish(j, {job[j].key})
    /\ UNCHANGED <<staging, deleting, counters>>

\* An exception leaves what the job has done so far: the table exists or is
\* gone against expectation, a cast fails, or LanceDB does.
SyncRaises(j) ==
    /\ job[j].kind = "sync"
    /\ \/ /\ \/ job[j].pc = "create" /\ table # Nil
             \/ job[j].pc \in {"delete", "add"} /\ (table = Nil \/ job[j].stale)
             \/ job[j].pc = "add" /\ table # Nil /\ ~Castable(j)
          /\ UNCHANGED failures
       \/ failures < MaxFailures /\ failures' = failures + 1
    /\ job' = [job EXCEPT ![j] = Idle]
    /\ UNCHANGED <<staging, table, deleting, fresh, tangled, writes>>

-----------------------------------------------------------------------------
(* rebuild_lance_table.                                                    *)

\* A file that cannot be read is logged and left out; without any other the
\* call returns 0 and leaves the table as it is.
RebuildStart(j) ==
    /\ Loop
    /\ Free(j)
    /\ \E skipped \in SUBSET {k \in Keys : staging[k] # Nil} :
          /\ \/ skipped = {} /\ UNCHANGED failures
             \/ /\ skipped # {} /\ failures < MaxFailures
                /\ failures' = failures + 1
          /\ \E k \in Keys \ skipped : staging[k] # Nil
          /\ job' = [Disturb(Keys) EXCEPT ![j] =
                [Idle EXCEPT !.kind = "rebuild", !.pc = "drop",
                             !.data = [k \in Keys |-> IF k \in skipped THEN Nil
                                                     ELSE staging[k]],
                             !.skipped = skipped,
                             !.clean = \A k \in Keys : ~Busy(k)]]
    /\ fresh' = {}
    /\ tangled' = tangled \cup {k \in Keys : Busy(k)}
    /\ UNCHANGED <<staging, table, deleting, writes>>

RebuildDrop(j) ==
    /\ JobAt(j, "rebuild", "drop")
    /\ table' = Nil
    /\ job' = [Outdate(job) EXCEPT ![j].pc = "create"]
    /\ UNCHANGED <<staging, deleting, fresh, tangled, counters>>

HasFile(j, k) == job[j].data[k] # Nil

\* Mutant of RebuildCreate: a row for every key.
RebuildCreateAll(j) ==
    /\ JobAt(j, "rebuild", "create")
    /\ table = Nil
    /\ table' = [fixed |-> \A k \in Keys : HasFile(j, k) => ~IsLexical(k),
                 rows |-> [k \in Keys |-> <<job[j].data[k]>>]]
    /\ Finish(j, Keys)
    /\ UNCHANGED <<staging, deleting, counters>>

\* The new table lacks what was skipped.
RebuildCreate(j) ==
    /\ JobAt(j, "rebuild", "create")
    /\ table = Nil
    /\ table' = [fixed |-> \A k \in Keys : HasFile(j, k) => ~IsLexical(k),
                 rows |-> [k \in Keys |-> IF HasFile(j, k)
                              THEN <<job[j].data[k]>> ELSE <<>>]]
    /\ Finish(j, Keys \ job[j].skipped)
    /\ UNCHANGED <<staging, deleting, counters>>

\* A sync has created the table since, or LanceDB fails: the table that was
\* dropped is not restored.
RebuildRaises(j) ==
    /\ job[j].kind = "rebuild"
    /\ \/ job[j].pc = "create" /\ table # Nil /\ UNCHANGED failures
       \/ failures < MaxFailures /\ failures' = failures + 1
    /\ job' = [job EXCEPT ![j] = Idle]
    /\ UNCHANGED <<staging, table, deleting, fresh, tangled, writes>>

-----------------------------------------------------------------------------
\* The process dies: files and table stay as they are.
ProcessDies ==
    /\ job' = [j \in Jobs |-> Idle]
    /\ deleting' = Nil
    /\ UNCHANGED <<staging, table, fresh, tangled, counters>>

SyncSteps(j) == \/ SyncList(j) \/ SyncDelete(j) \/ SyncAdd(j)
                \/ SyncCreate(j) \/ SyncRaises(j)
Rebuild(j) == RebuildDrop(j) \/ RebuildCreate(j) \/ RebuildRaises(j)
Delete == \/ \E e \in EntityIds : DeleteFiles(e)
          \/ DeleteRows
          \/ DropFiles
          \/ DropTable
          \/ DeleteFails

ViewNext ==
    \/ \E k \in Keys : Write(k)
    \/ Delete
    \/ \E j \in Jobs : \/ \E k \in Keys : SyncStart(j, k)
                       \/ RebuildStart(j)
                       \/ SyncSteps(j)
                       \/ Rebuild(j)
    \/ ProcessDies

ViewSpec == ViewInit /\ [][ViewNext]_viewVars

-----------------------------------------------------------------------------
Files == [Keys -> Versions \cup {Nil}]
JobRecords == [kind : {"none", "sync", "rebuild"},
               key : Keys \cup {Nil}, data : Files, skipped : SUBSET Keys,
               pc : {"idle", "list", "delete", "add", "create", "drop"},
               stale : BOOLEAN, clean : BOOLEAN]

\* Every variable has its type; a job that has no work has no key.
ViewTypeOK ==
    /\ staging \in Files
    /\ table \in Tables \cup {Nil}
    /\ job \in [Jobs -> JobRecords]
    /\ \A j \in Jobs :
          job[j].kind = "sync" => job[j].key \in Keys /\ HasFile(j, job[j].key)
    /\ deleting \in EntityIds \cup {Nil, "all"}
    /\ fresh \subseteq Keys /\ tangled \subseteq Keys
    /\ writes \in 0..MaxWrites /\ failures \in 0..MaxFailures

\* LanceDB is a view of the parquet files: when the last sync, rebuild or
\* deletion of a key ran to its end and nothing touched the key meanwhile,
\* nor since, the table has the rows of its file exactly once, or none when
\* there is no file, whatever threads did on other keys (sync_to_lance,
\* rebuild_lance_table, delete_entity_chunks).  A rebuild that could not read
\* a file runs to its end without its key.
FreshExact ==
    \A k \in fresh :
        Rows(k) = IF staging[k] = Nil THEN <<>> ELSE <<staging[k]>>

\* Rows appear twice only where two jobs on the key overlapped: a sync that
\* failed half-way, or died with the process, and is retried adds nothing
\* twice, because it deletes before it adds (sync_to_lance).
DuplicatesNeedOverlap ==
    \A k \in Keys : Len(Rows(k)) > 1 => k \in tangled

\* A table with a fixed dimension, the only kind that a vector query can
\* search, never holds chunks without a vector; they fail to be added, or
\* make the table that they are first in variable (_cast_to_lance_schema).
SchemaFitsRows ==
    \A k \in Keys : IsLexical(k) /\ Rows(k) # <<>> => ~table.fixed

=============================================================================
