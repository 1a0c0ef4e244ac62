--------------------------- MODULE EntityService ----------------------------
(***************************************************************************)
(* One entity under overlapping requests: create, content update, patch,   *)
(* soft and hard delete (app/services/entity_service.py), the pipeline     *)
(* they run (pipeline.py, process_entity on a .md file), the lineage       *)
(* cascade (lineage.py) and a reconcile run (reconciler.py), over the      *)
(* files of app/storage/local.py and the index of index.py.                *)
(*                                                                         *)
(* The handlers share one event loop: a handler keeps it (`running`) until *)
(* it awaits the embedding service or the executor thread that writes      *)
(* LanceDB.  Every durable write is a step of its own, so that a crash may *)
(* fall between any two.  How two executor threads interleave inside       *)
(* LanceDB is not modelled here.                                           *)
(***************************************************************************)
EXTENDS Naturals, Sequences, FiniteSets

CONSTANTS MaxRequests, \* bound: requests of a behaviour
          Contents,    \* file contents; a hash is named by its content
          Original,    \* the content that names the entity (ent_ + hash)
          Blank,       \* contents that give no chunk
          Decoded,     \* [Contents -> Contents]: decode("utf-8", "replace")
          Cascade,     \* the list cascade_stale returns for source_original
          MaxCrashes,  \* bound: crashes of a behaviour
          None         \* absent file, tag or value

Requests == 1..MaxRequests      \* numbered in the order of their arrival
Kinds == {"create", "update", "patch", "soft_delete", "hard_delete",
          "reconcile"}
ContentOrNone == Contents \cup {None}
Statuses == {"enabled", "hidden", "deleted"}
Entities == [hash : ContentOrNone, version : Nat, status : Statuses]
Manifests == [hash : ContentOrNone, version : Nat, status : Statuses,
              canon : {"active", "stale", None}]

ASSUME EntityAssumption ==
    /\ MaxRequests \in Nat \ {0}
    /\ Original \in Contents
    /\ Blank \subseteq Contents
    /\ None \notin Contents /\ None \notin Requests
    /\ None \notin Entities /\ None \notin Manifests
    /\ None \notin Kinds \cup {"active", "stale"}
    /\ Decoded \in [Contents -> Contents]
    /\ \A c \in Contents : Decoded[Decoded[c]] = Decoded[c]
    /\ \A c \in Contents : Decoded[c] \in Blank <=> c \in Blank
    /\ Cascade \in Seq(STRING)
    /\ "canonical_md" \in {Cascade[i] : i \in DOMAIN Cascade}
    /\ MaxCrashes \in Nat

VARIABLES
    \* durable: the entity directory, and the LanceDB rows of canonical_md
    source,      \* source/original
    srcTag,      \* its xattrs, shared by entity tags and rep tags, or None
    canonical,   \* extract/canonical.md
    canonTag,    \* the status in its rep tags, or None
    manifest,    \* .entity_manifest.json, or None
    logged,      \* version of the last line of .version_log.jsonl, or 0
    parquet,     \* _index/staging/canonical_md.parquet
    lance,       \* the rows of the entity in LanceDB
    \* the process
    running,     \* the request that has the event loop, or None
    pc,          \* [Requests -> where the handler is]
    task,        \* [Requests -> the local variables of the handler]
    \* history
    lastUpload,  \* content of the last upload saved, None after hard delete
    clean,       \* nothing overlapped, failed or died since that upload
    status,      \* last status acknowledged to a client
    last,        \* kind of the last request if nothing disturbed it
    crashes      \* crashes so far

srcVars == <<source, srcTag>>
canonVars == <<canonical, canonTag>>
metaVars == <<manifest, logged>>
index == <<parquet, lance>>
disk == <<srcVars, canonVars, metaVars, index>>
history == <<lastUpload, clean, status, last, crashes>>
vars == <<disk, running, pc, task, history>>

\* kind of request; body uploaded; the Entity object; md given to the
\* pipeline; round of cascade_rebuild; rows handed to the executor thread;
\* what reconcile still has to repair.
NoEntity == [hash |-> None, version |-> 1, status |-> "enabled"]
NoTask == [kind |-> None, body |-> None, entity |-> NoEntity, md |-> None,
           round |-> 1, rows |-> None, drifts |-> {}]

Init ==
    /\ source = None /\ srcTag = None
    /\ canonical = None /\ canonTag = None
    /\ manifest = None /\ logged = 0
    /\ parquet = None /\ lance = None
    /\ running = None
    /\ pc = [r \in Requests |-> "new"]
    /\ task = [r \in Requests |-> NoTask]
    /\ lastUpload = None
    /\ clean = TRUE
    /\ status = None
    /\ last = None
    /\ crashes = 0

InFlight == {r \in Requests : pc[r] \notin {"new", "done"}}
Quiescent == InFlight = {}

\* The directory is there as long as a file of it is.
Exists ==
    \/ source # None \/ canonical # None \/ manifest # None
    \/ parquet # None \/ logged # 0

At(r, l) == running = r /\ pc[r] = l
Goto(r, l) == pc' = [pc EXCEPT ![r] = l]
Await == running' = None
Keep == UNCHANGED running

\* The handler returns, normally or with an exception.
Return(r) ==
    /\ Goto(r, "done")
    /\ task' = [task EXCEPT ![r] = NoTask]
    /\ Await

\* An error that the handler logs and swallows.
Disturbed == clean' = FALSE /\ last' = None
Quiet == UNCHANGED <<clean, last>>

-----------------------------------------------------------------------------
(* A request arrives: the loop is free and takes it.                       *)

Arrive(r, l, t) ==
    /\ running = None
    /\ pc[r] = "new"
    /\ \A q \in Requests : q < r => pc[q] # "new"
    /\ running' = r
    /\ Goto(r, l)
    /\ task' = [task EXCEPT ![r] = t]
    /\ clean' = (Quiescent /\ (t.kind \in {"create", "update"} \/ clean))
    /\ last' = IF Quiescent THEN t.kind ELSE None
    /\ UNCHANGED <<canonVars, metaVars, index, status, crashes>>

\* assemble_entity: the manifest, or the tags when there is none.
Assembled ==
    IF manifest # None
    THEN [hash |-> manifest.hash, version |-> manifest.version,
          status |-> manifest.status]
    ELSE IF srcTag # None THEN srcTag ELSE NoEntity

\* create_from_bytes: the content decides which entity this is.
StartCreate(r) ==
    /\ Arrive(r, "pipeline",
              [NoTask EXCEPT !.kind = "create", !.body = Original,
                             !.entity.hash = Original])
    /\ UNCHANGED <<srcVars, lastUpload>>

\* update_entity_content, to the overwrite of source_original: a new file,
\* without xattrs.
StartUpdate(r, c) ==
    /\ Exists
    /\ Arrive(r, "tag_source",
              [NoTask EXCEPT !.kind = "update", !.body = c,
                  !.entity = [Assembled EXCEPT !.hash = c, !.version = @ + 1]])
    /\ source' = c
    /\ srcTag' = None
    /\ lastUpload' = c

\* patch_entity and the soft delete: a new status, then _write_entity_meta.
StartPatch(r, k, s) ==
    /\ Exists
    /\ Arrive(r, "write_manifest",
              [NoTask EXCEPT !.kind = k,
                             !.entity = [Assembled EXCEPT !.status = s]])
    /\ UNCHANGED <<srcVars, lastUpload>>

StartHardDelete(r) ==
    /\ Exists
    /\ Arrive(r, "rmtree", [NoTask EXCEPT !.kind = "hard_delete"])
    /\ UNCHANGED <<srcVars, lastUpload>>

\* reconcile, phases 1 and 2, before its first await.  An entity without
\* tags and manifest is reported and left alone.
Drifts ==
    LET described == srcTag # None \/ manifest # None
        missing == source = None \/ canonical = None
        changed == /\ ~missing
                   /\ srcTag # None
                   /\ srcTag.hash # None
                   /\ srcTag.hash # source
    IN (IF described /\ (missing \/ changed) THEN {"rep"} ELSE {})
       \cup (IF canonical # None /\ parquet = None THEN {"index"} ELSE {})

\* The lock file turns away a second run (its takeover after LOCK_TIMEOUT is
\* not modelled here).
StartReconcile(r) ==
    /\ \A q \in InFlight : task[q].kind # "reconcile"
    /\ Arrive(r, "repair",
              [NoTask EXCEPT !.kind = "reconcile", !.drifts = Drifts])
    /\ UNCHANGED <<srcVars, lastUpload>>

-----------------------------------------------------------------------------
(* process_entity on a .md file: save_file twice, embed, index.            *)

SaveSource(r) ==
    /\ At(r, "pipeline")
    /\ LET t == task[r] IN
       /\ source' = IF t.kind = "create" THEN t.body ELSE t.md
       /\ lastUpload' = IF t.kind = "create" THEN t.body ELSE lastUpload
       /\ task' = [task EXCEPT ![r].md = source']
    /\ srcTag' = None
    /\ Goto(r, "save_canonical")
    /\ UNCHANGED <<canonVars, metaVars, index, running, clean, status, last,
                   crashes>>

\* Mutant of SaveCanonical: the rep is the upload as it was sent.
SaveCanonicalRaw(r) ==
    /\ At(r, "save_canonical")
    /\ canonical' = IF task[r].kind = "update" THEN task[r].body ELSE task[r].md
    /\ canonTag' = None
    /\ Goto(r, "tag_canonical")
    /\ UNCHANGED <<srcVars, metaVars, index, running, task, history>>

\* The identity pipeline.
SaveCanonical(r) ==
    /\ At(r, "save_canonical")
    /\ canonical' = task[r].md
    /\ canonTag' = None
    /\ Goto(r, "tag_canonical")
    /\ UNCHANGED <<srcVars, metaVars, index, running, task, history>>

\* Where the handler goes on once process_entity has returned.
AfterPipeline(r) ==
    CASE task[r].kind = "create" -> "tag_source"
      [] task[r].kind = "update" -> "round_end"
      [] task[r].kind = "reconcile" -> "repair_mark"

\* set_rep_tags, then chunking: without a chunk, no embedding and no index.
TagCanonical(r) ==
    /\ At(r, "tag_canonical")
    /\ canonTag' = "active"
    /\ IF task[r].md \in Blank THEN Goto(r, AfterPipeline(r)) /\ Keep
                               ELSE Goto(r, "embedding") /\ Await
    /\ UNCHANGED <<srcVars, canonical, metaVars, index, task, history>>

\* Mutant of Embedded: the rows are read before the parquet file is written.
EmbeddedReadsFirst(r) ==
    /\ running = None
    /\ pc[r] = "embedding"
    /\ task' = [task EXCEPT ![r].rows = parquet]
    /\ parquet' = Decoded[task[r].md]
    /\ Goto(r, "syncing")
    /\ UNCHANGED <<srcVars, canonVars, metaVars, lance, running, history>>

\* The vectors arrive: upsert_chunks, and sync_to_lance reads the file back
\* before it awaits the executor.
Embedded(r) ==
    /\ running = None
    /\ pc[r] = "embedding"
    /\ parquet' = Decoded[task[r].md]
    /\ task' = [task EXCEPT ![r].rows = parquet']
    /\ Goto(r, "syncing")
    /\ UNCHANGED <<srcVars, canonVars, metaVars, lance, running, history>>

\* embed_passages raises: nothing is indexed, and the caller is not told.
EmbedFails(r) ==
    /\ running = None
    /\ pc[r] = "embedding"
    /\ running' = r
    /\ Goto(r, AfterPipeline(r))
    /\ Disturbed
    /\ UNCHANGED <<disk, task, lastUpload, status, crashes>>

\* Where a handler that awaits the executor thread goes on.
AfterSync == [syncing |-> "synced", final_sync |-> "final_synced",
              index_sync |-> "index_synced"]

\* The executor thread of sync_to_lance: old rows out, new rows in; or it
\* raises before or after the old rows are deleted.
Sync(r) ==
    /\ pc[r] \in DOMAIN AfterSync
    /\ \/ lance' = task[r].rows /\ Quiet
       \/ lance' \in {lance, None} /\ Disturbed
    /\ Goto(r, AfterSync[pc[r]])
    /\ UNCHANGED <<srcVars, canonVars, metaVars, parquet, running, task,
                   lastUpload, status, crashes>>

\* The loop resumes the handler, which returns from process_entity.
PipelineReturns(r) ==
    /\ running = None
    /\ pc[r] = "synced"
    /\ running' = r
    /\ Goto(r, AfterPipeline(r))
    /\ UNCHANGED <<disk, task, history>>

-----------------------------------------------------------------------------
(* set_rep_tags on source_original, then the lineage cascade of an update. *)

TagSource(r) ==
    /\ At(r, "tag_source")
    /\ srcTag' = IF source = None THEN None
                 ELSE [(IF srcTag = None THEN NoEntity ELSE srcTag)
                          EXCEPT !.hash = task[r].body]
    /\ Goto(r, IF task[r].kind = "create" THEN "write_manifest"
                                          ELSE "mark_tag")
    /\ UNCHANGED <<source, canonVars, metaVars, index, running, task, history>>

\* cascade_stale on canonical_md: its tags, then its entry in the manifest.
\* The other reps of Cascade do not exist for a .md entity.
MarkTag(r) ==
    /\ At(r, "mark_tag")
    /\ canonTag' = IF canonTag = None THEN None ELSE "stale"
    /\ Goto(r, "mark_manifest")
    /\ UNCHANGED <<srcVars, canonical, metaVars, index, running, task, history>>

MarkManifest(r) ==
    /\ At(r, "mark_manifest")
    /\ manifest' =
          IF manifest = None \/ (canonical = None /\ manifest.canon = None)
          THEN manifest ELSE [manifest EXCEPT !.canon = "stale"]
    /\ Goto(r, "round")
    /\ UNCHANGED <<srcVars, canonVars, logged, index, running, task, history>>

\* Mutant of RebuildInput: the source is read once, before the loop.
RebuildInputOnce(r) ==
    IF task[r].md # None THEN task[r].md ELSE Decoded[source]

\* cascade_rebuild reads source_original again for every rep of the list.
RebuildInput(r) == Decoded[source]

Round(r) ==
    /\ At(r, "round")
    /\ task[r].round <= Len(Cascade)
    /\ IF source = None
       THEN task' = [task EXCEPT ![r].round = @ + 1] /\ UNCHANGED pc
       ELSE /\ task' = [task EXCEPT ![r].md = RebuildInput(r)]
            /\ Goto(r, "pipeline")
    /\ UNCHANGED <<disk, running, history>>

RoundEnd(r) ==
    /\ At(r, "round_end")
    /\ manifest' =
          IF /\ Cascade[task[r].round] = "canonical_md"
             /\ manifest # None
             /\ manifest.canon # None
          THEN [manifest EXCEPT !.canon = "active"] ELSE manifest
    /\ task' = [task EXCEPT ![r].round = @ + 1]
    /\ Goto(r, "round")
    /\ UNCHANGED <<srcVars, canonVars, logged, index, running, history>>

\* sync_to_lance on its own: it reads the parquet file, and returns at once
\* when there is none.
CopyIndex(r, wait, next) ==
    IF parquet = None
    THEN Goto(r, next) /\ Keep /\ UNCHANGED task
    ELSE Goto(r, wait) /\ Await /\ task' = [task EXCEPT ![r].rows = parquet]

\* Phase 3 of cascade_rebuild, when some rep was rebuilt.
Final(r) ==
    /\ At(r, "round")
    /\ task[r].round > Len(Cascade)
    /\ IF task[r].md # None THEN CopyIndex(r, "final_sync", "write_manifest")
       ELSE Goto(r, "write_manifest") /\ Keep /\ UNCHANGED task
    /\ UNCHANGED <<disk, history>>

FinalReturns(r) ==
    /\ running = None
    /\ pc[r] = "final_synced"
    /\ running' = r
    /\ Goto(r, IF task[r].kind = "update" THEN "write_manifest" ELSE "bump")
    /\ UNCHANGED <<disk, task, history>>

-----------------------------------------------------------------------------
(* _write_entity_meta, from the Entity object the handler has held since   *)
(* it began: manifest, tags, version log.                                  *)

\* Mutant of WriteManifest: the version on disk wins over the handler's.
WriteManifestMerged(r) ==
    /\ At(r, "write_manifest")
    /\ LET e == task[r].entity IN
       manifest' = [hash |-> e.hash, status |-> e.status, canon |-> canonTag,
                    version |-> IF manifest = None THEN e.version
                                ELSE manifest.version]
    /\ Goto(r, "sync_tags")
    /\ UNCHANGED <<srcVars, canonVars, logged, index, running, task, history>>

WriteManifest(r) ==
    /\ At(r, "write_manifest")
    /\ LET e == task[r].entity IN
       manifest' = [hash |-> e.hash, version |-> e.version,
                    status |-> e.status,
                    canon |-> IF canonical # None /\ canonTag = None
                              THEN "active" ELSE canonTag]
    /\ Goto(r, "sync_tags")
    /\ UNCHANGED <<srcVars, canonVars, logged, index, running, task, history>>

\* Mutant of TagsOf: every field of the manifest goes into the tags.
AllFieldsOf(m) == IF source = None \/ m = None THEN srcTag ELSE m

\* sync_tags_from_manifest
TagsOf(m) ==
    IF source = None \/ m = None THEN srcTag
    ELSE [hash |-> m.hash, version |-> m.version, status |-> m.status]

SyncTags(r) ==
    /\ At(r, "sync_tags")
    /\ srcTag' = TagsOf(manifest)
    /\ Goto(r, "log_version")
    /\ UNCHANGED <<source, canonVars, metaVars, index, running, task, history>>

\* append_version_log; the client gets its answer.
LogVersion(r) ==
    /\ At(r, "log_version")
    /\ logged' = task[r].entity.version
    /\ status' = IF task[r].kind = "update" THEN status
                 ELSE task[r].entity.status
    /\ Return(r)
    /\ UNCHANGED <<srcVars, canonVars, manifest, index, lastUpload, clean, last,
                   crashes>>

-----------------------------------------------------------------------------
(* Hard delete: rmtree of the directory, the parquet file with it, then    *)
(* the LanceDB rows, whose failure is only logged.                         *)

RemoveTree(r) ==
    /\ At(r, "rmtree")
    /\ source' = None /\ srcTag' = None
    /\ canonical' = None /\ canonTag' = None
    /\ manifest' = None /\ logged' = 0
    /\ parquet' = None
    /\ lastUpload' = None
    /\ Goto(r, "rm_index")
    /\ UNCHANGED <<lance, running, task, clean, status, last, crashes>>

RemoveIndex(r) ==
    /\ At(r, "rm_index")
    /\ \/ lance' = None /\ Quiet
       \/ UNCHANGED lance /\ Disturbed
    /\ status' = None
    /\ Return(r)
    /\ UNCHANGED <<srcVars, canonVars, metaVars, parquet, lastUpload, crashes>>

-----------------------------------------------------------------------------
(* reconcile, the repairs.                                                 *)

\* _repair_entity reads source_original; without it the repair fails.
RepairRep(r) ==
    /\ At(r, "repair")
    /\ "rep" \in task[r].drifts
    /\ IF source # None
       THEN /\ task' = [task EXCEPT ![r].md = Decoded[source],
                                    ![r].drifts = @ \ {"rep"}]
            /\ Goto(r, "pipeline")
       ELSE task' = [task EXCEPT ![r].drifts = @ \ {"rep"}] /\ UNCHANGED pc
    /\ UNCHANGED <<disk, running, history>>

\* A missing index is the absence of parquet files, so that the repair has
\* something to copy only if the pipeline wrote it meanwhile.
RepairIndex(r) ==
    /\ At(r, "repair")
    /\ "rep" \notin task[r].drifts
    /\ IF "index" \in task[r].drifts /\ parquet # None
       THEN CopyIndex(r, "index_sync", "index_synced")
       ELSE Return(r)
    /\ UNCHANGED <<disk, history>>

\* The stale reps of the manifest are active again, then the index is copied.
RepairMark(r) ==
    /\ At(r, "repair_mark")
    /\ manifest' = IF manifest = None \/ manifest.canon # "stale" THEN manifest
                   ELSE [manifest EXCEPT !.canon = "active"]
    /\ CopyIndex(r, "final_sync", "bump")
    /\ UNCHANGED <<srcVars, canonVars, logged, index, history>>

\* version + 1 with the old content_hash, then the tags from the manifest.
Bump(r) ==
    /\ At(r, "bump")
    /\ manifest' = IF manifest = None THEN None
                   ELSE [manifest EXCEPT !.version = @ + 1]
    /\ Goto(r, "bump_tags")
    /\ UNCHANGED <<srcVars, canonVars, logged, index, running, task, history>>

BumpTags(r) ==
    /\ At(r, "bump_tags")
    /\ srcTag' = TagsOf(manifest)
    /\ Goto(r, "repair")
    /\ UNCHANGED <<source, canonVars, metaVars, index, running, task, history>>

IndexSynced(r) ==
    /\ running = None
    /\ pc[r] = "index_synced"
    /\ Return(r)
    /\ UNCHANGED <<disk, history>>

-----------------------------------------------------------------------------
\* The process dies; what it was doing is never resumed.  A tree under
\* rmtree is left with any part of its files.
Crash ==
    /\ crashes < MaxCrashes
    /\ ~Quiescent
    /\ crashes' = crashes + 1
    /\ running' = None
    /\ pc' = [r \in Requests |-> IF r \in InFlight THEN "done" ELSE pc[r]]
    /\ task' = [r \in Requests |-> NoTask]
    /\ Disturbed
    /\ IF \E r \in Requests : At(r, "rmtree")
       THEN /\ \/ UNCHANGED <<srcVars, lastUpload>>
               \/ source' = None /\ srcTag' = None /\ lastUpload' = None
            /\ UNCHANGED canonVars \/ (canonical' = None /\ canonTag' = None)
            /\ manifest' \in {manifest, None}
            /\ logged' \in {logged, 0}
            /\ parquet' \in {parquet, None}
       ELSE UNCHANGED <<srcVars, canonVars, metaVars, parquet, lastUpload>>
    /\ UNCHANGED <<lance, status>>

Start(r) ==
    \/ StartCreate(r)
    \/ \E c \in Contents : StartUpdate(r, c)
    \/ \E s \in {"enabled", "hidden"} : StartPatch(r, "patch", s)
    \/ StartPatch(r, "soft_delete", "deleted")
    \/ StartHardDelete(r)
    \/ StartReconcile(r)

Pipeline(r) ==
    \/ SaveSource(r)
    \/ SaveCanonical(r)
    \/ TagCanonical(r)
    \/ Embedded(r)
    \/ EmbedFails(r)
    \/ Sync(r)
    \/ PipelineReturns(r)

UpdateSteps(r) ==
    \/ TagSource(r)
    \/ MarkTag(r)
    \/ MarkManifest(r)
    \/ Round(r)
    \/ RoundEnd(r)
    \/ Final(r)
    \/ FinalReturns(r)

MetaSteps(r) == WriteManifest(r) \/ SyncTags(r) \/ LogVersion(r)

DeleteSteps(r) == RemoveTree(r) \/ RemoveIndex(r)

ReconcileSteps(r) ==
    \/ RepairRep(r)
    \/ RepairIndex(r)
    \/ RepairMark(r)
    \/ Bump(r)
    \/ BumpTags(r)
    \/ IndexSynced(r)

Step(r) ==
    \/ Pipeline(r)
    \/ UpdateSteps(r)
    \/ MetaSteps(r)
    \/ DeleteSteps(r)
    \/ ReconcileSteps(r)

\* Every request of the bound has been served, and the loop idles.
AllDone == (\A r \in Requests : pc[r] = "done") /\ UNCHANGED vars

Next ==
    \/ \E r \in Requests : Start(r) \/ Step(r)
    \/ Crash
    \/ AllDone

Spec == Init /\ [][Next]_vars

-----------------------------------------------------------------------------
Tasks == [kind : Kinds \cup {None}, body : ContentOrNone, entity : Entities,
          md : ContentOrNone, round : 1..(Len(Cascade) + 1),
          rows : ContentOrNone, drifts : SUBSET {"rep", "index"}]
Labels == {"new", "done", "pipeline", "save_canonical", "tag_canonical",
           "embedding", "syncing", "synced", "tag_source", "mark_tag",
           "mark_manifest", "round", "round_end", "final_sync", "final_synced",
           "write_manifest", "sync_tags", "log_version", "rmtree", "rm_index",
           "repair", "repair_mark", "bump", "bump_tags", "index_sync",
           "index_synced"}

\* Every variable has its type (the files of local.py, the Entity model, the
\* locals of the handlers).
TypeOK ==
    /\ {source, canonical, parquet, lance, lastUpload} \subseteq ContentOrNone
    /\ srcTag \in Entities \cup {None}
    /\ canonTag \in {"active", "stale", None}
    /\ manifest \in Manifests \cup {None}
    /\ logged \in Nat
    /\ running \in Requests \cup {None}
    /\ pc \in [Requests -> Labels]
    /\ task \in [Requests -> Tasks]
    /\ clean \in BOOLEAN
    /\ status \in Statuses \cup {None}
    /\ last \in Kinds \cup {None}
    /\ crashes \in 0..MaxCrashes

\* The last writer wins: whatever requests overlap or die, the stored source
\* is what the last create or update uploaded, at most decoded and encoded
\* again by the cascade; and it is gone after a hard delete, although an
\* update may still be running (cascade_rebuild and _repair_entity read the
\* file again before they save it).
SourceIsLastUpload ==
    IF lastUpload = None THEN source = None
    ELSE source \in {lastUpload, Decoded[lastUpload]}

\* No handler gives up the event loop between the source and what is derived
\* from it: another request never sees a canonical.md of an older source
\* (until a crash separates the two writes).
CanonicalTracksSource ==
    running = None /\ crashes = 0 => canonical = source

\* When an upload has run to its end and nothing overlapped, failed or died
\* since, the files, the tags, the manifest and the index tell one story
\* (create_from_bytes and update_entity_content; index only if it has text).
Converged ==
    Quiescent /\ clean /\ source # None =>
        /\ canonical = source
        /\ manifest # None /\ manifest.canon = "active"
        /\ srcTag = TagsOf(manifest)
        /\ Decoded[manifest.hash] = Decoded[source]
        /\ source \notin Blank => parquet = Decoded[source] /\ lance = parquet

\* The version log can replace the tags (local.py:302, "Used to recover the
\* version field when Tags are lost"): whenever the loop is free, however
\* requests overlap, there is a log exactly if there is a manifest, and it is
\* not ahead of it (a reconcile run bumps the manifest alone).
LogFollowsManifest ==
    running = None /\ crashes = 0 =>
        IF manifest = None THEN logged = 0
        ELSE logged \in 1..manifest.version

\* A status that was acknowledged stays until the next request that sets it
\* (entity_service.py:510, "soft delete (default): set rag_status=deleted").
StatusSticks ==
    Quiescent /\ crashes = 0 /\ manifest # None /\ status # None =>
        manifest.status = status

\* After a reconcile run that nothing disturbs, no derived data is stale
\* (reconciler.py:72, "Entities with stale content (source_original changed
\* but canonical_md not rebuilt)").
ReconcileRepairs ==
    Quiescent /\ last = "reconcile" =>
        (None \notin {source, canonical, manifest} => canonical = source)

\* After a reconcile run that nothing disturbs, the index has no rows of a
\* deleted entity (entity_service.py:537, "storage deleted but index cleanup
\* incomplete: ... Run reconcile to repair").
ReconcileRemovesGhosts ==
    Quiescent /\ last = "reconcile" /\ ~Exists => lance = None

=============================================================================
