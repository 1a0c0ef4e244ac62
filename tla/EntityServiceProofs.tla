------------------------- MODULE EntityServiceProofs -------------------------
(***************************************************************************)
(* Proofs about EntityService, for any number of requests and crashes, any *)
(* set of contents, and any cascade that rebuilds canonical_md.            *)
(*                                                                         *)
(* The argument: a handler has the event loop exactly where it awaits      *)
(* nothing, so that the writes between two awaits are those of one         *)
(* handler.  Whoever saves the source in a cascade has read it in the same *)
(* turn; canonical.md is behind it only where the handler that has the     *)
(* loop is about to save it; the version log is behind the manifest only   *)
(* where that handler is about to write it.  A request that is alone tells *)
(* its story in order, and each step finds what the steps before it left.  *)
(***************************************************************************)
EXTENDS EntityService, SequenceTheorems, TLAPS

\* Where a handler has not the event loop: before it begins, after it has
\* returned, and while it awaits.
Awaiting == {"new", "done", "embedding", "syncing", "synced", "final_sync",
             "final_synced", "index_sync", "index_synced"}

\* The handler that has the event loop is the one that awaits nothing.
LoopIsHeld == \A r \in Requests : running = r <=> pc[r] \notin Awaiting

\* Where the handler of r can be, and what its local variables hold there.
LocalsFit(r) ==
    LET t == task[r] IN
    /\ pc[r] \in {"pipeline", "save_canonical", "tag_canonical", "embedding",
                  "syncing", "synced"} =>
          t.kind \in {"create", "update", "reconcile"}
    /\ pc[r] = "tag_source" => t.kind \in {"create", "update"}
    /\ pc[r] \in {"mark_tag", "mark_manifest", "round", "round_end"} =>
          t.kind = "update"
    /\ pc[r] \in {"final_sync", "final_synced"} =>
          t.kind \in {"update", "reconcile"}
    /\ pc[r] \in {"write_manifest", "sync_tags", "log_version"} =>
          t.kind \in {"create", "update", "patch", "soft_delete"}
    /\ pc[r] \in {"repair", "repair_mark", "bump", "bump_tags", "index_sync",
                  "index_synced"} => t.kind = "reconcile"
    /\ pc[r] \in {"rmtree", "rm_index"} => t.kind = "hard_delete"
    /\ t.kind \in {"create", "update"} =>
          t.body \in Contents /\ t.entity.hash = t.body
    /\ pc[r] \in {"save_canonical", "tag_canonical", "embedding"} =>
          t.md \in Contents
    /\ t.kind = "update" /\ pc[r] \in {"tag_source", "mark_tag", "mark_manifest"} =>
          t.round = 1
    /\ t.kind = "update" /\ pc[r] # "round" =>
          t.round <= Len(Cascade) \/ pc[r] \notin {"pipeline", "save_canonical",
             "tag_canonical", "embedding", "syncing", "synced", "round_end"}

\* Versions count from 1, on the disk and in the handlers.
VersionsFromOne ==
    /\ srcTag # None => srcTag.version # 0
    /\ manifest # None => manifest.version # 0
    /\ \A r \in Requests : task[r].entity.version # 0

\* What the pipeline is given to rebuild is the source of this moment, and
\* canonical.md is saved from what was just saved as the source.
RebuildsSource ==
    \A r \in Requests :
        /\ pc[r] = "pipeline" /\ task[r].kind # "create" =>
              source # None /\ task[r].md = Decoded[source]
        /\ pc[r] = "save_canonical" => source = task[r].md

\* An update has saved its content, and has not yet rebuilt a rep.
FirstRound(r) ==
    \/ pc[r] = "tag_source" /\ task[r].kind = "update"
    \/ pc[r] \in {"mark_tag", "mark_manifest"}
    \/ pc[r] = "round" /\ task[r].round = 1

\* Where a handler may have left canonical.md behind the source.
Behind(r) == FirstRound(r) \/ pc[r] \in {"pipeline", "save_canonical"}

\* canonical.md is behind the source only where the handler that has the loop
\* is about to save it; and an update does find the source it has saved.
TracksUnlessBehind ==
    /\ \A r \in Requests : FirstRound(r) => source # None
    /\ crashes = 0 =>
          canonical = source \/ \E r \in Requests : running = r /\ Behind(r)

\* The version log and the manifest agree, unless the handler that has the loop
\* is about to write the log.
LogUnlessWriting ==
    /\ \A r \in Requests :
          pc[r] \in {"sync_tags", "log_version"} =>
              manifest # None /\ manifest.version = task[r].entity.version
    /\ crashes = 0 =>
          \/ IF manifest = None THEN logged = 0 ELSE logged \in 1..manifest.version
          \/ \E r \in Requests : running = r /\ pc[r] \in {"sync_tags", "log_version"}

Indexed == source \notin Blank => parquet = Decoded[source] /\ lance = parquet
Described ==
    /\ manifest # None /\ manifest.canon = "active"
    /\ Decoded[manifest.hash] = Decoded[source]

\* Files, tags, manifest and index tell one story.
Agreed ==
    /\ canonical = source /\ canonTag = "active"
    /\ Described /\ Indexed
    /\ srcTag = TagsOf(manifest)

\* The part of that story that the lone request r has told so far.
Telling(r) ==
    LET t == task[r] IN
    /\ pc[r] # "rm_index"
    /\ pc[r] \in {"save_canonical", "tag_canonical", "embedding", "syncing",
                  "synced"} => source = t.md
    /\ ~Behind(r) => canonical = source
    /\ ~Behind(r) /\ pc[r] # "tag_canonical" => canonTag = "active"
    /\ ~Behind(r) /\ pc[r] \notin {"tag_canonical", "embedding", "syncing",
                                   "synced"} => Indexed
    /\ pc[r] \in {"syncing", "synced"} =>
          parquet = Decoded[source] /\ t.rows = parquet
    /\ pc[r] = "synced" => lance = parquet
    /\ pc[r] \in {"final_sync", "index_sync"} => t.rows = parquet
    /\ t.kind \in {"create", "update", "patch", "soft_delete"}
          /\ (t.kind = "create" => pc[r] # "pipeline") =>
             Decoded[t.entity.hash] = Decoded[source]
    /\ pc[r] \in {"sync_tags", "log_version"} =>
          manifest # None /\ manifest.canon = "active"
             /\ manifest.hash = t.entity.hash
    /\ pc[r] = "log_version" => srcTag = TagsOf(manifest)
    /\ t.kind = "reconcile" => Described
    /\ pc[r] \in {"repair", "index_sync", "index_synced"} =>
          srcTag = TagsOf(manifest)

\* While nothing disturbs it, a request is alone, and what it has done so far
\* is there; when it has returned, everything agrees.
OneStory ==
    clean =>
        /\ \A q, r \in InFlight : q = r
        /\ source # None => \A r \in InFlight : Telling(r)
        /\ source # None /\ Quiescent => Agreed

IInv ==
    /\ TypeOK
    /\ LoopIsHeld
    /\ \A r \in Requests : LocalsFit(r)
    /\ VersionsFromOne
    /\ RebuildsSource
    /\ SourceIsLastUpload
    /\ TracksUnlessBehind
    /\ LogUnlessWriting
    /\ OneStory

-----------------------------------------------------------------------------
(* The steps.                                                              *)

\* The cascade has an entry.
LEMMA CascadeLength == Len(Cascade) \in Nat \ {0}
<1>1. Cascade \in Seq(STRING) /\ "canonical_md" \in {Cascade[i] : i \in DOMAIN Cascade}
  BY EntityAssumption DEF EntityAssumption
<1>2. Len(Cascade) \in Nat /\ DOMAIN Cascade = 1..Len(Cascade)
  BY <1>1, LenProperties
<1> QED
  BY <1>1, <1>2

\* Where a handler goes on after the pipeline.
LEMMA AfterPipelineLabel ==
    ASSUME NEW r \in Requests, task[r].kind \in {"create", "update", "reconcile"}
    PROVE  /\ task[r].kind = "create" => AfterPipeline(r) = "tag_source"
           /\ task[r].kind = "update" => AfterPipeline(r) = "round_end"
           /\ task[r].kind = "reconcile" => AfterPipeline(r) = "repair_mark"
BY DEF AfterPipeline

\* What the handlers do with their local variables keeps the types.
LEMMA TaskTypes ==
    ASSUME TypeOK, NEW r \in Requests
    PROVE  /\ NoTask \in Tasks
           /\ \A v \in ContentOrNone :
                 /\ [task EXCEPT ![r].md = v] \in [Requests -> Tasks]
                 /\ [task EXCEPT ![r].rows = v] \in [Requests -> Tasks]
           /\ task[r].round <= Len(Cascade) =>
                 [task EXCEPT ![r].round = @ + 1] \in [Requests -> Tasks]
           /\ [task EXCEPT ![r].drifts = @ \ {"rep"}] \in [Requests -> Tasks]
           /\ \A t \in Tasks : [task EXCEPT ![r] = t] \in [Requests -> Tasks]
<1> USE EntityAssumption, CascadeLength DEF EntityAssumption, TypeOK
<1>1. NoTask \in Tasks
  <2>1. NoEntity \in Entities
    BY DEF NoEntity, Entities, Statuses, ContentOrNone
  <2> QED
    BY <2>1 DEF NoTask, Tasks, ContentOrNone
<1>2. ASSUME NEW t \in Tasks
      PROVE  [task EXCEPT ![r] = t] \in [Requests -> Tasks]
  OBVIOUS
<1>3. task[r] \in Tasks
  OBVIOUS
<1>4. ASSUME NEW v \in ContentOrNone
      PROVE  /\ [task EXCEPT ![r].md = v] \in [Requests -> Tasks]
             /\ [task EXCEPT ![r].rows = v] \in [Requests -> Tasks]
  <2>1. [task[r] EXCEPT !.md = v] \in Tasks /\ [task[r] EXCEPT !.rows = v] \in Tasks
    BY <1>3 DEF Tasks
  <2> QED
    BY <1>2, <2>1
<1>5. ASSUME task[r].round <= Len(Cascade)
      PROVE  [task EXCEPT ![r].round = @ + 1] \in [Requests -> Tasks]
  <2>1. task[r].round + 1 \in 1..(Len(Cascade) + 1)
    BY <1>3, <1>5 DEF Tasks
  <2>2. [task[r] EXCEPT !.round = task[r].round + 1] \in Tasks
    BY <1>3, <2>1 DEF Tasks
  <2> QED
    BY <1>2, <2>2
<1>6. [task EXCEPT ![r].drifts = @ \ {"rep"}] \in [Requests -> Tasks]
  <2>1. [task[r] EXCEPT !.drifts = @ \ {"rep"}] \in Tasks
    BY <1>3 DEF Tasks
  <2> QED
    BY <1>2, <2>1
<1> QED
  BY <1>1, <1>2, <1>4, <1>5, <1>6

\* Initially there is nothing on the disk and no request.
LEMMA InitIInv == Init => IInv
<1> SUFFICES ASSUME Init PROVE IInv
  OBVIOUS
<1> USE EntityAssumption DEF EntityAssumption, Init
<1>1. NoTask \in Tasks
  <2>1. NoEntity \in Entities
    BY DEF NoEntity, Entities, Statuses, ContentOrNone
  <2> QED
    BY <2>1, CascadeLength DEF NoTask, Tasks, ContentOrNone
<1>2. TypeOK
  BY <1>1 DEF TypeOK, ContentOrNone, Labels
<1>3. \A r \in Requests : pc[r] = "new" /\ task[r].entity.version = 1
  BY DEF NoTask, NoEntity
<1>4. \A r \in Requests : task[r].kind = None
  BY DEF NoTask
<1>5. LoopIsHeld /\ VersionsFromOne /\ RebuildsSource
  BY <1>3 DEF LoopIsHeld, Awaiting, VersionsFromOne, RebuildsSource
<1>6. \A r \in Requests : LocalsFit(r)
  BY <1>3, <1>4 DEF LocalsFit, Kinds
<1>7. SourceIsLastUpload /\ TracksUnlessBehind /\ LogUnlessWriting
  BY <1>3 DEF SourceIsLastUpload, TracksUnlessBehind, LogUnlessWriting, FirstRound
<1>8. OneStory
  BY <1>3 DEF OneStory, InFlight, Quiescent
<1> QED
  BY <1>2, <1>5, <1>6, <1>7, <1>8 DEF IInv

\* A handler goes on with its next operation.
LEMMA GotoTypes ==
    ASSUME TypeOK, NEW r \in Requests, NEW l \in Labels
    PROVE  [pc EXCEPT ![r] = l] \in [Requests -> Labels]
BY DEF TypeOK

\* The pipeline keeps the types.
LEMMA PipelineTypes ==
    ASSUME IInv, NEW r \in Requests, Pipeline(r)
    PROVE  TypeOK'
<1>0. TypeOK /\ LocalsFit(r) /\ task[r] \in Tasks
  BY DEF IInv, TypeOK
<1> USE <1>0, EntityAssumption, GotoTypes
    DEF EntityAssumption, TypeOK, srcVars, canonVars, metaVars, index, disk,
        history, At, Goto, Await, Keep, Disturbed, Quiet, ContentOrNone
<1> DEFINE PipelineLabels == {"pipeline", "save_canonical", "tag_canonical",
              "embedding", "syncing", "synced", "tag_source", "round_end",
              "repair_mark", "final_sync", "final_synced", "index_synced"}
<1>a. PipelineLabels \subseteq Labels
  BY DEF Labels
<1>b. /\ task[r].md \in ContentOrNone /\ task[r].body \in ContentOrNone
      /\ task[r].rows \in ContentOrNone
  BY DEF Tasks
<1>c. pc[r] \in {"save_canonical", "tag_canonical", "embedding", "synced"} =>
         AfterPipeline(r) \in PipelineLabels
  BY AfterPipelineLabel DEF LocalsFit
<1>d. \A v \in ContentOrNone :
         /\ [task EXCEPT ![r].md = v] \in [Requests -> Tasks]
         /\ [task EXCEPT ![r].rows = v] \in [Requests -> Tasks]
  BY TaskTypes
<1>1. CASE SaveSource(r)
  <2>1. source' \in ContentOrNone /\ lastUpload' \in ContentOrNone
    BY <1>1, <1>b DEF SaveSource
  <2>2. PICK v \in ContentOrNone : task' = [task EXCEPT ![r].md = v]
    BY <1>1, <2>1 DEF SaveSource
  <2>3. task' \in [Requests -> Tasks]
    BY <2>2, <1>d
  <2>4. pc' \in [Requests -> Labels]
    BY <1>1, <1>a DEF SaveSource
  <2> QED
    BY <1>1, <2>1, <2>3, <2>4 DEF SaveSource
<1>2. CASE SaveCanonical(r)
  <2>1. pc' \in [Requests -> Labels]
    BY <1>2, <1>a DEF SaveCanonical
  <2> QED
    BY <1>2, <1>b, <2>1 DEF SaveCanonical
<1>3. CASE TagCanonical(r)
  <2>1. pc' \in [Requests -> Labels] /\ running' \in Requests \cup {None}
    BY <1>3, <1>a, <1>c DEF TagCanonical
  <2> QED
    BY <1>3, <2>1 DEF TagCanonical
<1>4. CASE Embedded(r)
  <2>1. task[r].md \in Contents
    BY <1>4 DEF Embedded, LocalsFit
  <2>2. PICK v \in ContentOrNone : parquet' = v /\ task' = [task EXCEPT ![r].rows = v]
    BY <1>4, <2>1 DEF Embedded
  <2>3. task' \in [Requests -> Tasks]
    BY <2>2, <1>d
  <2>4. pc' \in [Requests -> Labels]
    BY <1>4, <1>a DEF Embedded
  <2> QED
    BY <1>4, <2>2, <2>3, <2>4 DEF Embedded
<1>5. CASE EmbedFails(r)
  <2>1. pc' \in [Requests -> Labels] /\ running' \in Requests \cup {None}
    BY <1>5, <1>a, <1>c DEF EmbedFails
  <2> QED
    BY <1>5, <2>1 DEF EmbedFails
<1>6. CASE Sync(r)
  <2>1. AfterSync[pc[r]] \in PipelineLabels
    BY <1>6 DEF Sync, AfterSync
  <2>2. pc' \in [Requests -> Labels] /\ lance' \in ContentOrNone
    BY <1>6, <1>a, <1>b, <2>1 DEF Sync
  <2>3. clean' \in BOOLEAN /\ last' \in Kinds \cup {None}
    BY <1>6, Zenon DEF Sync
  <2> QED
    BY <1>6, <2>2, <2>3 DEF Sync
<1>7. CASE PipelineReturns(r)
  <2>1. pc' \in [Requests -> Labels] /\ running' \in Requests \cup {None}
    BY <1>7, <1>a, <1>c DEF PipelineReturns
  <2> QED
    BY <1>7, <2>1 DEF PipelineReturns
<1> QED
  BY <1>1, <1>2, <1>3, <1>4, <1>5, <1>6, <1>7 DEF Pipeline

\* The Entity object that a handler assembles.
LEMMA AssembledType ==
    ASSUME TypeOK
    PROVE  Assembled \in Entities
<1>1. NoEntity \in Entities
  BY DEF NoEntity, Entities, Statuses, ContentOrNone
<1>2. manifest # None =>
         [hash |-> manifest.hash, version |-> manifest.version,
          status |-> manifest.status] \in Entities
  BY DEF TypeOK, Manifests, Entities
<1> QED
  BY <1>1, <1>2 DEF TypeOK, Assembled

\* What a request has in its local variables when it begins.
LEMMA StartTypes ==
    ASSUME TypeOK
    PROVE  /\ [NoTask EXCEPT !.kind = "create", !.body = Original,
                             !.entity.hash = Original] \in Tasks
           /\ \A c \in Contents :
                 [NoTask EXCEPT !.kind = "update", !.body = c,
                     !.entity = [Assembled EXCEPT !.hash = c, !.version = @ + 1]]
                    \in Tasks
           /\ \A k \in Kinds, s \in Statuses :
                 [NoTask EXCEPT !.kind = k,
                     !.entity = [Assembled EXCEPT !.status = s]] \in Tasks
           /\ [NoTask EXCEPT !.kind = "hard_delete"] \in Tasks
           /\ [NoTask EXCEPT !.kind = "reconcile", !.drifts = Drifts] \in Tasks
<1>1. Assembled \in Entities
  BY AssembledType
<1>2. NoTask \in Tasks
  <2>1. 1 \in Requests
    BY EntityAssumption DEF EntityAssumption, Requests
  <2> QED
    BY <2>1, TaskTypes
<1>3. NoEntity \in Entities /\ NoTask.entity = NoEntity
  BY <1>2 DEF NoTask, Tasks
<1>4. Original \in ContentOrNone /\ Contents \subseteq ContentOrNone
  BY EntityAssumption DEF EntityAssumption, ContentOrNone
<1>5. [NoTask EXCEPT !.kind = "create", !.body = Original,
                     !.entity.hash = Original] \in Tasks
  <2>1. [NoEntity EXCEPT !.hash = Original] \in Entities
    BY <1>3, <1>4 DEF Entities
  <2>2. [NoTask EXCEPT !.kind = "create", !.body = Original,
                       !.entity = [NoEntity EXCEPT !.hash = Original]] \in Tasks
    BY <1>2, <1>4, <2>1 DEF Tasks, Kinds
  <2> QED
    BY <1>2, <1>3, <2>2 DEF Tasks
<1>6. ASSUME NEW c \in Contents
      PROVE  [NoTask EXCEPT !.kind = "update", !.body = c,
                 !.entity = [Assembled EXCEPT !.hash = c, !.version = @ + 1]]
                    \in Tasks
  <2>1. Assembled.version + 1 \in Nat
    BY <1>1 DEF Entities
  <2>2. \A n \in Nat : [Assembled EXCEPT !.hash = c, !.version = n] \in Entities
    BY <1>1, <1>4 DEF Entities
  <2> QED
    BY <1>2, <1>4, <2>1, <2>2 DEF Tasks, Kinds
<1>7. ASSUME NEW k \in Kinds, NEW s \in Statuses
      PROVE  [NoTask EXCEPT !.kind = k,
                 !.entity = [Assembled EXCEPT !.status = s]] \in Tasks
  <2>1. [Assembled EXCEPT !.status = s] \in Entities
    BY <1>1 DEF Entities
  <2> QED
    BY <1>2, <2>1 DEF Tasks
<1>8. [NoTask EXCEPT !.kind = "hard_delete"] \in Tasks
  BY <1>2 DEF Tasks, Kinds
<1>9. [NoTask EXCEPT !.kind = "reconcile", !.drifts = Drifts] \in Tasks
  <2>1. Drifts \subseteq {"rep", "index"}
    BY DEF Drifts
  <2> QED
    BY <1>2, <2>1 DEF Tasks, Kinds
<1> QED
  BY <1>5, <1>6, <1>7, <1>8, <1>9

\* The arrival of a request keeps the types.
LEMMA ArriveTypes ==
    ASSUME TypeOK, NEW r \in Requests, NEW l \in Labels, NEW t \in Tasks,
           t.kind \in Kinds, Arrive(r, l, t),
           source' \in ContentOrNone, srcTag' \in Entities \cup {None},
           lastUpload' \in ContentOrNone
    PROVE  TypeOK'
<1>1. clean' \in BOOLEAN
  BY Zenon DEF Arrive, TypeOK
<1>2. pc' \in [Requests -> Labels] /\ task' \in [Requests -> Tasks]
  BY GotoTypes, TaskTypes DEF Arrive, Goto
<1>3. running' \in Requests \cup {None} /\ last' \in Kinds \cup {None}
  BY DEF Arrive
<1> QED
  BY <1>1, <1>2, <1>3 DEF Arrive, TypeOK, canonVars, metaVars, index

\* A request that begins keeps the types.
LEMMA StartsTypes ==
    ASSUME TypeOK, NEW r \in Requests, Start(r)
    PROVE  TypeOK'
<1>0. /\ {"pipeline", "tag_source", "write_manifest", "rmtree", "repair"} \subseteq Labels
      /\ {"create", "update", "patch", "soft_delete", "hard_delete", "reconcile"}
            \subseteq Kinds
      /\ {"enabled", "hidden", "deleted"} \subseteq Statuses
      /\ Contents \subseteq ContentOrNone
  BY DEF Labels, Kinds, Statuses, ContentOrNone
<1>1. /\ UNCHANGED srcVars => source' \in ContentOrNone /\ srcTag' \in Entities \cup {None}
      /\ UNCHANGED lastUpload => lastUpload' \in ContentOrNone
  BY DEF TypeOK, srcVars
<1>2. NoTask \in Tasks
  BY TaskTypes
<1>3. CASE StartCreate(r)
  <2> DEFINE t == [NoTask EXCEPT !.kind = "create", !.body = Original,
                                 !.entity.hash = Original]
  <2>1. t \in Tasks /\ t.kind = "create"
    BY <1>2, StartTypes DEF Tasks
  <2>2. Arrive(r, "pipeline", t) /\ UNCHANGED <<srcVars, lastUpload>>
    BY <1>3 DEF StartCreate
  <2> HIDE DEF t
  <2> QED
    BY <1>0, <1>1, <2>1, <2>2, ArriveTypes
<1>4. ASSUME NEW c \in Contents, StartUpdate(r, c) PROVE TypeOK'
  <2> DEFINE t == [NoTask EXCEPT !.kind = "update", !.body = c,
                     !.entity = [Assembled EXCEPT !.hash = c, !.version = @ + 1]]
  <2>1. t \in Tasks /\ t.kind = "update"
    BY <1>2, StartTypes DEF Tasks
  <2>2. Arrive(r, "tag_source", t) /\ source' = c /\ srcTag' = None /\ lastUpload' = c
    BY <1>4 DEF StartUpdate
  <2> HIDE DEF t
  <2> QED
    BY <1>0, <2>1, <2>2, ArriveTypes DEF ContentOrNone
<1>5. ASSUME NEW k \in Kinds, NEW s \in Statuses, StartPatch(r, k, s) PROVE TypeOK'
  <2> DEFINE t == [NoTask EXCEPT !.kind = k, !.entity = [Assembled EXCEPT !.status = s]]
  <2>1. t \in Tasks /\ t.kind = k
    BY <1>2, StartTypes DEF Tasks
  <2>2. Arrive(r, "write_manifest", t) /\ UNCHANGED <<srcVars, lastUpload>>
    BY <1>5 DEF StartPatch
  <2> HIDE DEF t
  <2> QED
    BY <1>0, <1>1, <2>1, <2>2, ArriveTypes
<1>6. CASE StartHardDelete(r)
  <2> DEFINE t == [NoTask EXCEPT !.kind = "hard_delete"]
  <2>1. t \in Tasks /\ t.kind = "hard_delete"
    BY <1>2, StartTypes DEF Tasks
  <2>2. Arrive(r, "rmtree", t) /\ UNCHANGED <<srcVars, lastUpload>>
    BY <1>6 DEF StartHardDelete
  <2> HIDE DEF t
  <2> QED
    BY <1>0, <1>1, <2>1, <2>2, ArriveTypes
<1>7. CASE StartReconcile(r)
  <2> DEFINE t == [NoTask EXCEPT !.kind = "reconcile", !.drifts = Drifts]
  <2>1. t \in Tasks /\ t.kind = "reconcile"
    BY <1>2, StartTypes DEF Tasks
  <2>2. Arrive(r, "repair", t) /\ UNCHANGED <<srcVars, lastUpload>>
    BY <1>7 DEF StartReconcile
  <2> HIDE DEF t
  <2> QED
    BY <1>0, <1>1, <2>1, <2>2, ArriveTypes
<1> QED
  BY <1>0, <1>3, <1>4, <1>5, <1>6, <1>7 DEF Start

\* The steps of an update keep the types.
LEMMA UpdateTypes ==
    ASSUME IInv, NEW r \in Requests, UpdateSteps(r)
    PROVE  TypeOK'
<1>0. TypeOK /\ LocalsFit(r) /\ task[r] \in Tasks /\ VersionsFromOne
  BY DEF IInv, TypeOK
<1> USE <1>0, GotoTypes
    DEF TypeOK, srcVars, canonVars, metaVars, index, disk,
        history, At, Goto, Await, Keep
<1> DEFINE UpdateLabels == {"pipeline", "mark_tag", "mark_manifest", "round",
              "final_sync", "write_manifest", "bump"}
<1>a. UpdateLabels \subseteq Labels
  BY DEF Labels
<1>b. /\ task[r].md \in ContentOrNone /\ task[r].body \in ContentOrNone
      /\ task[r].round \in Nat /\ parquet \in ContentOrNone
  BY DEF Tasks
<1>c. \A v \in ContentOrNone :
         /\ [task EXCEPT ![r].md = v] \in [Requests -> Tasks]
         /\ [task EXCEPT ![r].rows = v] \in [Requests -> Tasks]
  BY TaskTypes
<1>d. \A c \in {"active", "stale"} :
         manifest # None => [manifest EXCEPT !.canon = c] \in Manifests
  BY DEF Manifests
<1>1. CASE TagSource(r)
  <2>1. NoEntity \in Entities
    BY DEF NoEntity, Entities, Statuses, ContentOrNone
  <2>2. srcTag' \in Entities \cup {None}
    <3>1. \A e \in Entities : [e EXCEPT !.hash = task[r].body] \in Entities
      BY <1>b DEF Entities
    <3> QED
      BY <1>1, <2>1, <3>1 DEF TagSource
  <2>3. pc' \in [Requests -> Labels]
    BY <1>1, <1>a DEF TagSource, Labels
  <2> QED
    BY <1>1, <2>2, <2>3 DEF TagSource
<1>2. CASE MarkTag(r)
  <2>1. pc' \in [Requests -> Labels]
    BY <1>2, <1>a DEF MarkTag
  <2> QED
    BY <1>2, <2>1 DEF MarkTag
<1>3. CASE MarkManifest(r)
  <2>1. pc' \in [Requests -> Labels] /\ manifest' \in Manifests \cup {None}
    BY <1>3, <1>a, <1>d DEF MarkManifest
  <2> QED
    BY <1>3, <2>1 DEF MarkManifest
<1>4. CASE Round(r)
  <2>1. pc' \in [Requests -> Labels]
    BY <1>4, <1>a DEF Round
  <2>2. source # None => Decoded[source] \in ContentOrNone
    BY EntityAssumption DEF EntityAssumption, ContentOrNone
  <2>3. CASE source = None
    <3>1. task' = [task EXCEPT ![r].round = @ + 1] /\ task[r].round <= Len(Cascade)
      BY <1>4, <2>3 DEF Round
    <3> QED
      BY <1>4, <2>1, <3>1, TaskTypes DEF Round
  <2>4. CASE source # None
    <3>1. task' = [task EXCEPT ![r].md = Decoded[source]]
      BY <1>4, <2>4 DEF Round, RebuildInput
    <3>2. task' \in [Requests -> Tasks]
      BY <1>c, <2>2, <2>4, <3>1
    <3> QED
      BY <1>4, <2>1, <3>2 DEF Round
  <2> QED
    BY <2>3, <2>4
<1>5. CASE RoundEnd(r)
  <2>1. task[r].round <= Len(Cascade)
    BY <1>5 DEF RoundEnd, LocalsFit
  <2>2. pc' \in [Requests -> Labels] /\ manifest' \in Manifests \cup {None}
    BY <1>5, <1>a, <1>d DEF RoundEnd
  <2>3. task' \in [Requests -> Tasks]
    BY <1>5, <2>1, TaskTypes DEF RoundEnd
  <2> QED
    BY <1>5, <2>2, <2>3 DEF RoundEnd
<1>6. CASE Final(r)
  <2>1. pc' \in [Requests -> Labels] /\ running' \in Requests \cup {None}
    BY <1>6, <1>a DEF Final, CopyIndex
  <2>2. task' = task \/ task' = [task EXCEPT ![r].rows = parquet]
    BY <1>6 DEF Final, CopyIndex
  <2>3. task' \in [Requests -> Tasks]
    BY <1>b, <1>c, <2>2
  <2> QED
    BY <1>6, <2>1, <2>3 DEF Final
<1>7. CASE FinalReturns(r)
  <2>1. pc' \in [Requests -> Labels] /\ running' \in Requests \cup {None}
    BY <1>7, <1>a DEF FinalReturns
  <2> QED
    BY <1>7, <2>1 DEF FinalReturns
<1> QED
  BY <1>1, <1>2, <1>3, <1>4, <1>5, <1>6, <1>7 DEF UpdateSteps

\* The end of a handler keeps the types.
LEMMA ReturnTypes ==
    ASSUME TypeOK, NEW r \in Requests, Return(r)
    PROVE  /\ pc' \in [Requests -> Labels]
           /\ task' \in [Requests -> Tasks]
           /\ running' \in Requests \cup {None}
<1>1. "done" \in Labels /\ NoTask \in Tasks
  BY TaskTypes DEF Labels
<1> QED
  BY <1>1, GotoTypes, TaskTypes DEF Return, Goto, Await

\* The tags that are taken from a manifest.
LEMMA TagsOfType ==
    ASSUME TypeOK
    PROVE  TagsOf(manifest) \in Entities \cup {None}
<1>1. manifest # None =>
         [hash |-> manifest.hash, version |-> manifest.version,
          status |-> manifest.status] \in Entities
  BY DEF TypeOK, Manifests, Entities
<1> QED
  BY <1>1 DEF TypeOK, TagsOf

\* The writes of the metadata, and the deletion, keep the types.
LEMMA MetaTypes ==
    ASSUME IInv, NEW r \in Requests, MetaSteps(r) \/ DeleteSteps(r)
    PROVE  TypeOK'
<1>0. TypeOK /\ LocalsFit(r) /\ task[r] \in Tasks
  BY DEF IInv, TypeOK
<1> USE <1>0, GotoTypes
    DEF TypeOK, srcVars, canonVars, metaVars, index, disk,
        history, At, Goto, Disturbed, Quiet
<1>a. {"sync_tags", "log_version", "rm_index"} \subseteq Labels
  BY DEF Labels
<1>b. task[r].entity \in Entities
  BY DEF Tasks
<1>1. CASE WriteManifest(r)
  <2>1. manifest' \in Manifests
    BY <1>1, <1>b DEF WriteManifest, Entities, Manifests
  <2>2. pc' \in [Requests -> Labels]
    BY <1>1, <1>a DEF WriteManifest
  <2> QED
    BY <1>1, <2>1, <2>2 DEF WriteManifest
<1>2. CASE SyncTags(r)
  <2>1. srcTag' \in Entities \cup {None}
    BY <1>2, TagsOfType DEF SyncTags
  <2>2. pc' \in [Requests -> Labels]
    BY <1>2, <1>a DEF SyncTags
  <2> QED
    BY <1>2, <2>1, <2>2 DEF SyncTags
<1>3. CASE LogVersion(r)
  <2>1. logged' \in Nat /\ status' \in Statuses \cup {None}
    BY <1>3, <1>b DEF LogVersion, Entities
  <2>2. /\ pc' \in [Requests -> Labels] /\ task' \in [Requests -> Tasks]
        /\ running' \in Requests \cup {None}
    BY <1>3, ReturnTypes DEF LogVersion
  <2> QED
    BY <1>3, <2>1, <2>2 DEF LogVersion
<1>4. CASE RemoveTree(r)
  <2>1. pc' \in [Requests -> Labels]
    BY <1>4, <1>a DEF RemoveTree
  <2>2. None \in ContentOrNone
    BY DEF ContentOrNone
  <2> QED
    BY <1>4, <2>1, <2>2 DEF RemoveTree
<1>5. CASE RemoveIndex(r)
  <2>1. /\ pc' \in [Requests -> Labels] /\ task' \in [Requests -> Tasks]
        /\ running' \in Requests \cup {None}
    BY <1>5, ReturnTypes DEF RemoveIndex
  <2>2. lance' \in ContentOrNone
    BY <1>5 DEF RemoveIndex, ContentOrNone
  <2>3. clean' \in BOOLEAN /\ last' \in Kinds \cup {None}
    BY <1>5, Zenon DEF RemoveIndex
  <2> QED
    BY <1>5, <2>1, <2>2, <2>3 DEF RemoveIndex
<1> QED
  BY <1>1, <1>2, <1>3, <1>4, <1>5 DEF MetaSteps, DeleteSteps

\* The repairs keep the types.
LEMMA ReconcileTypes ==
    ASSUME IInv, NEW r \in Requests, ReconcileSteps(r)
    PROVE  TypeOK'
<1>0. TypeOK /\ task[r] \in Tasks
  BY DEF IInv, TypeOK
<1> USE <1>0, GotoTypes
    DEF TypeOK, srcVars, canonVars, metaVars, index, disk,
        history, At, Goto, Await, Keep
<1> DEFINE RepairLabels == {"pipeline", "repair", "index_sync", "final_sync",
              "bump", "bump_tags"}
<1>a. RepairLabels \subseteq Labels
  BY DEF Labels
<1>c. \A v \in ContentOrNone : [task EXCEPT ![r].rows = v] \in [Requests -> Tasks]
  BY TaskTypes
<1>1. CASE RepairRep(r)
  <2>1. pc' \in [Requests -> Labels]
    BY <1>1, <1>a DEF RepairRep
  <2>2. source # None => Decoded[source] \in ContentOrNone
    BY EntityAssumption DEF EntityAssumption, ContentOrNone
  <2>3. \A v \in ContentOrNone :
           [task EXCEPT ![r].md = v, ![r].drifts = @ \ {"rep"}] \in [Requests -> Tasks]
    <3>1. ASSUME NEW v \in ContentOrNone
          PROVE  [task[r] EXCEPT !.md = v, !.drifts = @ \ {"rep"}] \in Tasks
      BY DEF Tasks
    <3>2. ASSUME NEW v \in ContentOrNone
          PROVE  [task EXCEPT ![r].md = v, ![r].drifts = @ \ {"rep"}]
                    = [task EXCEPT ![r] = [task[r] EXCEPT !.md = v,
                                                          !.drifts = @ \ {"rep"}]]
      OBVIOUS
    <3> QED
      BY <3>1, <3>2, TaskTypes
  <2>4. task' \in [Requests -> Tasks]
    <3>1. CASE source = None
      <4>1. task' = [task EXCEPT ![r].drifts = @ \ {"rep"}]
        BY <1>1, <3>1 DEF RepairRep
      <4>2. [task EXCEPT ![r].drifts = @ \ {"rep"}] \in [Requests -> Tasks]
        BY TaskTypes
      <4> HIDE DEF TypeOK
      <4> QED
        BY <4>1, <4>2
    <3>2. CASE source # None
      <4>1. task' = [task EXCEPT ![r].md = Decoded[source], ![r].drifts = @ \ {"rep"}]
        BY <1>1, <3>2 DEF RepairRep
      <4> HIDE DEF TypeOK
      <4> QED
        BY <2>2, <2>3, <3>2, <4>1
    <3> QED
      BY <3>1, <3>2
  <2> QED
    BY <1>1, <2>1, <2>4 DEF RepairRep
<1>2. CASE RepairIndex(r)
  <2>1. /\ pc' \in [Requests -> Labels] /\ running' \in Requests \cup {None}
        /\ task' \in [Requests -> Tasks]
    BY <1>2, <1>a, <1>c, ReturnTypes DEF RepairIndex, CopyIndex
  <2> QED
    BY <1>2, <2>1 DEF RepairIndex
<1>3. CASE RepairMark(r)
  <2>1. /\ pc' \in [Requests -> Labels] /\ running' \in Requests \cup {None}
        /\ task' \in [Requests -> Tasks]
    BY <1>3, <1>a, <1>c DEF RepairMark, CopyIndex
  <2>2. manifest' \in Manifests \cup {None}
    BY <1>3 DEF RepairMark, Manifests
  <2> QED
    BY <1>3, <2>1, <2>2 DEF RepairMark
<1>4. CASE Bump(r)
  <2>1. manifest' \in Manifests \cup {None}
    BY <1>4 DEF Bump, Manifests
  <2>2. pc' \in [Requests -> Labels]
    BY <1>4, <1>a DEF Bump
  <2> QED
    BY <1>4, <2>1, <2>2 DEF Bump
<1>5. CASE BumpTags(r)
  <2>1. srcTag' \in Entities \cup {None}
    BY <1>5, TagsOfType DEF BumpTags
  <2>2. pc' \in [Requests -> Labels]
    BY <1>5, <1>a DEF BumpTags
  <2> QED
    BY <1>5, <2>1, <2>2 DEF BumpTags
<1>6. CASE IndexSynced(r)
  <2>1. /\ pc' \in [Requests -> Labels] /\ task' \in [Requests -> Tasks]
        /\ running' \in Requests \cup {None}
    BY <1>6, ReturnTypes DEF IndexSynced
  <2> QED
    BY <1>6, <2>1 DEF IndexSynced
<1> QED
  BY <1>1, <1>2, <1>3, <1>4, <1>5, <1>6 DEF ReconcileSteps

\* A crash keeps the types.
LEMMA CrashTypes ==
    ASSUME TypeOK, Crash
    PROVE  TypeOK'
<1> USE DEF TypeOK, srcVars, canonVars, metaVars
<1>1. /\ source' \in ContentOrNone /\ srcTag' \in Entities \cup {None}
      /\ lastUpload' \in ContentOrNone
      /\ canonical' \in ContentOrNone /\ canonTag' \in {"active", "stale", None}
      /\ manifest' \in Manifests \cup {None} /\ logged' \in Nat
      /\ parquet' \in ContentOrNone
  BY DEF Crash, ContentOrNone
<1>2. pc' \in [Requests -> Labels] /\ task' \in [Requests -> Tasks]
  <2>1. "done" \in Labels
    BY DEF Labels
  <2>2. NoTask \in Tasks
    <3>1. 1 \in Requests
      BY EntityAssumption DEF EntityAssumption, Requests
    <3> QED
      BY <3>1, TaskTypes
  <2> QED
    BY <2>1, <2>2 DEF Crash
<1>3. crashes' \in 0..MaxCrashes
  BY EntityAssumption DEF EntityAssumption, Crash
<1>4. clean' \in BOOLEAN /\ last' \in Kinds \cup {None}
  BY Zenon DEF Crash, Disturbed
<1> QED
  BY <1>1, <1>2, <1>3, <1>4 DEF Crash

\* The types are kept when nothing changes.
LEMMA StutterTypes ==
    ASSUME TypeOK, UNCHANGED vars
    PROVE  TypeOK'
<1>1. clean' \in BOOLEAN
  BY Zenon DEF TypeOK, vars, history
<1> QED
  BY <1>1 DEF TypeOK, vars, history, disk, srcVars, canonVars, metaVars, index

\* The types are inductive with the rest of the invariant.
LEMMA NextTypes ==
    ASSUME IInv, [Next]_vars
    PROVE  TypeOK'
<1>1. ASSUME NEW r \in Requests, Start(r) PROVE TypeOK'
  BY <1>1, StartsTypes DEF IInv
<1>2. ASSUME NEW r \in Requests, Step(r) PROVE TypeOK'
  BY <1>2, PipelineTypes, UpdateTypes, MetaTypes, ReconcileTypes DEF Step
<1>3. CASE Crash
  BY <1>3, CrashTypes DEF IInv
<1>4. CASE UNCHANGED vars
  BY <1>4, StutterTypes DEF IInv
<1> QED
  BY <1>1, <1>2, <1>3, <1>4 DEF Next, AllDone

-----------------------------------------------------------------------------
(* The event loop and the local variables.                                 *)

\* A step is of one handler: it keeps the loop, gives it up, takes it when it
\* is free, or is the executor's.
LEMMA StepControl ==
    ASSUME IInv, NEW r \in Requests, Step(r)
    PROVE  /\ \A q \in Requests \ {r} : pc'[q] = pc[q] /\ task'[q] = task[q]
           /\ \/ /\ running = r /\ pc[r] \notin Awaiting
                 /\ running' = r /\ pc'[r] \notin Awaiting
              \/ /\ running = r /\ pc[r] \notin Awaiting
                 /\ running' = None /\ pc'[r] \in Awaiting
              \/ /\ running = None /\ pc[r] \in Awaiting
                 /\ running' = r /\ pc'[r] \notin Awaiting
              \/ /\ running' = running
                 /\ pc[r] \in Awaiting /\ pc'[r] \in Awaiting
<1>0. /\ pc \in [Requests -> Labels] /\ task \in [Requests -> Tasks]
      /\ LocalsFit(r)
  BY DEF IInv, TypeOK
<1> USE <1>0 DEF At, Goto, Await, Keep, Return
<1>1. CASE Pipeline(r)
  <2>1. \A q \in Requests \ {r} : pc'[q] = pc[q] /\ task'[q] = task[q]
    BY <1>1 DEF Pipeline, SaveSource, SaveCanonical, TagCanonical, Embedded,
       EmbedFails, Sync, PipelineReturns, history
  <2>2. pc[r] \in {"tag_canonical", "embedding", "synced"} =>
           AfterPipeline(r) \in {"tag_source", "round_end", "repair_mark"}
    BY AfterPipelineLabel DEF LocalsFit
  <2>3. CASE SaveSource(r) \/ SaveCanonical(r)
    BY <2>1, <2>3 DEF SaveSource, SaveCanonical, Awaiting
  <2>4. CASE TagCanonical(r)
    BY <2>1, <2>2, <2>4 DEF TagCanonical, Awaiting
  <2>5. CASE EmbedFails(r) \/ PipelineReturns(r)
    BY <2>1, <2>2, <2>5 DEF EmbedFails, PipelineReturns, Awaiting
  <2>6. CASE Embedded(r) \/ Sync(r)
    <3>1. pc[r] \in {"embedding", "syncing", "final_sync", "index_sync"}
      BY <2>6 DEF Embedded, Sync, AfterSync
    <3>2. pc'[r] \in {"syncing", "synced", "final_synced", "index_synced"}
      BY <2>6 DEF Embedded, Sync, AfterSync
    <3> QED
      BY <2>1, <2>6, <3>1, <3>2 DEF Embedded, Sync, Awaiting
  <2> QED
    BY <1>1, <2>3, <2>4, <2>5, <2>6 DEF Pipeline
<1>2. CASE UpdateSteps(r)
  <2>1. \A q \in Requests \ {r} : pc'[q] = pc[q] /\ task'[q] = task[q]
    BY <1>2 DEF UpdateSteps, TagSource, MarkTag, MarkManifest, Round, RoundEnd,
       Final, FinalReturns, CopyIndex
  <2>2. CASE TagSource(r) \/ MarkTag(r) \/ MarkManifest(r) \/ Round(r) \/ RoundEnd(r)
    BY <2>1, <2>2 DEF TagSource, MarkTag, MarkManifest, Round, RoundEnd, Awaiting
  <2>3. CASE Final(r)
    BY <2>1, <2>3 DEF Final, CopyIndex, Awaiting
  <2>4. CASE FinalReturns(r)
    BY <2>1, <2>4 DEF FinalReturns, Awaiting
  <2> QED
    BY <1>2, <2>2, <2>3, <2>4 DEF UpdateSteps
<1>3. CASE MetaSteps(r) \/ DeleteSteps(r)
  BY <1>3 DEF MetaSteps, DeleteSteps, WriteManifest, SyncTags, LogVersion,
     RemoveTree, RemoveIndex, Awaiting
<1>4. CASE ReconcileSteps(r)
  <2>1. \A q \in Requests \ {r} : pc'[q] = pc[q] /\ task'[q] = task[q]
    BY <1>4 DEF ReconcileSteps, RepairRep, RepairIndex, RepairMark, Bump, BumpTags,
       IndexSynced, CopyIndex
  <2>2. CASE RepairRep(r) \/ RepairIndex(r) \/ RepairMark(r)
    BY <2>1, <2>2 DEF RepairRep, RepairIndex, RepairMark, CopyIndex, Awaiting
  <2>3. CASE Bump(r) \/ BumpTags(r) \/ IndexSynced(r)
    BY <2>1, <2>3 DEF Bump, BumpTags, IndexSynced, Awaiting
  <2> QED
    BY <1>4, <2>2, <2>3 DEF ReconcileSteps
<1> QED
  BY <1>1, <1>2, <1>3, <1>4 DEF Step

\* A request that begins takes the free loop.
LEMMA StartControl ==
    ASSUME IInv, NEW r \in Requests, Start(r)
    PROVE  /\ \A q \in Requests \ {r} : pc'[q] = pc[q] /\ task'[q] = task[q]
           /\ running = None /\ pc[r] = "new"
           /\ running' = r
           /\ pc'[r] \in Labels /\ pc'[r] \notin Awaiting
           /\ \E t : Arrive(r, pc'[r], t) /\ task'[r] = t
<1>0. pc \in [Requests -> Labels] /\ task \in [Requests -> Tasks]
  BY DEF IInv, TypeOK
<1>1. \E l \in Labels : l \notin Awaiting /\ \E t : Arrive(r, l, t)
  <2>1. {"pipeline", "tag_source", "write_manifest", "rmtree", "repair"}
           \subseteq Labels \ Awaiting
    BY DEF Labels, Awaiting
  <2> QED
    BY <2>1 DEF Start, StartCreate, StartUpdate, StartPatch, StartHardDelete,
       StartReconcile
<1> QED
  BY <1>0, <1>1 DEF Arrive, Goto

\* The loop is held by one handler at a time.
LEMMA NextLoop ==
    ASSUME IInv, [Next]_vars
    PROVE  LoopIsHeld'
<1> USE EntityAssumption DEF EntityAssumption, LoopIsHeld
<1>0. TypeOK /\ LoopIsHeld
  BY DEF IInv
<1>1. ASSUME NEW r \in Requests, Start(r) PROVE LoopIsHeld'
  BY <1>0, <1>1, StartControl
<1>2. ASSUME NEW r \in Requests, Step(r) PROVE LoopIsHeld'
  BY <1>0, <1>2, StepControl
<1>3. CASE Crash
  BY <1>0, <1>3 DEF Crash, InFlight, Awaiting
<1>4. CASE UNCHANGED vars
  BY <1>0, <1>4 DEF vars
<1> QED
  BY <1>1, <1>2, <1>3, <1>4 DEF Next, AllDone

\* The tasks that requests begin with.
LEMMA StartFits ==
    ASSUME IInv, NEW r \in Requests, Start(r)
    PROVE  LocalsFit(r)'
<1>0. pc \in [Requests -> Labels] /\ task \in [Requests -> Tasks] /\ TypeOK
  BY DEF IInv, TypeOK
<1> USE EntityAssumption, <1>0 DEF EntityAssumption, Goto
<1>1. CASE StartCreate(r)
  <2>1. /\ pc'[r] = "pipeline" /\ task'[r].kind = "create"
        /\ task'[r].body = Original /\ task'[r].entity.hash = Original
    BY <1>1, StartTypes DEF StartCreate, Arrive, NoTask, NoEntity
  <2> QED
    BY <2>1 DEF LocalsFit
<1>2. ASSUME NEW c \in Contents, StartUpdate(r, c) PROVE LocalsFit(r)'
  <2>1. /\ pc'[r] = "tag_source" /\ task'[r].kind = "update" /\ task'[r].round = 1
        /\ task'[r].body = c /\ task'[r].entity.hash = c
    <3>1. Assembled \in Entities
      BY AssembledType
    <3> QED
      BY <1>2, <3>1 DEF StartUpdate, Arrive, NoTask, Entities
  <2> QED
    BY <2>1 DEF LocalsFit
<1>3. ASSUME NEW k \in {"patch", "soft_delete"}, NEW s \in Statuses, StartPatch(r, k, s)
      PROVE  LocalsFit(r)'
  <2>1. pc'[r] = "write_manifest" /\ task'[r].kind = k
    BY <1>3 DEF StartPatch, Arrive, NoTask
  <2> QED
    BY <2>1 DEF LocalsFit
<1>4. CASE StartHardDelete(r)
  <2>1. pc'[r] = "rmtree" /\ task'[r].kind = "hard_delete"
    BY <1>4 DEF StartHardDelete, Arrive, NoTask
  <2> QED
    BY <2>1 DEF LocalsFit
<1>5. CASE StartReconcile(r)
  <2>1. pc'[r] = "repair" /\ task'[r].kind = "reconcile"
    BY <1>5 DEF StartReconcile, Arrive, NoTask
  <2> QED
    BY <2>1 DEF LocalsFit
<1> QED
  BY <1>1, <1>2, <1>3, <1>4, <1>5 DEF Start, Statuses

\* What a step leaves in the local variables fits to where it goes on.
LEMMA StepFits ==
    ASSUME IInv, NEW r \in Requests, Step(r)
    PROVE  LocalsFit(r)'
<1>0. /\ pc \in [Requests -> Labels] /\ task \in [Requests -> Tasks]
      /\ LocalsFit(r) /\ task[r] \in Tasks
      /\ source \in ContentOrNone /\ RebuildsSource
  BY DEF IInv, TypeOK
<1> USE <1>0 DEF At, Goto
<1>k. None \notin Kinds /\ NoTask.kind = None
  BY EntityAssumption DEF EntityAssumption, NoTask
<1>m. source # None => Decoded[source] \in Contents
  BY EntityAssumption DEF EntityAssumption, ContentOrNone
<1>r. ASSUME Return(r) PROVE LocalsFit(r)'
  <2>1. pc'[r] = "done" /\ task'[r].kind = None
    BY <1>r, <1>k DEF Return
  <2> QED
    BY <2>1, <1>k DEF LocalsFit, Kinds
\* The steps that keep kind, body, entity and round.
<1>s. ASSUME NEW v, task' = [task EXCEPT ![r].md = v] \/ task' = [task EXCEPT ![r].rows = v]
      PROVE  /\ task'[r].kind = task[r].kind /\ task'[r].body = task[r].body
             /\ task'[r].entity = task[r].entity /\ task'[r].round = task[r].round
             /\ task' = [task EXCEPT ![r].md = v] => task'[r].md = v
             /\ task' = [task EXCEPT ![r].rows = v] => task'[r].md = task[r].md
  BY <1>s DEF Tasks
<1>1. CASE SaveSource(r)
  <2>1. pc'[r] = "save_canonical" /\ pc[r] = "pipeline"
    BY <1>1 DEF SaveSource
  <2>2. PICK v : /\ task' = [task EXCEPT ![r].md = v]
                 /\ task[r].kind = "create" => v = task[r].body
                 /\ task[r].kind # "create" => v = task[r].md
    BY <1>1 DEF SaveSource
  <2>3. v \in Contents
    BY <2>1, <2>2, <1>m DEF LocalsFit, RebuildsSource
  <2> QED
    BY <2>1, <2>2, <2>3, <1>s DEF LocalsFit
<1>2. CASE SaveCanonical(r)
  <2>1. pc'[r] = "tag_canonical" /\ pc[r] = "save_canonical" /\ task' = task
    BY <1>2 DEF SaveCanonical
  <2> QED
    BY <2>1 DEF LocalsFit
<1>3. CASE TagCanonical(r) \/ EmbedFails(r) \/ PipelineReturns(r)
  <2>1. /\ pc[r] \in {"tag_canonical", "embedding", "synced"} /\ task' = task
        /\ \/ pc[r] = "tag_canonical" /\ pc'[r] = "embedding"
           \/ pc'[r] = AfterPipeline(r)
    BY <1>3 DEF TagCanonical, EmbedFails, PipelineReturns, history
  <2>2. /\ pc'[r] = "embedding" => pc[r] = "tag_canonical"
        /\ pc'[r] = "embedding" \/ /\ task[r].kind = "create" => pc'[r] = "tag_source"
                                   /\ task[r].kind = "update" => pc'[r] = "round_end"
                                   /\ task[r].kind = "reconcile" => pc'[r] = "repair_mark"
        /\ task[r].kind \in {"create", "update", "reconcile"}
    BY <2>1, AfterPipelineLabel DEF LocalsFit
  <2> QED
    BY <2>1, <2>2 DEF LocalsFit
<1>4. CASE Embedded(r)
  <2>1. pc[r] = "embedding" /\ pc'[r] = "syncing"
    BY <1>4 DEF Embedded
  <2>2. PICK v : task' = [task EXCEPT ![r].rows = v]
    BY <1>4 DEF Embedded
  <2> QED
    BY <2>1, <2>2, <1>s DEF LocalsFit
<1>5. CASE Sync(r)
  <2>1. /\ \/ pc[r] = "syncing" /\ pc'[r] = "synced"
           \/ pc[r] = "final_sync" /\ pc'[r] = "final_synced"
           \/ pc[r] = "index_sync" /\ pc'[r] = "index_synced"
        /\ task' = task
    BY <1>5 DEF Sync, AfterSync
  <2> QED
    BY <2>1 DEF LocalsFit
<1>6. CASE TagSource(r) \/ MarkTag(r) \/ MarkManifest(r)
  <2>1. /\ task' = task
        /\ \/ pc[r] = "tag_source" /\ task[r].kind = "create" /\ pc'[r] = "write_manifest"
           \/ pc[r] = "tag_source" /\ task[r].kind # "create" /\ pc'[r] = "mark_tag"
           \/ pc[r] = "mark_tag" /\ pc'[r] = "mark_manifest"
           \/ pc[r] = "mark_manifest" /\ pc'[r] = "round"
    BY <1>6 DEF TagSource, MarkTag, MarkManifest
  <2> QED
    BY <2>1 DEF LocalsFit
<1>7. CASE Round(r)
  <2>0. pc[r] = "round" /\ task[r].round <= Len(Cascade)
    BY <1>7 DEF Round
  <2>1. CASE source = None
    <3>1. pc'[r] = "round" /\ task' = [task EXCEPT ![r].round = @ + 1]
      BY <1>7, <2>1 DEF Round
    <3>2. /\ task'[r].kind = task[r].kind /\ task'[r].body = task[r].body
          /\ task'[r].entity = task[r].entity
      BY <3>1 DEF Tasks
    <3> QED
      BY <2>0, <3>1, <3>2 DEF LocalsFit
  <2>2. CASE source # None
    <3>1. pc'[r] = "pipeline" /\ task' = [task EXCEPT ![r].md = Decoded[source]]
      BY <1>7, <2>2 DEF Round, RebuildInput
    <3> QED
      BY <2>0, <3>1, <1>s DEF LocalsFit
  <2> QED
    BY <2>1, <2>2
<1>8. CASE RoundEnd(r)
  <2>1. /\ pc[r] = "round_end" /\ pc'[r] = "round"
        /\ task' = [task EXCEPT ![r].round = @ + 1]
    BY <1>8 DEF RoundEnd
  <2>2. /\ task'[r].kind = task[r].kind /\ task'[r].body = task[r].body
        /\ task'[r].entity = task[r].entity
    BY <2>1 DEF Tasks
  <2> QED
    BY <2>1, <2>2 DEF LocalsFit
<1>9. CASE Final(r)
  <2>1. pc[r] = "round" /\ pc'[r] \in {"final_sync", "write_manifest"}
    BY <1>9 DEF Final, CopyIndex
  <2>2. task' = task \/ task' = [task EXCEPT ![r].rows = parquet]
    BY <1>9 DEF Final, CopyIndex
  <2> QED
    BY <2>1, <2>2, <1>s DEF LocalsFit
<1>10. CASE FinalReturns(r)
  <2>1. /\ pc[r] = "final_synced" /\ task' = task
        /\ pc'[r] = IF task[r].kind = "update" THEN "write_manifest" ELSE "bump"
    BY <1>10 DEF FinalReturns
  <2> QED
    BY <2>1 DEF LocalsFit
<1>11. CASE WriteManifest(r) \/ SyncTags(r) \/ RemoveTree(r)
  <2>1. /\ task' = task
        /\ \/ pc[r] = "write_manifest" /\ pc'[r] = "sync_tags"
           \/ pc[r] = "sync_tags" /\ pc'[r] = "log_version"
           \/ pc[r] = "rmtree" /\ pc'[r] = "rm_index"
    BY <1>11 DEF WriteManifest, SyncTags, RemoveTree
  <2> QED
    BY <2>1 DEF LocalsFit
<1>12. CASE LogVersion(r) \/ RemoveIndex(r) \/ IndexSynced(r)
  BY <1>12, <1>r DEF LogVersion, RemoveIndex, IndexSynced
<1>13. CASE RepairRep(r)
  <2>1. /\ pc[r] = "repair" /\ pc'[r] \in {"repair", "pipeline"}
        /\ task'[r].kind = task[r].kind
    BY <1>13 DEF RepairRep, Tasks
  <2> QED
    BY <2>1 DEF LocalsFit
<1>14. CASE RepairIndex(r)
  <2>1. \/ Return(r)
        \/ /\ pc[r] = "repair" /\ pc'[r] = "index_sync"
           /\ task' = [task EXCEPT ![r].rows = parquet]
    BY <1>14 DEF RepairIndex, CopyIndex
  <2> QED
    BY <2>1, <1>r, <1>s DEF LocalsFit
<1>15. CASE RepairMark(r)
  <2>1. /\ pc[r] = "repair_mark" /\ pc'[r] \in {"final_sync", "bump"}
        /\ task' = task \/ task' = [task EXCEPT ![r].rows = parquet]
    BY <1>15 DEF RepairMark, CopyIndex
  <2> QED
    BY <2>1, <1>s DEF LocalsFit
<1>16. CASE Bump(r) \/ BumpTags(r)
  <2>1. /\ task' = task
        /\ \/ pc[r] = "bump" /\ pc'[r] = "bump_tags"
           \/ pc[r] = "bump_tags" /\ pc'[r] = "repair"
    BY <1>16 DEF Bump, BumpTags
  <2> QED
    BY <2>1 DEF LocalsFit
<1> QED
  BY <1>1, <1>2, <1>3, <1>4, <1>5, <1>6, <1>7, <1>8, <1>9, <1>10, <1>11, <1>12,
     <1>13, <1>14, <1>15, <1>16
     DEF Step, Pipeline, UpdateSteps, MetaSteps, DeleteSteps, ReconcileSteps

\* The local variables of every handler fit to where it is.
LEMMA NextFits ==
    ASSUME IInv, [Next]_vars
    PROVE  \A q \in Requests : LocalsFit(q)'
<1> SUFFICES ASSUME NEW q \in Requests PROVE LocalsFit(q)'
  OBVIOUS
<1>0. LocalsFit(q)
  BY DEF IInv
<1>k. None \notin Kinds /\ NoTask.kind = None
  BY EntityAssumption DEF EntityAssumption, NoTask
<1>1. pc'[q] = pc[q] /\ task'[q] = task[q] => LocalsFit(q)'
  BY <1>0 DEF LocalsFit
<1>2. ASSUME NEW r \in Requests, Start(r) PROVE LocalsFit(q)'
  BY <1>1, <1>2, StartFits, StartControl
<1>3. ASSUME NEW r \in Requests, Step(r) PROVE LocalsFit(q)'
  BY <1>1, <1>3, StepFits, StepControl
<1>4. CASE Crash
  <2>1. pc'[q] \in {"new", "done"} /\ task'[q] = NoTask
    BY <1>4 DEF Crash, InFlight
  <2> QED
    BY <2>1, <1>k DEF LocalsFit, Kinds
<1>5. CASE UNCHANGED vars
  BY <1>1, <1>5 DEF vars
<1> QED
  BY <1>2, <1>3, <1>4, <1>5 DEF Next, AllDone

-----------------------------------------------------------------------------
(* The source: the last writer wins.                                       *)

\* Only a handler that has the loop writes the source: an update when it
\* begins, the pipeline, and a hard delete.  Where the pipeline begins, what it
\* was given comes from the source.
LEMMA SourceWriters ==
    ASSUME IInv, NEW r \in Requests, Step(r)
    PROVE  \/ SaveSource(r) \/ RemoveTree(r)
           \/ /\ Round(r) \/ RepairRep(r)
              /\ UNCHANGED <<source, lastUpload>>
           \/ /\ UNCHANGED <<source, lastUpload>>
              /\ pc'[r] \notin {"pipeline", "save_canonical"}
<1>0. /\ pc \in [Requests -> Labels] /\ LocalsFit(r)
  BY DEF IInv, TypeOK
<1> USE <1>0 DEF Goto, disk, srcVars, history, Return
<1>1. CASE Pipeline(r)
  <2>1. pc[r] \in {"tag_canonical", "embedding", "synced"} =>
           AfterPipeline(r) \in {"tag_source", "round_end", "repair_mark"}
    BY AfterPipelineLabel DEF LocalsFit
  <2> QED
    BY <1>1, <2>1 DEF Pipeline, SaveCanonical, TagCanonical, Embedded,
       EmbedFails, Sync, AfterSync, PipelineReturns, At
<1>2. CASE UpdateSteps(r)
  BY <1>2 DEF UpdateSteps, TagSource, MarkTag, MarkManifest, Round, RoundEnd,
     Final, FinalReturns, CopyIndex
<1>3. CASE MetaSteps(r) \/ DeleteSteps(r)
  BY <1>3 DEF MetaSteps, DeleteSteps, WriteManifest, SyncTags, LogVersion, RemoveIndex
<1>4. CASE ReconcileSteps(r)
  BY <1>4 DEF ReconcileSteps, RepairRep, RepairIndex, RepairMark, Bump, BumpTags,
     IndexSynced, CopyIndex
<1> QED
  BY <1>1, <1>2, <1>3, <1>4 DEF Step

\* The source stays what was uploaded last, and what is rebuilt comes from it.
LEMMA NextSource ==
    ASSUME IInv, [Next]_vars
    PROVE  RebuildsSource' /\ SourceIsLastUpload'
<1>0. /\ pc \in [Requests -> Labels] /\ task \in [Requests -> Tasks]
      /\ source \in ContentOrNone /\ lastUpload \in ContentOrNone
      /\ LoopIsHeld /\ RebuildsSource /\ SourceIsLastUpload
      /\ \A q \in Requests : LocalsFit(q)
  BY DEF IInv, TypeOK
<1>a. /\ None \notin Contents /\ None \notin Requests
      /\ Decoded \in [Contents -> Contents]
      /\ \A c \in Contents : Decoded[Decoded[c]] = Decoded[c]
  BY EntityAssumption DEF EntityAssumption
\* A request that is about to save has the loop.
<1>b. \A q \in Requests :
         pc[q] \in {"pipeline", "save_canonical", "rmtree"} => running = q
  BY <1>0 DEF LoopIsHeld, Awaiting
<1>1. ASSUME NEW r \in Requests, Start(r) PROVE RebuildsSource' /\ SourceIsLastUpload'
  <2>1. \A q \in Requests : pc[q] \notin {"pipeline", "save_canonical"}
    BY <1>1, <1>a, <1>b, StartControl
  <2>2. \A q \in Requests \ {r} : pc'[q] \notin {"pipeline", "save_canonical"}
    BY <1>1, <2>1, StartControl
  <2>3. /\ pc'[r] = "pipeline" => task'[r].kind = "create"
        /\ pc'[r] # "save_canonical"
    <3>1. CASE StartCreate(r)
      BY <1>0, <3>1 DEF StartCreate, Arrive, Goto, NoTask
    <3>2. CASE ~StartCreate(r)
      BY <1>0, <1>1, <3>2 DEF Start, StartUpdate, StartPatch, StartHardDelete,
         StartReconcile, Arrive, Goto
    <3> QED
      BY <3>1, <3>2
  <2>4. \/ UNCHANGED <<source, lastUpload>>
        \/ \E c \in Contents : source' = c /\ lastUpload' = c
    BY <1>1 DEF Start, StartCreate, StartUpdate, StartPatch, StartHardDelete,
       StartReconcile, srcVars
  <2>5. RebuildsSource'
    BY <2>2, <2>3 DEF RebuildsSource
  <2>6. SourceIsLastUpload'
    BY <1>0, <1>a, <2>4 DEF SourceIsLastUpload
  <2> QED
    BY <2>5, <2>6
<1>2. ASSUME NEW r \in Requests, Step(r) PROVE RebuildsSource' /\ SourceIsLastUpload'
  <2>1. \A q \in Requests \ {r} : pc'[q] = pc[q] /\ task'[q] = task[q]
    BY <1>2, StepControl
  <2>2. CASE SaveSource(r)
    <3>1. running = r /\ pc[r] = "pipeline" /\ pc'[r] = "save_canonical"
      BY <1>0, <2>2 DEF SaveSource, At, Goto
    <3>2. \A q \in Requests \ {r} : pc'[q] \notin {"pipeline", "save_canonical"}
      BY <1>b, <2>1, <3>1
    <3>3. task'[r].md = source'
      BY <1>0, <2>2 DEF SaveSource, Tasks
    <3>4. RebuildsSource'
      BY <3>1, <3>2, <3>3 DEF RebuildsSource
    <3>5. CASE task[r].kind = "create"
      <4>1. source' = task[r].body /\ lastUpload' = task[r].body
        BY <2>2, <3>5 DEF SaveSource
      <4>2. task[r].body \in Contents
        BY <1>0, <3>5 DEF LocalsFit
      <4> QED
        BY <1>a, <3>4, <4>1, <4>2 DEF SourceIsLastUpload
    <3>6. CASE task[r].kind # "create"
      <4>1. source # None /\ source' = Decoded[source] /\ lastUpload' = lastUpload
        BY <1>0, <2>2, <3>1, <3>6 DEF SaveSource, RebuildsSource
      <4>2. lastUpload \in Contents /\ source \in {lastUpload, Decoded[lastUpload]}
        BY <1>0, <4>1 DEF SourceIsLastUpload, ContentOrNone
      <4>3. source' = Decoded[lastUpload]
        BY <1>a, <4>1, <4>2
      <4> QED
        BY <1>a, <3>4, <4>1, <4>2, <4>3 DEF SourceIsLastUpload
    <3> QED
      BY <3>5, <3>6
  <2>3. CASE RemoveTree(r)
    <3>1. running = r /\ pc[r] = "rmtree" /\ pc'[r] = "rm_index"
      BY <1>0, <2>3 DEF RemoveTree, At, Goto
    <3>2. \A q \in Requests : pc'[q] \notin {"pipeline", "save_canonical"}
      BY <1>b, <2>1, <3>1
    <3>3. source' = None /\ lastUpload' = None
      BY <2>3 DEF RemoveTree
    <3> QED
      BY <3>2, <3>3 DEF RebuildsSource, SourceIsLastUpload
  <2>4. CASE (Round(r) \/ RepairRep(r)) /\ UNCHANGED <<source, lastUpload>>
    <3>1. /\ pc'[r] # "save_canonical"
          /\ pc'[r] = "pipeline" => source # None /\ task'[r].md = Decoded[source]
      BY <1>0, <2>4 DEF Round, RepairRep, RebuildInput, At, Goto, Tasks
    <3> QED
      BY <1>0, <2>1, <2>4, <3>1 DEF RebuildsSource, SourceIsLastUpload
  <2>5. CASE /\ UNCHANGED <<source, lastUpload>>
             /\ pc'[r] \notin {"pipeline", "save_canonical"}
    BY <1>0, <2>1, <2>5 DEF RebuildsSource, SourceIsLastUpload
  <2> QED
    BY <1>2, <2>2, <2>3, <2>4, <2>5, SourceWriters
<1>3. CASE Crash
  <2>1. \A q \in Requests : pc'[q] \in {"new", "done"}
    BY <1>3 DEF Crash, InFlight
  <2>2. UNCHANGED <<source, lastUpload>> \/ (source' = None /\ lastUpload' = None)
    BY <1>3 DEF Crash, srcVars
  <2> QED
    BY <1>0, <2>1, <2>2 DEF RebuildsSource, SourceIsLastUpload
<1>4. CASE UNCHANGED vars
  BY <1>0, <1>4 DEF vars, disk, srcVars, history, RebuildsSource, SourceIsLastUpload
<1> QED
  BY <1>1, <1>2, <1>3, <1>4 DEF Next, AllDone

-----------------------------------------------------------------------------
(* Versions, and the version log.                                          *)

\* The Entity object of a handler stays what it was when the request began.
LEMMA StepEntity ==
    ASSUME IInv, NEW r \in Requests, Step(r)
    PROVE  task'[r].entity = task[r].entity \/ task'[r] = NoTask
<1>0. task \in [Requests -> Tasks]
  BY DEF IInv, TypeOK
<1>1. CASE Pipeline(r)
  BY <1>0, <1>1 DEF Pipeline, SaveSource, SaveCanonical, TagCanonical, Embedded,
     EmbedFails, Sync, PipelineReturns, history, Tasks
<1>2. CASE UpdateSteps(r)
  BY <1>0, <1>2 DEF UpdateSteps, TagSource, MarkTag, MarkManifest, Round, RoundEnd,
     Final, FinalReturns, CopyIndex, Tasks
<1>3. CASE MetaSteps(r) \/ DeleteSteps(r)
  BY <1>0, <1>3 DEF MetaSteps, DeleteSteps, WriteManifest, SyncTags, LogVersion,
     RemoveTree, RemoveIndex, Return
<1>4. CASE ReconcileSteps(r)
  BY <1>0, <1>4 DEF ReconcileSteps, RepairRep, RepairIndex, RepairMark, Bump,
     BumpTags, IndexSynced, CopyIndex, Return, Tasks
<1> QED
  BY <1>1, <1>2, <1>3, <1>4 DEF Step

\* A handler begins with a version from 1 on.
LEMMA StartVersion ==
    ASSUME IInv, NEW r \in Requests, Start(r)
    PROVE  task'[r].entity.version # 0
<1>0. /\ task \in [Requests -> Tasks] /\ VersionsFromOne
      /\ manifest \in Manifests \cup {None} /\ srcTag \in Entities \cup {None}
  BY DEF IInv, TypeOK
<1>1. Assembled \in Entities /\ Assembled.version # 0
  <2>1. Assembled \in Entities
    BY AssembledType DEF IInv
  <2>2. Assembled.version # 0
    BY <1>0 DEF Assembled, VersionsFromOne, NoEntity
  <2> QED
    BY <2>1, <2>2
<1>2. CASE StartCreate(r)
  BY <1>0, <1>2 DEF StartCreate, Arrive, NoTask, NoEntity
<1>3. ASSUME NEW c \in Contents, StartUpdate(r, c) PROVE task'[r].entity.version # 0
  <2>1. task'[r].entity = [Assembled EXCEPT !.hash = c, !.version = @ + 1]
    BY <1>0, <1>3 DEF StartUpdate, Arrive, NoTask
  <2>2. task'[r].entity.version = Assembled.version + 1 /\ Assembled.version \in Nat
    BY <1>1, <2>1 DEF Entities
  <2> QED
    BY <2>2
<1>4. ASSUME NEW k \in Kinds, NEW s \in Statuses, StartPatch(r, k, s)
      PROVE  task'[r].entity.version # 0
  <2>1. task'[r].entity = [Assembled EXCEPT !.status = s]
    BY <1>0, <1>4 DEF StartPatch, Arrive, NoTask
  <2> QED
    BY <1>1, <2>1 DEF Entities
<1>5. CASE StartHardDelete(r)
  BY <1>0, <1>5 DEF StartHardDelete, Arrive, NoTask, NoEntity
<1>6. CASE StartReconcile(r)
  <2>1. task'[r].entity = NoEntity
    BY <1>0, <1>6 DEF StartReconcile, Arrive, NoTask
  <2> QED
    BY <2>1 DEF NoEntity
<1> QED
  BY <1>2, <1>3, <1>4, <1>5, <1>6 DEF Start, Statuses, Kinds

\* What _write_entity_meta writes to the manifest.
LEMMA WrittenManifest ==
    ASSUME IInv, NEW r \in Requests, WriteManifest(r)
    PROVE  /\ manifest' \in Manifests /\ manifest' # None
           /\ manifest'.version = task[r].entity.version
           /\ manifest'.hash = task[r].entity.hash
           /\ manifest'.canon = IF canonical # None /\ canonTag = None
                                THEN "active" ELSE canonTag
<1>1. task[r].entity \in Entities /\ canonTag \in {"active", "stale", None}
  BY DEF IInv, TypeOK, Tasks
<1>2. manifest' \in Manifests
  BY <1>1 DEF WriteManifest, Entities, Manifests
<1>3. None \notin Manifests
  BY EntityAssumption DEF EntityAssumption
<1> QED
  BY <1>2, <1>3 DEF WriteManifest

\* What a step does to the versions of the manifest and of the log.
LEMMA StepManifest ==
    ASSUME IInv, NEW r \in Requests, Step(r)
    PROVE  \/ /\ WriteManifest(r) /\ logged' = logged
              /\ manifest' # None
              /\ manifest'.version = task[r].entity.version
           \/ LogVersion(r) /\ logged' = task[r].entity.version /\ manifest' = manifest
           \/ RemoveTree(r) /\ logged' = 0 /\ manifest' = None
           \/ /\ Bump(r) /\ logged' = logged
              /\ IF manifest = None THEN manifest' = None
                 ELSE manifest' # None /\ manifest'.version = manifest.version + 1
           \/ /\ logged' = logged
              /\ IF manifest = None THEN manifest' = None
                 ELSE manifest' # None /\ manifest'.version = manifest.version
<1>0. manifest \in Manifests \cup {None} /\ manifest' \in Manifests \cup {None}
  BY NextTypes DEF IInv, TypeOK, Next
<1> USE <1>0 DEF disk, metaVars, history
<1>n. None \notin Manifests
  BY EntityAssumption DEF EntityAssumption
<1>1. CASE Pipeline(r)
  BY <1>1 DEF Pipeline, SaveSource, SaveCanonical, TagCanonical, Embedded,
     EmbedFails, Sync, PipelineReturns
<1>2. CASE UpdateSteps(r)
  <2>1. \A c \in {"active", "stale"} :
           manifest # None => [manifest EXCEPT !.canon = c] # None
              /\ [manifest EXCEPT !.canon = c].version = manifest.version
    BY <1>n DEF Manifests
  <2> QED
    BY <1>2, <2>1 DEF UpdateSteps, TagSource, MarkTag, MarkManifest, Round, RoundEnd,
       Final, FinalReturns
<1>3. CASE WriteManifest(r)
  BY <1>3, WrittenManifest DEF WriteManifest
<1>4. CASE Bump(r)
  <2>1. manifest # None => [manifest EXCEPT !.version = @ + 1] # None
              /\ [manifest EXCEPT !.version = @ + 1].version = manifest.version + 1
    BY <1>n DEF Manifests
  <2> QED
    BY <1>4, <2>1 DEF Bump
<1>5. CASE SyncTags(r) \/ LogVersion(r) \/ RemoveTree(r) \/ RemoveIndex(r)
  BY <1>5 DEF SyncTags, LogVersion, RemoveTree, RemoveIndex
<1>6. CASE RepairRep(r) \/ RepairIndex(r) \/ RepairMark(r) \/ BumpTags(r) \/ IndexSynced(r)
  <2>1. manifest # None => [manifest EXCEPT !.canon = "active"] # None
              /\ [manifest EXCEPT !.canon = "active"].version = manifest.version
    BY <1>n DEF Manifests
  <2> QED
    BY <1>6, <2>1 DEF RepairRep, RepairIndex, RepairMark, BumpTags, IndexSynced
<1> QED
  BY <1>1, <1>2, <1>3, <1>4, <1>5, <1>6
     DEF Step, MetaSteps, DeleteSteps, ReconcileSteps

\* Versions count from 1.
LEMMA NextVersions ==
    ASSUME IInv, [Next]_vars
    PROVE  VersionsFromOne'
<1>0. /\ VersionsFromOne /\ TypeOK
      /\ task \in [Requests -> Tasks]
      /\ manifest \in Manifests \cup {None} /\ srcTag \in Entities \cup {None}
  BY DEF IInv, TypeOK
<1>t. NoTask.entity.version # 0 /\ NoEntity.version # 0
  BY DEF NoTask, NoEntity
<1>m. manifest # None => manifest.version \in Nat
  BY <1>0 DEF Manifests
<1>1. ASSUME NEW r \in Requests, Start(r) PROVE VersionsFromOne'
  <2>1. manifest' = manifest /\ (srcTag' = srcTag \/ srcTag' = None)
    BY <1>1 DEF Start, StartCreate, StartUpdate, StartPatch, StartHardDelete,
       StartReconcile, Arrive, srcVars, metaVars
  <2>2. \A q \in Requests : task'[q].entity.version # 0
    BY <1>0, <1>1, StartControl, StartVersion DEF VersionsFromOne
  <2> QED
    BY <1>0, <2>1, <2>2 DEF VersionsFromOne
<1>2. ASSUME NEW r \in Requests, Step(r) PROVE VersionsFromOne'
  <2>1. \A q \in Requests : task'[q].entity.version # 0
    BY <1>0, <1>2, <1>t, StepControl, StepEntity DEF VersionsFromOne
  <2>2. manifest' # None => manifest'.version # 0
    BY <1>0, <1>2, <1>m, StepManifest DEF VersionsFromOne
  <2>3. srcTag' # None => srcTag'.version # 0
    <3>1. CASE TagSource(r)
      <4>1. \A e \in Entities : [e EXCEPT !.hash = task[r].body].version = e.version
        BY DEF Entities
      <4>2. NoEntity \in Entities
        BY DEF NoEntity, Entities, Statuses, ContentOrNone
      <4> QED
        BY <1>0, <1>t, <3>1, <4>1, <4>2 DEF TagSource, VersionsFromOne
    <3>2. CASE SyncTags(r) \/ BumpTags(r)
      BY <1>0, <3>2 DEF SyncTags, BumpTags, TagsOf, VersionsFromOne
    <3>3. CASE SaveSource(r) \/ RemoveTree(r)
      BY <3>3 DEF SaveSource, RemoveTree
    <3>4. CASE \/ TagSource(r) \/ SyncTags(r) \/ BumpTags(r) \/ SaveSource(r)
               \/ RemoveTree(r) \/ srcTag' = srcTag
      BY <1>0, <3>1, <3>2, <3>3, <3>4 DEF VersionsFromOne
    <3>5. CASE Pipeline(r) \/ UpdateSteps(r)
      BY <3>4, <3>5 DEF Pipeline, SaveCanonical, TagCanonical, Embedded, EmbedFails,
         Sync, PipelineReturns, UpdateSteps, MarkTag, MarkManifest, Round, RoundEnd,
         Final, FinalReturns, disk, srcVars
    <3>6. CASE MetaSteps(r) \/ DeleteSteps(r) \/ ReconcileSteps(r)
      BY <3>4, <3>6 DEF MetaSteps, WriteManifest, LogVersion, DeleteSteps, RemoveIndex,
         ReconcileSteps, RepairRep, RepairIndex, RepairMark, Bump, IndexSynced,
         disk, srcVars
    <3> QED
      BY <1>2, <3>5, <3>6 DEF Step
  <2> QED
    BY <2>1, <2>2, <2>3 DEF VersionsFromOne
<1>3. CASE Crash
  <2>1. /\ manifest' \in {manifest, None} /\ srcTag' \in {srcTag, None}
        /\ \A q \in Requests : task'[q] = NoTask
    BY <1>3 DEF Crash, srcVars, metaVars
  <2> QED
    BY <1>0, <1>t, <2>1 DEF VersionsFromOne
<1>4. CASE UNCHANGED vars
  BY <1>0, <1>4 DEF vars, disk, srcVars, metaVars, VersionsFromOne
<1> QED
  BY <1>1, <1>2, <1>3, <1>4 DEF Next, AllDone

\* Only _write_entity_meta gets to the version log.
LEMMA LogWriters ==
    ASSUME IInv, NEW r \in Requests, Step(r)
    PROVE  \/ WriteManifest(r) \/ SyncTags(r) \/ LogVersion(r)
           \/ /\ pc[r] \notin {"sync_tags", "log_version"}
              /\ pc'[r] \notin {"sync_tags", "log_version"}
<1>0. /\ pc \in [Requests -> Labels] /\ LocalsFit(r)
  BY DEF IInv, TypeOK
<1> USE <1>0 DEF Goto, At, Return
<1>1. CASE Pipeline(r)
  <2>1. pc[r] \in {"tag_canonical", "embedding", "synced"} =>
           AfterPipeline(r) \in {"tag_source", "round_end", "repair_mark"}
    BY AfterPipelineLabel DEF LocalsFit
  <2> QED
    BY <1>1, <2>1 DEF Pipeline, SaveSource, SaveCanonical, TagCanonical, Embedded,
       EmbedFails, Sync, AfterSync, PipelineReturns
<1>2. CASE UpdateSteps(r)
  BY <1>2 DEF UpdateSteps, TagSource, MarkTag, MarkManifest, Round, RoundEnd,
     Final, FinalReturns, CopyIndex
<1>3. CASE DeleteSteps(r)
  BY <1>3 DEF DeleteSteps, RemoveTree, RemoveIndex
<1>4. CASE ReconcileSteps(r)
  BY <1>4 DEF ReconcileSteps, RepairRep, RepairIndex, RepairMark, Bump, BumpTags,
     IndexSynced, CopyIndex
<1> QED
  BY <1>1, <1>2, <1>3, <1>4 DEF Step, MetaSteps

\* Only a crash counts as one.
LEMMA StepCrashes ==
    ASSUME NEW r \in Requests, Step(r) \/ Start(r)
    PROVE  crashes' = crashes
BY DEF Step, Pipeline, SaveSource, SaveCanonical, TagCanonical,
   Embedded, EmbedFails, Sync, PipelineReturns, UpdateSteps, TagSource, MarkTag,
   MarkManifest, Round, RoundEnd, Final, FinalReturns, MetaSteps, WriteManifest,
   SyncTags, LogVersion, DeleteSteps, RemoveTree, RemoveIndex, ReconcileSteps,
   RepairRep, RepairIndex, RepairMark, Bump, BumpTags, IndexSynced, history,
   Start, StartCreate, StartUpdate, StartPatch, StartHardDelete, StartReconcile, Arrive

\* Log and manifest agree whenever the loop is free.
LEMMA NextLog ==
    ASSUME IInv, [Next]_vars
    PROVE  LogUnlessWriting'
<1>0. /\ LogUnlessWriting /\ VersionsFromOne /\ LoopIsHeld
      /\ task \in [Requests -> Tasks] /\ crashes \in 0..MaxCrashes
      /\ manifest \in Manifests \cup {None} /\ pc \in [Requests -> Labels]
      /\ logged \in Nat
  BY DEF IInv, TypeOK
<1>v. (manifest # None => manifest.version \in Nat \ {0})
         /\ \A q \in Requests : task[q].entity.version \in Nat \ {0}
  BY <1>0 DEF Manifests, Tasks, Entities, VersionsFromOne
<1>a. None \notin Requests
  BY EntityAssumption DEF EntityAssumption
\* A handler that writes the log has the loop.
<1>b. \A q \in Requests : pc[q] \in {"sync_tags", "log_version"} => running = q
  BY <1>0 DEF LoopIsHeld, Awaiting
<1>1. ASSUME NEW r \in Requests, Start(r) PROVE LogUnlessWriting'
  <2>1. manifest' = manifest /\ logged' = logged /\ crashes' = crashes
    BY <1>1 DEF Start, StartCreate, StartUpdate, StartPatch, StartHardDelete,
       StartReconcile, Arrive, metaVars
  <2>2. \A q \in Requests : pc[q] \notin {"sync_tags", "log_version"}
    BY <1>1, <1>a, <1>b, StartControl
  <2>3. pc'[r] \notin {"sync_tags", "log_version"}
    BY <1>0, <1>1 DEF Start, StartCreate, StartUpdate, StartPatch, StartHardDelete,
       StartReconcile, Arrive, Goto
  <2> QED
    BY <1>0, <1>1, <2>1, <2>2, <2>3, StartControl DEF LogUnlessWriting
<1>2. ASSUME NEW r \in Requests, Step(r) PROVE LogUnlessWriting'
  <2> DEFINE Writing(q) == pc[q] \in {"sync_tags", "log_version"}
             Agree == IF manifest = None THEN logged = 0
                      ELSE logged \in 1..manifest.version
  <2>0. /\ \A q \in Requests \ {r} : pc'[q] = pc[q] /\ task'[q] = task[q]
        /\ crashes' = crashes
    BY <1>2, StepControl, StepCrashes
  <2>1. CASE WriteManifest(r)
    <3>1. /\ running = r /\ pc'[r] = "sync_tags" /\ running' = r /\ task' = task
          /\ manifest' # None /\ manifest'.version = task[r].entity.version
      BY <1>0, <2>1, WrittenManifest DEF WriteManifest, At, Goto, Keep
    <3>2. \A q \in Requests \ {r} : ~Writing(q)'
      BY <1>b, <2>0, <3>1
    <3> QED
      BY <3>1, <3>2 DEF LogUnlessWriting
  <2>2. CASE SyncTags(r)
    <3>1. /\ pc[r] = "sync_tags" /\ pc'[r] = "log_version" /\ task' = task
          /\ running' = running /\ manifest' = manifest /\ logged' = logged
      BY <1>0, <2>2 DEF SyncTags, At, Goto, metaVars
    <3> QED
      BY <1>0, <2>0, <3>1 DEF LogUnlessWriting
  <2>3. CASE LogVersion(r)
    <3>1. /\ running = r /\ pc[r] = "log_version" /\ pc'[r] = "done"
          /\ manifest' = manifest /\ logged' = task[r].entity.version
      BY <1>0, <2>3 DEF LogVersion, At, Goto, Return
    <3>2. \A q \in Requests : ~Writing(q)'
      BY <1>b, <2>0, <3>1
    <3>3. manifest # None /\ manifest.version = task[r].entity.version
      BY <1>0, <3>1 DEF LogUnlessWriting
    <3>4. logged' \in 1..manifest.version
      BY <1>v, <3>1, <3>3
    <3>5. Agree'
      BY <3>1, <3>3, <3>4
    <3> QED
      BY <3>2, <3>5 DEF LogUnlessWriting
  <2>4. CASE ~Writing(r) /\ ~Writing(r)'
    <3>1. /\ \A q \in Requests : Writing(q)' => Writing(q) /\ task'[q] = task[q]
                                                 /\ running' = running
      BY <1>2, <1>a, <1>b, <2>0, <2>4, StepControl
    <3>2. \A q \in Requests : Writing(q) => Writing(q)' /\ running' = running
      BY <1>2, <1>a, <1>b, <2>0, <2>4, StepControl
    <3>3. CASE RemoveTree(r)
      <4>1. Agree' /\ running = r
        BY <3>3 DEF RemoveTree, At
      <4>2. \A q \in Requests : ~Writing(q)'
        BY <1>b, <2>4, <3>1, <4>1
      <4> QED
        BY <4>1, <4>2 DEF LogUnlessWriting
    <3>4. CASE /\ Bump(r) /\ logged' = logged
               /\ IF manifest = None THEN manifest' = None
                  ELSE manifest' # None /\ manifest'.version = manifest.version + 1
      <4>1. running = r
        BY <3>4 DEF Bump, At
      <4>2. \A q \in Requests : ~Writing(q) /\ ~Writing(q)'
        BY <1>b, <2>4, <3>1, <4>1
      <4>3. crashes = 0 => Agree
        BY <1>0, <4>2 DEF LogUnlessWriting
      <4>4. crashes = 0 => Agree'
        BY <1>0, <1>v, <3>4, <4>3
      <4> QED
        BY <2>0, <4>2, <4>4 DEF LogUnlessWriting
    <3>5. CASE /\ logged' = logged
               /\ IF manifest = None THEN manifest' = None
                  ELSE manifest' # None /\ manifest'.version = manifest.version
      <4>1. Agree <=> Agree'
        BY <3>5
      <4>2. \A q \in Requests : Writing(q)' =>
               manifest' # None /\ manifest'.version = task'[q].entity.version
        BY <1>0, <3>1, <3>5 DEF LogUnlessWriting
      <4>3. crashes = 0 => Agree \/ \E q \in Requests : running = q /\ Writing(q)
        BY <1>0 DEF LogUnlessWriting
      <4>4. crashes' = 0 => Agree' \/ \E q \in Requests : running' = q /\ Writing(q)'
        BY <2>0, <3>2, <4>1, <4>3
      <4> QED
        BY <4>2, <4>4 DEF LogUnlessWriting
    <3>6. ~WriteManifest(r) /\ ~LogVersion(r)
      BY <1>0, <2>4 DEF WriteManifest, LogVersion, At, Goto
    <3> QED
      BY <1>2, <3>3, <3>4, <3>5, <3>6, StepManifest
  <2> QED
    BY <1>2, <2>1, <2>2, <2>3, <2>4, LogWriters
<1>3. CASE Crash
  <2>1. \A q \in Requests : pc'[q] \in {"new", "done"}
    BY <1>3 DEF Crash, InFlight
  <2>2. crashes' # 0
    BY <1>0, <1>3 DEF Crash
  <2> QED
    BY <2>1, <2>2 DEF LogUnlessWriting
<1>4. CASE UNCHANGED vars
  BY <1>0, <1>4 DEF vars, disk, metaVars, history, LogUnlessWriting
<1> QED
  BY <1>1, <1>2, <1>3, <1>4 DEF Next, AllDone

-----------------------------------------------------------------------------
(* canonical.md and the source.                                            *)

\* The steps that have to do with the rebuild of canonical.md.
LEMMA RebuildSteps ==
    ASSUME IInv, NEW r \in Requests, Step(r)
    PROVE  \/ SaveSource(r) \/ SaveCanonical(r)
           \/ TagSource(r) \/ MarkTag(r) \/ MarkManifest(r)
           \/ Round(r) \/ RoundEnd(r) \/ Final(r)
           \/ RemoveTree(r) \/ RepairRep(r)
           \/ /\ UNCHANGED <<source, canonical>>
              /\ ~Behind(r) /\ ~Behind(r)'
<1>0. /\ pc \in [Requests -> Labels] /\ LocalsFit(r)
  BY DEF IInv, TypeOK
<1> USE <1>0 DEF Goto, At, Return, disk, srcVars, canonVars
<1>1. CASE TagCanonical(r) \/ EmbedFails(r) \/ PipelineReturns(r)
  <2>1. /\ pc[r] \in {"tag_canonical", "embedding", "synced"}
        /\ UNCHANGED <<source, canonical, task>>
        /\ pc'[r] = "embedding" \/ pc'[r] = AfterPipeline(r)
    BY <1>1 DEF TagCanonical, EmbedFails, PipelineReturns, history
  <2>2. \/ pc'[r] = "tag_source" /\ task[r].kind = "create"
        \/ pc'[r] \in {"embedding", "round_end", "repair_mark"}
    BY <2>1, AfterPipelineLabel DEF LocalsFit
  <2> QED
    BY <2>1, <2>2 DEF Behind, FirstRound
<1>2. CASE Embedded(r) \/ Sync(r)
  <2>1. /\ pc[r] \in {"embedding", "syncing", "final_sync", "index_sync"}
        /\ pc'[r] \in {"syncing", "synced", "final_synced", "index_synced"}
        /\ UNCHANGED <<source, canonical>>
    BY <1>2 DEF Embedded, Sync, AfterSync
  <2> QED
    BY <2>1 DEF Behind, FirstRound
<1>3. CASE FinalReturns(r) \/ MetaSteps(r) \/ RemoveIndex(r)
  <2>1. /\ pc[r] \in {"final_synced", "write_manifest", "sync_tags", "log_version",
                      "rm_index"}
        /\ pc'[r] \in {"write_manifest", "bump", "sync_tags", "log_version", "done"}
        /\ UNCHANGED <<source, canonical>>
    BY <1>3 DEF FinalReturns, MetaSteps, WriteManifest, SyncTags, LogVersion, RemoveIndex
  <2> QED
    BY <2>1 DEF Behind, FirstRound
<1>4. CASE RepairIndex(r) \/ RepairMark(r) \/ Bump(r) \/ BumpTags(r) \/ IndexSynced(r)
  <2>1. /\ pc[r] \in {"repair", "repair_mark", "bump", "bump_tags", "index_synced"}
        /\ pc'[r] \in {"index_sync", "done", "final_sync", "bump", "bump_tags", "repair"}
        /\ UNCHANGED <<source, canonical>>
    BY <1>4 DEF RepairIndex, RepairMark, Bump, BumpTags, IndexSynced, CopyIndex
  <2> QED
    BY <2>1 DEF Behind, FirstRound
<1> QED
  BY <1>1, <1>2, <1>3, <1>4
     DEF Step, Pipeline, UpdateSteps, DeleteSteps, ReconcileSteps

\* canonical.md is the source wherever the loop is free.
LEMMA NextTracks ==
    ASSUME IInv, [Next]_vars
    PROVE  TracksUnlessBehind'
<1>0. /\ TracksUnlessBehind /\ LoopIsHeld /\ RebuildsSource
      /\ task \in [Requests -> Tasks] /\ crashes \in 0..MaxCrashes
      /\ pc \in [Requests -> Labels]
      /\ \A q \in Requests : LocalsFit(q)
  BY DEF IInv, TypeOK
<1>a. None \notin Requests /\ None \notin Contents
  BY EntityAssumption DEF EntityAssumption
\* Who is behind has the loop.
<1>b. \A q \in Requests : Behind(q) => running = q
  BY <1>0 DEF LoopIsHeld, Awaiting, Behind, FirstRound
<1>f. \A q \in Requests : /\ FirstRound(q) => Behind(q)
                          /\ FirstRound(q)' => Behind(q)'
  BY DEF Behind
<1>1. ASSUME NEW r \in Requests, Start(r) PROVE TracksUnlessBehind'
  <2>0. /\ \A q \in Requests : ~Behind(q)
        /\ \A q \in Requests \ {r} : ~Behind(q)'
    <3>1. \A q \in Requests : ~Behind(q)
      BY <1>1, <1>a, <1>b, StartControl
    <3>2. \A q \in Requests \ {r} : pc'[q] = pc[q] /\ task'[q] = task[q]
      BY <1>1, StartControl
    <3> QED
      BY <3>1, <3>2 DEF Behind, FirstRound
  <2>1. crashes = 0 => canonical = source
    BY <1>0, <2>0 DEF TracksUnlessBehind
  <2>2. crashes' = crashes /\ canonical' = canonical /\ running' = r
    BY <1>1, StepCrashes DEF Start, StartCreate, StartUpdate, StartPatch,
       StartHardDelete, StartReconcile, Arrive, canonVars
  <2>3. \/ Behind(r)' /\ ~FirstRound(r)'
        \/ Behind(r)' /\ source' # None
        \/ source' = source /\ ~FirstRound(r)'
    <3>1. CASE StartCreate(r)
      <4>1. pc'[r] = "pipeline"
        BY <1>0, <3>1 DEF StartCreate, Arrive, Goto
      <4> QED
        BY <4>1 DEF Behind, FirstRound
    <3>2. ASSUME NEW c \in Contents, StartUpdate(r, c)
          PROVE  Behind(r)' /\ source' # None
      <4>1. pc'[r] = "tag_source" /\ task'[r].kind = "update" /\ source' = c
        BY <1>0, <3>2 DEF StartUpdate, Arrive, Goto, NoTask
      <4> QED
        BY <4>1, <1>a DEF Behind, FirstRound
    <3>3. CASE source' = source /\ pc'[r] \in {"write_manifest", "rmtree", "repair"}
      BY <3>3 DEF FirstRound
    <3> QED
      BY <1>0, <1>1, <3>1, <3>2, <3>3 DEF Start, StartPatch, StartHardDelete,
         StartReconcile, Arrive, Goto, srcVars
  <2> QED
    BY <1>f, <2>0, <2>1, <2>2, <2>3 DEF TracksUnlessBehind
<1>2. ASSUME NEW r \in Requests, Step(r) PROVE TracksUnlessBehind'
  <2>0. /\ \A q \in Requests \ {r} : pc'[q] = pc[q] /\ task'[q] = task[q]
        /\ crashes' = crashes
    BY <1>2, StepControl, StepCrashes
  <2>a. \A q \in Requests \ {r} : /\ Behind(q)' <=> Behind(q)
                                  /\ FirstRound(q)' <=> FirstRound(q)
    BY <2>0 DEF Behind, FirstRound
  <2>b. running = r /\ ~Behind(r) => (crashes = 0 => canonical = source)
    BY <1>0, <1>b DEF TracksUnlessBehind
  <2>c. ASSUME running = r,
               \/ ~FirstRound(r)' /\ (crashes = 0 => canonical' = source')
               \/ Behind(r)' /\ running' = r /\ (FirstRound(r)' => source' # None)
        PROVE  TracksUnlessBehind'
    <3>1. \A q \in Requests \ {r} : ~Behind(q)' /\ ~FirstRound(q)'
      BY <1>b, <1>f, <2>a, <2>c
    <3> QED
      BY <2>0, <2>c, <3>1 DEF TracksUnlessBehind
  <2>1. CASE SaveSource(r)
    <3>1. running = r /\ running' = r /\ pc'[r] = "save_canonical"
      BY <1>0, <2>1 DEF SaveSource, At, Goto
    <3> QED
      BY <2>c, <3>1 DEF Behind, FirstRound
  <2>2. CASE SaveCanonical(r)
    <3>1. /\ running = r /\ pc[r] = "save_canonical" /\ pc'[r] = "tag_canonical"
          /\ canonical' = task[r].md /\ source' = source
      BY <1>0, <2>2 DEF SaveCanonical, At, Goto, srcVars
    <3>2. canonical' = source'
      BY <1>0, <3>1 DEF RebuildsSource
    <3> QED
      BY <2>c, <3>1, <3>2 DEF FirstRound
  <2>3. CASE TagSource(r)
    <3>1. /\ running = r /\ running' = r /\ pc[r] = "tag_source"
          /\ UNCHANGED <<source, canonical, task>>
          /\ pc'[r] = IF task[r].kind = "create" THEN "write_manifest" ELSE "mark_tag"
      BY <1>0, <2>3 DEF TagSource, At, Goto, canonVars
    <3>2. task[r].kind \in {"create", "update"}
      BY <1>0, <3>1 DEF LocalsFit
    <3>3. CASE task[r].kind = "create"
      BY <2>b, <2>c, <3>1, <3>3 DEF Behind, FirstRound
    <3>4. CASE task[r].kind = "update"
      <4>1. source # None
        BY <1>0, <3>1, <3>4 DEF FirstRound, TracksUnlessBehind
      <4> QED
        BY <2>c, <3>1, <3>4, <4>1 DEF Behind, FirstRound
    <3> QED
      BY <3>2, <3>3, <3>4
  <2>4. CASE MarkTag(r) \/ MarkManifest(r)
    <3>1. /\ running = r /\ running' = r /\ source' = source /\ task' = task
          /\ \/ pc[r] = "mark_tag" /\ pc'[r] = "mark_manifest"
             \/ pc[r] = "mark_manifest" /\ pc'[r] = "round"
      BY <1>0, <2>4 DEF MarkTag, MarkManifest, At, Goto, srcVars
    <3>2. source # None
      BY <1>0, <3>1 DEF FirstRound, TracksUnlessBehind
    <3>3. pc'[r] = "round" => task'[r].round = 1
      BY <1>0, <3>1 DEF LocalsFit
    <3> QED
      BY <2>c, <3>1, <3>2, <3>3 DEF Behind, FirstRound
  <2>5. CASE Round(r)
    <3>1. running = r /\ running' = r /\ pc[r] = "round" /\ UNCHANGED <<source, canonical>>
      BY <2>5 DEF Round, At, disk, srcVars, canonVars
    <3>2. CASE source = None
      <4>1. ~FirstRound(r)
        BY <1>0, <3>2 DEF TracksUnlessBehind
      <4>2. pc'[r] = "round" /\ task'[r].round = task[r].round + 1 /\ task[r].round \in 1..(Len(Cascade) + 1)
        BY <1>0, <2>5, <3>1, <3>2 DEF Round, Tasks
      <4>3. task'[r].round # 1
        BY <4>2, CascadeLength
      <4> QED
        BY <2>b, <2>c, <3>1, <4>1, <4>2, <4>3 DEF Behind, FirstRound
    <3>3. CASE source # None
      <4>1. pc'[r] = "pipeline"
        BY <1>0, <2>5, <3>3 DEF Round, Goto
      <4> QED
        BY <2>c, <3>1, <4>1 DEF Behind, FirstRound
    <3> QED
      BY <3>2, <3>3
  <2>6. CASE RoundEnd(r)
    <3>1. /\ running = r /\ pc[r] = "round_end" /\ pc'[r] = "round"
          /\ UNCHANGED <<source, canonical>>
          /\ task'[r].round = task[r].round + 1 /\ task[r].round \in 1..(Len(Cascade) + 1)
      BY <1>0, <2>6 DEF RoundEnd, At, Goto, srcVars, canonVars, Tasks
    <3>2. task'[r].round # 1
      BY <3>1, CascadeLength
    <3> QED
      BY <2>b, <2>c, <3>1, <3>2 DEF Behind, FirstRound
  <2>7. CASE Final(r)
    <3>1. /\ running = r /\ pc[r] = "round" /\ task[r].round # 1
          /\ UNCHANGED <<source, canonical>>
      BY <2>7, CascadeLength DEF Final, At, disk, srcVars, canonVars
    <3>2. pc'[r] \in {"final_sync", "write_manifest"}
      BY <1>0, <2>7 DEF Final, CopyIndex, Goto
    <3> QED
      BY <2>b, <2>c, <3>1, <3>2 DEF Behind, FirstRound
  <2>8. CASE RemoveTree(r)
    <3>1. running = r /\ pc'[r] = "rm_index" /\ canonical' = source'
      BY <1>0, <2>8 DEF RemoveTree, At, Goto
    <3> QED
      BY <2>c, <3>1 DEF FirstRound
  <2>9. CASE RepairRep(r)
    <3>1. /\ running = r /\ running' = r /\ pc[r] = "repair"
          /\ pc'[r] \in {"pipeline", "repair"} /\ UNCHANGED <<source, canonical>>
      BY <1>0, <2>9 DEF RepairRep, At, Goto, disk, srcVars, canonVars
    <3> QED
      BY <2>b, <2>c, <3>1 DEF Behind, FirstRound
  <2>10. CASE UNCHANGED <<source, canonical>> /\ ~Behind(r) /\ ~Behind(r)'
    <3>1. \A q \in Requests : /\ Behind(q)' => Behind(q)
                              /\ FirstRound(q)' => FirstRound(q)
      BY <1>f, <2>a, <2>10
    <3>2. \A q \in Requests : Behind(q) => running' = running /\ Behind(q)'
      BY <1>2, <1>a, <1>b, <2>a, <2>10, StepControl
    <3> QED
      BY <1>0, <2>0, <2>10, <3>1, <3>2 DEF TracksUnlessBehind
  <2> QED
    BY <1>2, <2>1, <2>2, <2>3, <2>4, <2>5, <2>6, <2>7, <2>8, <2>9, <2>10, RebuildSteps
<1>3. CASE Crash
  <2>1. \A q \in Requests : pc'[q] \in {"new", "done"}
    BY <1>3 DEF Crash, InFlight
  <2>2. crashes' # 0
    BY <1>0, <1>3 DEF Crash
  <2> QED
    BY <2>1, <2>2 DEF TracksUnlessBehind, FirstRound
<1>4. CASE UNCHANGED vars
  BY <1>0, <1>4 DEF vars, disk, srcVars, canonVars, history, TracksUnlessBehind,
     FirstRound, Behind
<1> QED
  BY <1>1, <1>2, <1>3, <1>4 DEF Next, AllDone

-----------------------------------------------------------------------------
(* What a lone request leaves.                                             *)

\* The story of a request that begins when everything agrees.
LEMMA StartTells ==
    ASSUME IInv, NEW r \in Requests, Start(r), Quiescent,
           source' # None, task'[r].kind \in {"create", "update"} \/ (source # None => Agreed)
    PROVE  Telling(r)'
<1>0. /\ pc \in [Requests -> Labels] /\ task \in [Requests -> Tasks]
      /\ manifest \in Manifests \cup {None} /\ Assembled \in Entities
  BY AssembledType DEF IInv, TypeOK
<1>1. CASE StartCreate(r)
  <2>1. pc'[r] = "pipeline" /\ task'[r].kind = "create"
    BY <1>0, <1>1 DEF StartCreate, Arrive, Goto, NoTask
  <2> QED
    BY <2>1 DEF Telling, Behind
<1>2. ASSUME NEW c \in Contents, StartUpdate(r, c) PROVE Telling(r)'
  <2>1. /\ pc'[r] = "tag_source" /\ task'[r].kind = "update"
        /\ task'[r].entity.hash = c /\ source' = c
    BY <1>0, <1>2 DEF StartUpdate, Arrive, Goto, NoTask, Entities
  <2> QED
    BY <2>1 DEF Telling, Behind, FirstRound
<1>3. CASE ~StartCreate(r) /\ \A c \in Contents : ~StartUpdate(r, c)
  <2>1. UNCHANGED <<source, srcTag, canonical, canonTag, manifest, parquet, lance>>
    BY <1>3 DEF Start, StartPatch, StartHardDelete, StartReconcile, Arrive, srcVars,
       canonVars, metaVars, index
  <2>2. task'[r].kind \notin {"create", "update"}
    BY <1>0, <1>3 DEF Start, StartPatch, StartHardDelete, StartReconcile, Arrive, NoTask
  <2>3. /\ source # None /\ canonical = source /\ canonTag = "active"
        /\ Described /\ Indexed /\ srcTag = TagsOf(manifest)
    BY <2>1, <2>2 DEF Agreed
  <2>4. Described' /\ Indexed' /\ (srcTag = TagsOf(manifest))'
    BY <2>1, <2>3 DEF Described, Indexed, TagsOf
  <2>5. ASSUME NEW k \in {"patch", "soft_delete"}, NEW s \in Statuses, StartPatch(r, k, s)
        PROVE  Telling(r)'
    <3>1. /\ pc'[r] = "write_manifest" /\ task'[r].kind = k
          /\ task'[r].entity.hash = manifest.hash
      BY <1>0, <2>3, <2>5 DEF StartPatch, Arrive, Goto, NoTask, Entities, Assembled,
         Described
    <3> QED
      BY <2>1, <2>3, <2>4, <3>1 DEF Telling, Behind, FirstRound, Described
  <2>6. CASE StartHardDelete(r)
    <3>1. pc'[r] = "rmtree" /\ task'[r].kind = "hard_delete"
      BY <1>0, <2>6 DEF StartHardDelete, Arrive, Goto, NoTask
    <3> QED
      BY <2>1, <2>3, <2>4, <3>1 DEF Telling, Behind, FirstRound
  <2>7. CASE StartReconcile(r)
    <3>1. pc'[r] = "repair" /\ task'[r].kind = "reconcile"
      BY <1>0, <2>7 DEF StartReconcile, Arrive, Goto, NoTask
    <3> QED
      BY <2>1, <2>3, <2>4, <3>1 DEF Telling, Behind, FirstRound
  <2> QED
    BY <1>3, <2>5, <2>6, <2>7 DEF Start, Statuses
<1> QED
  BY <1>1, <1>2, <1>3

\* The pipeline goes on with the story.
LEMMA PipelineTells ==
    ASSUME IInv, NEW r \in Requests, Pipeline(r), clean',
           source # None => Telling(r), source' # None
    PROVE  Telling(r)'
<1>0. /\ pc \in [Requests -> Labels] /\ task \in [Requests -> Tasks]
      /\ LocalsFit(r) /\ RebuildsSource /\ source \in ContentOrNone
  BY DEF IInv, TypeOK
<1>a. /\ None \notin Contents /\ Decoded \in [Contents -> Contents]
      /\ \A c \in Contents : Decoded[Decoded[c]] = Decoded[c]
      /\ \A c \in Contents : Decoded[c] \in Blank <=> c \in Blank
  BY EntityAssumption DEF EntityAssumption
<1>1. CASE SaveSource(r)
  <2>1. /\ pc[r] = "pipeline" /\ pc'[r] = "save_canonical"
        /\ task'[r].md = source' /\ task'[r].kind = task[r].kind
        /\ task'[r].entity = task[r].entity /\ manifest' = manifest
        /\ source' = IF task[r].kind = "create" THEN task[r].body ELSE task[r].md
    BY <1>0, <1>1 DEF SaveSource, At, Goto, Tasks, metaVars
  <2>2. CASE task[r].kind = "create"
    <3>1. task[r].entity.hash = source'
      BY <1>0, <2>1, <2>2 DEF LocalsFit
    <3> QED
      BY <2>1, <2>2, <3>1 DEF Telling, Behind, FirstRound
  <2>3. CASE task[r].kind # "create"
    <3>1. source # None /\ source' = Decoded[source] /\ Telling(r)
      BY <1>0, <2>1, <2>3 DEF RebuildsSource
    <3>2. Decoded[source'] = Decoded[source]
      BY <1>0, <1>a, <3>1 DEF ContentOrNone
    <3> QED
      BY <2>1, <2>3, <3>1, <3>2 DEF Telling, Behind, FirstRound, Described
  <2> QED
    BY <2>2, <2>3
<1>2. CASE SaveCanonical(r)
  <2>1. /\ pc[r] = "save_canonical" /\ pc'[r] = "tag_canonical"
        /\ UNCHANGED <<task, source, manifest>> /\ canonical' = task[r].md
    BY <1>0, <1>2 DEF SaveCanonical, At, Goto, srcVars, metaVars
  <2> QED
    BY <2>1 DEF Telling, Behind, FirstRound, Described
<1>3. CASE TagCanonical(r) \/ PipelineReturns(r)
  <2>1. /\ UNCHANGED <<task, source, canonical, manifest, parquet, lance>>
        /\ pc[r] \in {"tag_canonical", "synced"}
        /\ pc[r] = "tag_canonical" => canonTag' = "active"
        /\ pc[r] = "synced" => canonTag' = canonTag /\ pc'[r] = AfterPipeline(r)
        /\ pc[r] = "tag_canonical" =>
              \/ pc'[r] = AfterPipeline(r) /\ task[r].md \in Blank
              \/ pc'[r] = "embedding"
    BY <1>0, <1>3 DEF TagCanonical, PipelineReturns, At, Goto, disk, srcVars, canonVars,
       metaVars, index, history
  <2>2. \/ pc'[r] = "tag_source" /\ task[r].kind = "create"
        \/ pc'[r] = "round_end" /\ task[r].kind = "update"
        \/ pc'[r] = "repair_mark" /\ task[r].kind = "reconcile"
        \/ pc'[r] = "embedding"
    BY <1>0, <2>1, AfterPipelineLabel DEF LocalsFit
  <2>3. canonTag' = "active" /\ canonical = source /\ source = task[r].md
    BY <2>1 DEF Telling, Behind, FirstRound
  <2>4. pc'[r] # "embedding" => Indexed'
    BY <2>1, <2>3 DEF Telling, Indexed, LocalsFit
  <2> QED
    BY <2>1, <2>2, <2>3, <2>4 DEF Telling, Behind, FirstRound, Described
<1>4. CASE Embedded(r)
  <2>1. /\ pc[r] = "embedding" /\ pc'[r] = "syncing"
        /\ UNCHANGED <<source, canonical, canonTag, manifest, lance>>
        /\ parquet' = Decoded[task[r].md] /\ task'[r].rows = parquet'
        /\ task'[r].md = task[r].md /\ task'[r].kind = task[r].kind
        /\ task'[r].entity = task[r].entity
    BY <1>0, <1>4 DEF Embedded, At, Goto, srcVars, canonVars, metaVars, Tasks
  <2> QED
    BY <2>1 DEF Telling, Behind, FirstRound, Described
<1>5. CASE EmbedFails(r)
  BY <1>5 DEF EmbedFails, Disturbed
<1>6. CASE Sync(r)
  <2>1. lance' = task[r].rows
    BY <1>6 DEF Sync, Disturbed
  <2>2. /\ UNCHANGED <<task, source, srcTag, canonical, canonTag, manifest, parquet>>
        /\ \/ pc[r] = "syncing" /\ pc'[r] = "synced"
           \/ pc[r] = "final_sync" /\ pc'[r] = "final_synced"
           \/ pc[r] = "index_sync" /\ pc'[r] = "index_synced"
    BY <1>0, <1>6 DEF Sync, AfterSync, Goto, srcVars, canonVars, metaVars
  <2>3. /\ canonical = source /\ canonTag = "active" /\ task[r].rows = parquet
    BY <2>2 DEF Telling, Behind, FirstRound
  <2> QED
    BY <2>1, <2>2, <2>3 DEF Telling, Behind, FirstRound, Described, Indexed, TagsOf
<1> QED
  BY <1>1, <1>2, <1>3, <1>4, <1>5, <1>6 DEF Pipeline

\* An update goes on with the story.
LEMMA UpdateTells ==
    ASSUME IInv, NEW r \in Requests, UpdateSteps(r),
           source # None => Telling(r), source' # None
    PROVE  Telling(r)'
<1>0. /\ pc \in [Requests -> Labels] /\ task \in [Requests -> Tasks]
      /\ LocalsFit(r) /\ source' = source /\ Telling(r)
  BY DEF IInv, TypeOK, UpdateSteps, TagSource, MarkTag, MarkManifest, Round, RoundEnd,
     Final, FinalReturns, disk, srcVars
<1>1. CASE TagSource(r)
  <2>1. /\ pc[r] = "tag_source"
        /\ pc'[r] = IF task[r].kind = "create" THEN "write_manifest" ELSE "mark_tag"
        /\ UNCHANGED <<task, canonical, canonTag, manifest, parquet, lance>>
    BY <1>0, <1>1 DEF TagSource, At, Goto, canonVars, metaVars, index
  <2>2. task[r].kind = "create" \/ task[r].kind = "update"
    BY <1>0, <2>1 DEF LocalsFit
  <2> QED
    BY <1>0, <2>1, <2>2 DEF Telling, Behind, FirstRound, Indexed
<1>2. CASE MarkTag(r) \/ MarkManifest(r)
  <2>1. /\ task' = task /\ task[r].kind = "update"
        /\ \/ pc'[r] = "mark_manifest"
           \/ pc'[r] = "round" /\ task[r].round = 1
    BY <1>0, <1>2 DEF MarkTag, MarkManifest, At, Goto, LocalsFit
  <2> QED
    BY <1>0, <2>1 DEF Telling, Behind, FirstRound
<1>3. CASE Round(r)
  <2>1. /\ pc'[r] = "pipeline" /\ task'[r].kind = "update"
        /\ task[r].kind = "update" /\ task'[r].entity = task[r].entity
    BY <1>0, <1>3 DEF Round, At, Goto, LocalsFit, Tasks
  <2> QED
    BY <1>0, <2>1 DEF Telling, Behind
<1>4. CASE RoundEnd(r)
  <2>1. /\ pc[r] = "round_end" /\ pc'[r] = "round"
        /\ task[r].kind = "update" /\ task'[r].kind = "update"
        /\ task'[r].entity = task[r].entity
        /\ UNCHANGED <<canonical, canonTag, parquet, lance>>
    BY <1>0, <1>4 DEF RoundEnd, At, Goto, LocalsFit, Tasks, canonVars, index
  <2> QED
    BY <1>0, <2>1 DEF Telling, Behind, FirstRound, Indexed
<1>5. CASE Final(r)
  <2>1. /\ pc[r] = "round" /\ task[r].round # 1 /\ task[r].kind = "update"
        /\ \/ pc'[r] = "write_manifest" /\ task' = task
           \/ pc'[r] = "final_sync" /\ task' = [task EXCEPT ![r].rows = parquet]
        /\ UNCHANGED <<canonical, canonTag, parquet, lance>>
    BY <1>0, <1>5, CascadeLength DEF Final, CopyIndex, At, Goto, LocalsFit, disk,
       canonVars, index
  <2>2. /\ task'[r].kind = task[r].kind /\ task'[r].entity = task[r].entity
        /\ pc'[r] = "final_sync" => task'[r].rows = parquet
    BY <1>0, <2>1 DEF Tasks
  <2> QED
    BY <1>0, <2>1, <2>2 DEF Telling, Behind, FirstRound, Indexed
<1>6. CASE FinalReturns(r)
  <2>1. /\ pc[r] = "final_synced"
        /\ pc'[r] = IF task[r].kind = "update" THEN "write_manifest" ELSE "bump"
        /\ UNCHANGED <<task, canonical, canonTag, manifest, parquet, lance>>
    BY <1>0, <1>6 DEF FinalReturns, At, Goto, disk, canonVars, metaVars, index
  <2> QED
    BY <1>0, <2>1 DEF Telling, Behind, FirstRound, Indexed, Described
<1> QED
  BY <1>1, <1>2, <1>3, <1>4, <1>5, <1>6 DEF UpdateSteps

\* The metadata come last, and then everything agrees.
LEMMA MetaTells ==
    ASSUME IInv, NEW r \in Requests, MetaSteps(r) \/ DeleteSteps(r),
           source # None => Telling(r), source' # None
    PROVE  IF pc'[r] = "done" THEN Agreed' ELSE Telling(r)'
<1>0. /\ pc \in [Requests -> Labels] /\ task \in [Requests -> Tasks]
      /\ LocalsFit(r) /\ ~RemoveTree(r) /\ source' = source /\ Telling(r)
      /\ UNCHANGED <<canonical, canonTag, parquet>>
  BY DEF IInv, TypeOK, MetaSteps, DeleteSteps, WriteManifest, SyncTags, LogVersion,
     RemoveTree, RemoveIndex, srcVars, canonVars, index
<1>1. CASE WriteManifest(r)
  <2>1. /\ pc[r] = "write_manifest" /\ pc'[r] = "sync_tags" /\ task' = task
        /\ lance' = lance
    BY <1>0, <1>1 DEF WriteManifest, At, Goto, index
  <2>2. /\ manifest' # None /\ manifest'.hash = task[r].entity.hash
        /\ manifest'.canon = IF canonical # None /\ canonTag = None
                             THEN "active" ELSE canonTag
    BY <1>1, WrittenManifest
  <2>3. /\ task[r].kind \in {"create", "update", "patch", "soft_delete"}
        /\ canonTag = "active" /\ canonical = source /\ Indexed
    BY <1>0, <2>1 DEF Telling, Behind, FirstRound, LocalsFit
  <2>4. manifest'.canon = "active"
    <3>1. "active" # None
      BY EntityAssumption DEF EntityAssumption
    <3> QED
      BY <2>2, <2>3, <3>1
  <2> QED
    BY <1>0, <2>1, <2>2, <2>3, <2>4 DEF Telling, Behind, FirstRound, Indexed
<1>2. CASE SyncTags(r)
  <2>1. /\ pc[r] = "sync_tags" /\ pc'[r] = "log_version"
        /\ UNCHANGED <<task, manifest, lance>> /\ srcTag' = TagsOf(manifest)
    BY <1>0, <1>2 DEF SyncTags, At, Goto, metaVars, index
  <2>2. /\ task[r].kind \in {"create", "update", "patch", "soft_delete"}
        /\ canonTag = "active" /\ canonical = source /\ Indexed
        /\ manifest # None
    BY <1>0, <2>1 DEF Telling, Behind, FirstRound, LocalsFit
  <2>3. (srcTag = TagsOf(manifest))'
    BY <1>0, <2>1, <2>2 DEF TagsOf
  <2> QED
    BY <1>0, <2>1, <2>2, <2>3 DEF Telling, Behind, FirstRound, Indexed
<1>3. CASE LogVersion(r)
  <2>1. /\ pc[r] = "log_version" /\ pc'[r] = "done"
        /\ UNCHANGED <<manifest, lance, srcTag>>
    BY <1>0, <1>3 DEF LogVersion, Return, At, Goto, index, srcVars
  <2>2. task[r].kind \in {"create", "update", "patch", "soft_delete"}
    BY <1>0, <2>1 DEF LocalsFit
  <2>3. /\ canonTag = "active" /\ canonical = source /\ Indexed
        /\ Described /\ srcTag = TagsOf(manifest)
    BY <1>0, <2>1, <2>2 DEF Telling, Behind, FirstRound, Described
  <2> QED
    BY <1>0, <2>1, <2>3 DEF Agreed, Described, Indexed, TagsOf
<1>4. CASE RemoveIndex(r)
  BY <1>0, <1>4 DEF RemoveIndex, At, Telling
<1> QED
  BY <1>0, <1>1, <1>2, <1>3, <1>4 DEF MetaSteps, DeleteSteps

\* A reconcile run goes on with the story, and leaves it.
LEMMA ReconcileTells ==
    ASSUME IInv, NEW r \in Requests, ReconcileSteps(r),
           source # None => Telling(r), source' # None
    PROVE  IF pc'[r] = "done" THEN Agreed' ELSE Telling(r)'
<1>0. /\ pc \in [Requests -> Labels] /\ task \in [Requests -> Tasks]
      /\ LocalsFit(r) /\ source' = source /\ Telling(r)
      /\ manifest \in Manifests \cup {None}
      /\ UNCHANGED <<canonical, canonTag, parquet, lance>>
  BY DEF IInv, TypeOK, ReconcileSteps, RepairRep, RepairIndex, RepairMark, Bump,
     BumpTags, IndexSynced, disk, srcVars, canonVars, index
<1>1. CASE RepairRep(r)
  <2>1. /\ pc[r] = "repair" /\ pc'[r] = "pipeline" /\ manifest' = manifest
        /\ task'[r].kind = "reconcile" /\ task[r].kind = "reconcile"
    BY <1>0, <1>1 DEF RepairRep, At, Goto, LocalsFit, Tasks, disk, metaVars
  <2> QED
    BY <1>0, <2>1 DEF Telling, Behind, Described
<1>2. CASE RepairIndex(r)
  <2>1. /\ pc[r] = "repair" /\ UNCHANGED <<manifest, srcTag>>
        /\ task[r].kind = "reconcile"
        /\ \/ pc'[r] = "done"
           \/ pc'[r] = "index_sync" /\ task' = [task EXCEPT ![r].rows = parquet]
    BY <1>0, <1>2 DEF RepairIndex, CopyIndex, Return, At, Goto, LocalsFit, disk, metaVars,
       srcVars
  <2>2. /\ canonTag = "active" /\ canonical = source /\ Indexed
        /\ Described /\ srcTag = TagsOf(manifest)
    BY <1>0, <2>1 DEF Telling, Behind, FirstRound
  <2>3. Indexed' /\ Described' /\ (srcTag = TagsOf(manifest))'
    BY <1>0, <2>1, <2>2 DEF Described, Indexed, TagsOf
  <2>4. CASE pc'[r] = "done"
    BY <1>0, <2>2, <2>3, <2>4 DEF Agreed
  <2>5. CASE pc'[r] = "index_sync" /\ task' = [task EXCEPT ![r].rows = parquet]
    <3>1. task'[r].kind = "reconcile" /\ task'[r].rows = parquet
      BY <1>0, <2>1, <2>5 DEF Tasks
    <3> QED
      BY <1>0, <2>2, <2>3, <2>5, <3>1 DEF Telling, Behind, FirstRound
  <2> QED
    BY <2>1, <2>4, <2>5
<1>3. CASE RepairMark(r)
  <2>1. /\ pc[r] = "repair_mark" /\ task[r].kind = "reconcile"
        /\ \/ pc'[r] = "bump" /\ task' = task
           \/ pc'[r] = "final_sync" /\ task' = [task EXCEPT ![r].rows = parquet]
    BY <1>0, <1>3 DEF RepairMark, CopyIndex, At, Goto, LocalsFit
  <2>2. /\ canonTag = "active" /\ canonical = source /\ Indexed /\ Described
    BY <1>0, <2>1 DEF Telling, Behind, FirstRound
  <2>3. manifest' = manifest
    BY <1>3, <2>2 DEF RepairMark, Described
  <2>4. /\ task'[r].kind = "reconcile"
        /\ pc'[r] = "final_sync" => task'[r].rows = parquet
    BY <1>0, <2>1 DEF Tasks
  <2>5. Indexed' /\ Described'
    BY <1>0, <2>2, <2>3 DEF Described, Indexed
  <2> QED
    BY <1>0, <2>1, <2>2, <2>4, <2>5 DEF Telling, Behind, FirstRound
<1>4. CASE Bump(r)
  <2>1. /\ pc[r] = "bump" /\ pc'[r] = "bump_tags" /\ task' = task
        /\ task[r].kind = "reconcile"
    BY <1>0, <1>4 DEF Bump, At, Goto, LocalsFit
  <2>2. /\ canonTag = "active" /\ canonical = source /\ Indexed /\ Described
    BY <1>0, <2>1 DEF Telling, Behind, FirstRound
  <2>3. Described'
    <3>1. /\ manifest \in Manifests
          /\ manifest' = [manifest EXCEPT !.version = @ + 1]
      BY <1>0, <1>4, <2>2 DEF Bump, Described
    <3>2. manifest' \in Manifests /\ manifest'.hash = manifest.hash
             /\ manifest'.canon = manifest.canon
      BY <3>1 DEF Manifests
    <3>3. None \notin Manifests
      BY EntityAssumption DEF EntityAssumption
    <3> QED
      BY <1>0, <2>2, <3>2, <3>3 DEF Described
  <2>4. Indexed'
    BY <1>0, <2>2 DEF Indexed
  <2> QED
    BY <1>0, <2>1, <2>2, <2>3, <2>4 DEF Telling, Behind, FirstRound
<1>5. CASE BumpTags(r)
  <2>1. /\ pc[r] = "bump_tags" /\ pc'[r] = "repair" /\ UNCHANGED <<task, manifest>>
        /\ task[r].kind = "reconcile" /\ srcTag' = TagsOf(manifest)
    BY <1>0, <1>5 DEF BumpTags, At, Goto, LocalsFit, metaVars
  <2>2. /\ canonTag = "active" /\ canonical = source /\ Indexed /\ Described
    BY <1>0, <2>1 DEF Telling, Behind, FirstRound
  <2>3. Indexed' /\ Described' /\ (srcTag = TagsOf(manifest))'
    BY <1>0, <2>1, <2>2 DEF Described, Indexed, TagsOf
  <2> QED
    BY <1>0, <2>1, <2>2, <2>3 DEF Telling, Behind, FirstRound
<1>6. CASE IndexSynced(r)
  <2>1. /\ pc[r] = "index_synced" /\ pc'[r] = "done" /\ UNCHANGED <<manifest, srcTag>>
        /\ task[r].kind = "reconcile"
    BY <1>0, <1>6 DEF IndexSynced, Return, Goto, LocalsFit, disk, metaVars, srcVars
  <2>2. /\ canonTag = "active" /\ canonical = source /\ Indexed
        /\ Described /\ srcTag = TagsOf(manifest)
    BY <1>0, <2>1 DEF Telling, Behind, FirstRound
  <2> QED
    BY <1>0, <2>1, <2>2 DEF Agreed, Described, Indexed, TagsOf
<1> QED
  BY <1>1, <1>2, <1>3, <1>4, <1>5, <1>6 DEF ReconcileSteps

\* Only requests in flight step, and only the last step of a handler ends it.
LEMMA StepInFlight ==
    ASSUME IInv, NEW r \in Requests, Step(r)
    PROVE  /\ pc[r] \notin {"new", "done"} /\ pc'[r] # "new"
           /\ Pipeline(r) \/ UpdateSteps(r) => pc'[r] # "done"
<1>0. /\ pc \in [Requests -> Labels] /\ LocalsFit(r)
  BY DEF IInv, TypeOK
<1> USE <1>0 DEF Goto, At, Return
<1>1. CASE Pipeline(r)
  <2>1. pc[r] \in {"tag_canonical", "embedding", "synced"} =>
           AfterPipeline(r) \in {"tag_source", "round_end", "repair_mark"}
    BY AfterPipelineLabel DEF LocalsFit
  <2> QED
    BY <1>1, <2>1 DEF Pipeline, SaveSource, SaveCanonical, TagCanonical, Embedded,
       EmbedFails, Sync, AfterSync, PipelineReturns
<1>2. CASE UpdateSteps(r)
  BY <1>2 DEF UpdateSteps, TagSource, MarkTag, MarkManifest, Round, RoundEnd,
     Final, FinalReturns, CopyIndex
<1>3. CASE MetaSteps(r) \/ DeleteSteps(r)
  <2>1. pc[r] \notin {"new", "done"} /\ pc'[r] # "new"
    BY <1>3 DEF MetaSteps, DeleteSteps, WriteManifest, SyncTags, LogVersion,
       RemoveTree, RemoveIndex
  <2> QED
    BY <1>1, <1>2, <2>1
<1>4. CASE ReconcileSteps(r)
  <2>1. pc[r] \notin {"new", "done"} /\ pc'[r] # "new"
    BY <1>4 DEF ReconcileSteps, RepairRep, RepairIndex, RepairMark, Bump, BumpTags,
       IndexSynced, CopyIndex
  <2> QED
    BY <1>1, <1>2, <2>1
<1> QED
  BY <1>1, <1>2, <1>3, <1>4 DEF Step

\* A step never makes the story clean again.
LEMMA StepClean ==
    ASSUME NEW r \in Requests, Step(r), clean'
    PROVE  clean
<1> USE DEF Disturbed, Quiet, history
<1>1. CASE Pipeline(r)
  BY <1>1, Zenon DEF Pipeline, SaveSource, SaveCanonical, TagCanonical,
     Embedded, EmbedFails, Sync, PipelineReturns
<1>2. CASE UpdateSteps(r)
  BY <1>2, Zenon DEF UpdateSteps, TagSource, MarkTag, MarkManifest, Round, RoundEnd,
     Final, FinalReturns
<1>3. CASE MetaSteps(r) \/ DeleteSteps(r)
  BY <1>3, Zenon DEF MetaSteps, WriteManifest, SyncTags, LogVersion, DeleteSteps,
     RemoveTree, RemoveIndex
<1>4. CASE ReconcileSteps(r)
  BY <1>4, Zenon DEF ReconcileSteps, RepairRep, RepairIndex, RepairMark, Bump,
     BumpTags, IndexSynced
<1> QED
  BY <1>1, <1>2, <1>3, <1>4 DEF Step

\* While nothing disturbs it, the story of a request is told to its end.
LEMMA NextStory ==
    ASSUME IInv, [Next]_vars
    PROVE  OneStory'
<1>0. pc \in [Requests -> Labels] /\ OneStory
  BY DEF IInv, TypeOK
<1>1. ASSUME NEW r \in Requests, Start(r) PROVE OneStory'
  <2> SUFFICES ASSUME clean' PROVE OneStory'
    BY DEF OneStory
  <2>1. PICK t : Arrive(r, pc'[r], t) /\ task'[r] = t
    BY <1>1, StartControl
  <2>2. Quiescent /\ (task'[r].kind \in {"create", "update"} \/ clean)
    BY <2>1, Zenon DEF Arrive
  <2>3. InFlight' = {r}
    BY <1>1, <2>2, StartControl DEF Quiescent, InFlight, Awaiting
  <2>4. source' # None => Telling(r)'
    <3>1. clean => (source # None => Agreed)
      BY <1>0, <2>2 DEF OneStory
    <3> QED
      BY <1>1, <2>2, <3>1, StartTells
  <2> QED
    BY <2>3, <2>4 DEF OneStory, Quiescent
<1>2. ASSUME NEW r \in Requests, Step(r) PROVE OneStory'
  <2> SUFFICES ASSUME clean' PROVE OneStory'
    BY DEF OneStory
  <2>1. clean
    BY <1>2, StepClean
  <2>2. r \in InFlight /\ \A q \in InFlight : q = r
    BY <1>0, <1>2, <2>1, StepInFlight DEF OneStory, InFlight
  <2>3. source # None => Telling(r)
    BY <1>0, <2>1, <2>2 DEF OneStory
  <2>4. InFlight' = IF pc'[r] = "done" THEN {} ELSE {r}
    BY <1>0, <1>2, <2>2, StepControl, StepInFlight DEF InFlight
  <2>5. source' # None => IF pc'[r] = "done" THEN Agreed' ELSE Telling(r)'
    BY <1>2, <2>3, PipelineTells, UpdateTells, MetaTells, ReconcileTells,
       StepInFlight DEF Step
  <2> QED
    BY <2>4, <2>5 DEF OneStory, Quiescent
<1>3. CASE Crash
  BY <1>3 DEF Crash, Disturbed, OneStory
<1>4. CASE UNCHANGED vars
  BY <1>0, <1>4 DEF vars, disk, srcVars, canonVars, metaVars, index, history, OneStory,
     InFlight, Quiescent, Telling, Agreed, Described, Indexed, TagsOf, Behind, FirstRound
<1> QED
  BY <1>1, <1>2, <1>3, <1>4 DEF Next, AllDone

-----------------------------------------------------------------------------
(* The theorems.                                                           *)

\* The invariant holds in every state of every behaviour.
LEMMA Invariant == Spec => []IInv
<1>1. Init => IInv
  BY InitIInv
<1>2. IInv /\ [Next]_vars => IInv'
  BY NextTypes, NextLoop, NextFits, NextVersions, NextSource, NextTracks, NextLog,
     NextStory DEF IInv
<1> QED
  BY <1>1, <1>2, PTL DEF Spec

\* Every variable keeps its type (the files of local.py, the Entity model, the
\* locals of the handlers).
THEOREM EntityTypes == Spec => []TypeOK
<1>1. IInv => TypeOK
  BY DEF IInv
<1> QED
  BY <1>1, Invariant, PTL

\* However many requests overlap or die, the stored source is what the last
\* create or update uploaded, at most decoded and encoded again.
THEOREM EntitySourceIsLastUpload == Spec => []SourceIsLastUpload
<1>1. IInv => SourceIsLastUpload
  BY DEF IInv
<1> QED
  BY <1>1, Invariant, PTL

\* Whenever the event loop is free, canonical.md is that of the stored source,
\* until a crash separates the two writes.
THEOREM EntityCanonicalTracksSource == Spec => []CanonicalTracksSource
<1>1. IInv => CanonicalTracksSource
  <2>1. None \notin Requests
    BY EntityAssumption DEF EntityAssumption
  <2> QED
    BY <2>1 DEF IInv, TracksUnlessBehind, CanonicalTracksSource
<1> QED
  BY <1>1, Invariant, PTL

\* Whenever the event loop is free, there is a version log exactly if there is
\* a manifest, and it is not ahead of it.
THEOREM EntityLogFollowsManifest == Spec => []LogFollowsManifest
<1>1. IInv => LogFollowsManifest
  <2>1. None \notin Requests
    BY EntityAssumption DEF EntityAssumption
  <2> QED
    BY <2>1 DEF IInv, LogUnlessWriting, LogFollowsManifest
<1> QED
  BY <1>1, Invariant, PTL

\* A request that nothing overlaps, disturbs or kills leaves files, tags,
\* manifest and index that agree.
THEOREM EntityConverged == Spec => []Converged
<1>1. IInv => Converged
  BY DEF IInv, OneStory, Agreed, Described, Indexed, Converged
<1> QED
  BY <1>1, Invariant, PTL

=============================================================================
