# Verification of vector_lake

`src/vector_lake/app` is a data lake for retrieval: entities (uploaded files)
are stored as directories, a pipeline derives representations and embeddings
from them, and a LanceDB table serves the search. The source of truth is the
file tree; everything else is derived, asynchronously and with failures that
are mostly logged and swallowed. The questions worth asking are therefore about
agreement: between a file and what was derived from it, between a queue and the
sidecar that is to survive it, between two requests that hold the same entity
across an `await`, between a hash cache and the events it stands for.

The project holds TLA+ models of the parts where these questions are hard, TLC
configurations that check them on small instances, and proofs for every value
of the parameters.

## 1. Inventory

Paths are relative to `src/vector_lake/app`.

### Components

| component | state | operations | modelled in |
|---|---|---|---|
| sync queue and worker (`services/sync_queue.py`) | `asyncio.Queue`, dedup dictionary `_pending`, backoff timers, JSONL sidecar | `enqueue`, `get`, `mark_done`, `mark_failed`, `_reenqueue`, `recover_pending`, `_compact_sidecar`, `_worker_loop` | `SyncQueue`, `SyncContract` |
| index (`services/index.py`) | staging parquet files, one LanceDB table | `upsert_chunks`, `sync_to_lance`, `delete_entity_chunks`, `rebuild_lance_table`, `drop_table`, `search_hybrid` | `IndexView`, `Fusion`; in part `SyncQueue`, `EntityService` |
| entity service (`services/entity_service.py`) | none of its own but a list cache; works on the entity directory | create, update, patch, soft delete, hard delete | `EntityService` |
| pipeline (`services/pipeline.py`, `VectorIndexTemplate` of `services/templates.py`) | none | `process_entity`, `run_rep_pipeline`, `_execute_step_pipeline`, `_index_step_output`, `build`, `_enqueue_sync` | `Pipeline`; the `.md` path against all requests in `EntityService` |
| template registry (`services/registry.py`) | steps by input format, in order of registration | `register_step`, `unregister_step`, `resolve_pipeline` | `Registry` |
| lineage (`services/lineage.py`) | none | `cascade_stale`, `cascade_rebuild` | `EntityService` |
| reconciler (`services/reconciler.py`) | lock file | lock, scan, repair, release | `EntityService` (scan, repair), `ReconcileLock` |
| local storage (`storage/local.py`) | entity directories, xattrs, manifest, version log | `save_file`, `set_rep_tags`, `write_entity_manifest`, `sync_tags_from_manifest`, `append_version_log`, `assemble_entity` | `EntityService`, `Pipeline` |
| watch service (`services/watch.py`, `routers/reconcile.py`) | watches, hash cache, tasks, dead letters; a `threading.Lock` | create, start, pause, stop, shutdown, polling loop, inotify loop, replay, cleanup | `Watch` |
| event bus (`services/event_bus.py`, `routers/events.py`) | subscriber queues with metadata, history | `subscribe`, `publish`, the stream of a client, `cleanup_stale_subscribers` | `EventBus`, composed in `Pipeline` |
| chunking (`services/chunking.py`) | none | sections, paragraphs, sentences, sliding window | `Chunking` |
| `base_chunking.py` (top of the repository) | none | the program that the chunking service was simplified from; library texts | `LibraryChunking`, `Chunking` |
| HTTP layer, `main.py` | | start-up order, cleanup loop, endpoints | where an operation starts there |
| schema migration, S3 storage, VFS views, embedding client, models, metrics | | adapters, declarations, a sequential start-up step | not modelled |

### Interactions

* A router calls the entity service; it calls the storage directly and the
  pipeline with `await`. All of them share one event loop. A handler keeps the
  loop until it awaits the embedding service, a converter, or the executor
  thread in which `sync_to_lance` and `rebuild_lance_table` call LanceDB. All
  file operations are synchronous, so they are not interleaved with another
  handler, but a crash may separate them, and the executor threads run beside
  the loop.
* `upsert_chunks` writes a parquet file, then either the caller awaits
  `sync_to_lance`, or `_enqueue_sync` schedules a coroutine that hands the key
  to the sync queue; its worker awaits the same `sync_to_lance`. The table is
  thus written by several threads at a time.
* The pipeline looks its chain of steps up in the registry, stores each product
  with the hash of its input, indexes it, and publishes events. A client's
  stream polls its queues; the loop in `main.py` removes idle ones.
* An update marks what was derived from the source as stale (lineage), rebuilds
  it (pipeline) and writes manifest, tags and version log last, from an object
  that it read first.
* A reconcile run compares recorded hashes with files and runs the pipeline for
  what differs. Nothing excludes it from requests; a lock file excludes it from
  another run, of this process or another.
* The loop of a watch compares a directory with its hash cache, or reads
  inotify, and creates entities. Its handlers and those of the requests take
  one `threading.Lock`, on the thread of the event loop.

### What is hard here

| behaviour | where | property |
|---|---|---|
| a write while the worker copies the version before | `sync_queue.py` `enqueue`, `get` | `Answered`, `ImplementsContract` |
| `mark_done` and `mark_failed` release the dedup entry of a key, whichever task it holds | `sync_queue.py` | `Answered`, `Inv` |
| process death between parquet, rows and sidecar | `sync_queue.py`, `pipeline.py` | `Recoverable`, `Answered`, `RetryBudget`, `CrashLosesNothing` |
| a sidecar line that cannot be written is logged and lost | `sync_queue.py` | `Recoverable`, `RetryBudget`, `ImplementsContract` |
| a full queue at enqueue, at a retry and at recovery | `sync_queue.py` | `EventuallySynced`, `FailedIsRetried` |
| a stale key must be synchronised in the end | `sync_queue.py` | `EventuallySynced` |
| two threads in LanceDB on one key; a rebuild beside a sync, or without a file it cannot read; a deletion, a dropped table or a crash between two calls | `index.py` | `FreshExact`, `DuplicatesNeedOverlap`, `SchemaFitsRows` |
| two requests overlap on one entity | `entity_service.py`, `lineage.py` | `SourceIsLastUpload`, `CanonicalTracksSource`, `LogFollowsManifest`, `StatusSticks` |
| a hard delete under a running update | `entity_service.py` | `SourceIsLastUpload`, `LogFollowsManifest` |
| a crash in the middle of an update; what a reconcile run can still see | `local.py`, `reconciler.py` | `ReconcileRepairs` |
| LanceDB fails after the directory is removed | `entity_service.py` | `ReconcileRemovesGhosts` |
| a file and each of its tags are writes of their own, which a crash separates and an error skips; steps of overlapping calls alternate | `pipeline.py`, `local.py` | `TagsTellOrigin` |
| the call succeeds although embedding or index failed, or the text is empty | `pipeline.py` | `EventsTellTruth`, `IndexFollowsText` |
| a full subscriber queue; the cleanup measures publications, not reads; `unsubscribe` does not exist | `event_bus.py`, `events.py` | `LossExplained`, `LeftQueuesGo` |
| several runs take over one old lock file, and releases unlink the lock of another run | `reconciler.py` | `OverlapBounded`, `ExclusiveWhileYoung`, `NoLeak` |
| `inotify.read` waits on the thread of the event loop, and a lock is held there across an `await` | `watch.py` | `ThreadComesBack`, `DetectedIsSettled` |
| hashes are stored before the events are handled | `watch.py` | `DetectedIsCarried`, `DetectedIsSettled` |
| an index into the list of dead letters is used after an `await` | `watch.py` | `ReplayTakesItsEntry` |
| start, pause, stop and a cancelled task that still unwinds | `watch.py` | `OneLoopPerWatch` |
| positions, limits and separators at the edges of chunks and windows | `chunking.py` | `NoTextLost`, `ChunksBounded`, `StartsExactWhereCounted`, `WindowIsBest` |
| cuts around tables and code blocks that touch, overlap or end a text | `base_chunking.py` | `LibraryCovers`, `BlocksStayWhole`, `SectionPaths` |
| keys of two representations in both result lists; cycles in the step graph | `index.py`, `registry.py` | `DominanceRespected`, `ResolvesShortest` |

`PROJECT.json` lists each of them at its line. Three have no property: after a
crash between manifest, tags and version log the code leaves the log behind; ids
of dead letters repeat, so that a client may replay another file than it meant;
and a key that one result list has twice is scored twice. No document promises
more.

### What makes each component correct

* Queue: every parquet write is accounted for; what is on record survives a crash; the
  number of failures of a task is bounded; staleness ends.
* Entity service with lineage: the stored source is the last upload; the
  representations are of the stored source; when all is quiet, files, tags,
  manifest and index tell the same story.
* Index: the rows of a key are those of one version of its parquet file, once.
* Pipeline: the tags of a representation tell what it was made from; the last
  event tells how far the entity got.
* Reconciler: after an undisturbed run nothing derived is stale or left over;
  runs exclude each other as long as no lock looks dead.
* Watch: every change that a scan has seen is handled or becomes a dead letter;
  one loop per watch; whoever has the thread of the event loop gives it back.
* Event bus: a stream is the published sequence but for losses with a reason;
  what a client leaves behind is removed.
* Chunking: the chunks are the text, within limits that can be named.
* Fusion, registry: the merged order respects both lists; the chain of steps is
  the shortest.

## 2. Modules

| file | content |
|---|---|
| `SyncContract.tla` | what the synchronisation promises, without queue, worker or sidecar |
| `SyncQueue.tla` | queue, worker, sidecar, crash and recovery; its invariants, fairness and the refinement of `SyncContract` |
| `SyncQueueProofs.tla` | the inductive invariant of `SyncQueue`, its consequences, and that it implements `SyncContract` |
| `EntityService.tla`, `MCEntityService.tla` | the handlers of one entity, interleaved at their awaits |
| `EntityServiceProofs.tla` | what overlapping requests leave, and what a lone one does |
| `MCStores.tla` | `EntityService`, `IndexView` and `ReconcileLock` for one run of TLC, which share no variable |
| `IndexView.tla` | the LanceDB table under executor threads, as a view of the parquet files |
| `IndexViewProofs.tla` | that the view is exact |
| `ReconcileLock.tla` | the lock file of the reconciler, system call by system call |
| `ReconcileLockProofs.tla` | exclusion, its limits and its cleanup |
| `Watch.tla` | the watch service on the event loop |
| `WatchProofs.tla` | what its loops carry |
| `Registry.tla` | the step registry and its search, as operators |
| `EventBus.tla` | the bus, the streams and the cleanup loop |
| `EventBusProofs.tla` | what a stream yields, whoever publishes |
| `Pipeline.tla`, `MCPipeline.tla` | `process_entity`, composed with `Registry` and `EventBus` |
| `PipelineProofs.tla` | what tags and events tell, with the bus of `EventBusProofs` |
| `Chunking.tla`, `LibraryChunking.tla`, `Fusion.tla` | pure algorithms as operators |
| `Algorithms.tla`, `MCAlgorithms.tla` | one run of each of these on an input, and reference definitions |
| `AlgorithmsProofs.tla` | what chunking, fusion and the step search make of every input |

Operators just before a definition, marked "Mutant of", are wrong variants of
that definition. Each shows that a property can tell the variant from the code;
no specification uses them.

### SyncQueue

A task is named by the number of the parquet write that created it, and a
version of a parquet file by the same number. `keyOf` fixes the key of each
task in advance, which is how the model chooses what the pipelines write.

| code | model |
|---|---|
| `upsert_chunks`, then `_enqueue_sync` without an await between | `WriteParquet`: new version, coroutine appended to `ready` |
| `enqueue`: pending task of the key, free queue, full queue | `EnqueueDedup`, `EnqueuePut`, `EnqueueFull` |
| `get`: the item leaves the queue in an inner task of `wait_for`, and the status becomes RUNNING some loop turns later | `WorkerTake`, then `WorkerRead`; between them `enqueue` still sees PENDING |
| `sync_to_lance` in the executor thread | `SyncDelete`, `SyncAdd` |
| `mark_done`; `mark_failed` before and at `max_attempts` | `MarkDone`; `MarkFailedRetry`, `MarkFailedGiveUp` |
| `_reenqueue` as a timer callback | `Reenqueue(t)`, with and without room |
| `_append_sidecar`, whose failed write is logged and swallowed | `Persist`: the line is there, or it is lost |
| process death (and `stop()`, which keeps no more than it) | `Crash` |
| the start-up of `main.py`, `recover_pending`, `_compact_sidecar` | `Boot`, `RecoverEntry` (one per sidecar entry) or `RecoverFails` (the file cannot be read), `StartWorker`, with the sidecar compacted or not |

A task object that is in `_pending` and a task object that is in the queue are
the same Python object, and so share `status[t]` and `attempts[t]` here.
`recover_pending` makes new objects; the old ones died with the process.

`carrier` is a history variable: the task that answers for the current version
of a key. It is the last write's task, the pending task that write was
deduplicated onto, or the task whose worker has just read the file.
`dropped` holds the tasks that were refused or given up, each with a log line.
`vanished` holds those of which nothing tells: their coroutine had not run when
the process died, or the process ran them although none of their lines had
reached the sidecar. `lost` counts the lines of a task that were lost, whether
the write raised or the line was glued to a torn one and is skipped. `failures`
counts an exception together with its sidecar line; a process that dies between
the two has not counted the attempt anywhere, as in the code.

### EntityService

One directory and its rows in LanceDB, for a `.md` entity, whose only
representation besides the source is `canonical.md`. A file's content stands
for its hash. A handler is a program counter and a record of its local
variables, `task[r]`; `running` is the request that has the event loop. A step
ends in `Await` only where the code awaits something that really suspends.
Every durable write is a step, because a crash may fall between two.

| code | model |
|---|---|
| `create_from_bytes` | `StartCreate`, pipeline, `TagSource`, meta |
| `update_entity_content` | `StartUpdate`, `TagSource`, `MarkTag`, `MarkManifest`, `Round` and pipeline for each rep of the cascade, `RoundEnd`, `Final`, meta |
| `patch_entity`, soft delete | `StartPatch`, meta |
| hard delete | `StartHardDelete`, `RemoveTree`, `RemoveIndex` |
| `_write_entity_meta` ("meta") | `WriteManifest`, `SyncTags`, `LogVersion` |
| `process_entity`, identity pipeline ("pipeline") | `SaveSource`, `SaveCanonical`, `TagCanonical`, `Embedded` or `EmbedFails`, `Sync`, `PipelineReturns` |
| `reconcile` | `StartReconcile` (both scan phases), `RepairRep`, pipeline, `RepairMark`, `Bump`, `BumpTags`, `RepairIndex` |

Details that decide the results and are therefore in the model: `save_file`
replaces the file, and its xattrs go with it; entity tags and rep tags of the
source are the same xattrs; `cascade_rebuild` reads the source again in every
round and saves it decoded and encoded, which changes bytes that are not UTF-8;
an empty text gives no chunk and so no index step; the tags are written from the
manifest, the manifest from the object in memory; a failed embedding and a
failed sync are swallowed. A `setxattr` that fails is not modelled here, but in
`Pipeline`.

`lastUpload`, `status`, `clean`, `last` and `crashes` are history: the last
content a client stored, the last status it was told, whether anything
overlapped, failed or died since the last upload, and the kind of the last
request if nothing disturbed it.

### IndexView

One table, its rows as a sequence of versions per key (entity, representation),
so that a row that is there twice shows. A job is a thread of the executor with
the files it read on the loop (`data`), the call that is next (`pc`), and
whether its handle is of a table that was dropped (`stale`).

| code | model |
|---|---|
| `upsert_chunks` | `Write` |
| `sync_to_lance`: the read on the loop; `_sync`: table lookup, delete, add or create | `SyncStart`; `SyncList`, `SyncDelete`, `SyncAdd`, `SyncCreate` |
| `rebuild_lance_table`: the read, without the files that cannot be read; `_rebuild`: drop, create | `RebuildStart` (`skipped`); `RebuildDrop`, `RebuildCreate` |
| `delete_entity_chunks`: the files, then the rows, on the loop's thread | `DeleteFiles`, `DeleteRows`, `DeleteFails` |
| deletion of a collection: the directory, then `drop_table`, whose exception the router swallows | `DropFiles`, `DropTable`, `DeleteFails` |
| process death | `ProcessDies` |
| exceptions of LanceDB, a handle of a dropped table, a cast that fails | `SyncRaises`, `RebuildRaises` |

The first rows of a table decide whether its vectors have a fixed dimension
(`fixed`): chunks of a lexical representation have none. `fresh` and `tangled`
are history: keys whose last job ran undisturbed and that nobody touched since,
and keys on which two jobs overlapped since they were last fresh. LanceDB is
external: a call is atomic, and either has its effect or raises. The deletion of
the files is one step; that `rmtree` or `unlink` raises half-way is not modelled.
The docstring of `rebuild_lance_table` says "from all entity parquets"; a file
that is skipped is missing from the table although the rebuild returns, and so
`FreshExact` does not call its key fresh.

### ReconcileLock

`_acquire_lock` is `OpenFirst` (create exclusively), `Stat` (compare the age
with `LOCK_TIMEOUT`), `Unlink` and `OpenAgain`; `_release_lock` is `Release`.
`Age` makes the file that is there old, at any time, whether its run still
works or not: nobody refreshes it. `Die` leaves the file. That `os.write` raises
behind the exclusive open, which leaves a file without a run, is not modelled.

### Watch

The directory may change at any time (`Change`). Loops and requests share the
event loop: `running` is the loop that has it, and a request runs only when
nobody does. A loop is `loop[l]`, with the events it has still to process
(`todo`); `_tasks` is `current`. Two calls keep the thread although they wait.
`inotify.read(timeout=1000)` has it for up to a second in every round (`pc` is
"reading", from `LoopWake` to `LoopRead`): meanwhile no request and no other loop
runs, while the directory goes on changing. And a handler that finds `_lock`
taken stops the thread for good: `blocked`, after which nothing of the service
runs.

| code | model |
|---|---|
| `create_watch`, `start_watch`, `pause_watch`, `stop_watch`, `shutdown`, `cleanup_dead_letters` | `CreateWatch`, `StartWatch`, `PauseWatch`, `StopWatch`, `Shutdown`, `Cleanup` |
| `task.cancel()`, and the `CancelledError` that the task sees later | `Cancel`, `LoopCancelled` |
| `_poll_loop`, `_inotify_loop` up to the loop: the first scan | `LoopStart`; `LoopStartFails`: an exception there is outside the `try`, so that the task is dead while the status stays ACTIVE (a missing directory makes it ERROR, inotify only) |
| `_poll_loop`: a scan | `LoopScan` (with a list out of `Found`) |
| `_inotify_loop`: the next round; what the kernel has queued (`kernel`), or nothing when the second is over | `LoopWake`; `LoopRead` |
| the `except` of both loops: status ERROR, and the rest of an inotify batch is dropped | `LoopEndsInError` |
| `_process_event` and its handlers | `LoopSkip`; `LoopBegin` up to the await, `LoopCreated`; `LoopFails` with a dead letter |
| `replay_dead_letter`, before and after its await | `ReplayStart`; `ReplayDone`, `ReplayFails` |

A file's content stands for its hash. `account` is history: what became of the
latest change that a scan detected in a file. Dead letters are named by the
length of the list, as in the code, so that ids do repeat. The watched
directory is there when it is scanned: a scan without it reports nothing and
keeps the cache, which is not modelled.

### Pipeline, Registry and EventBus

`process_entity` for an entity whose calls overlap at their awaits. A content
stands for its hash. What a converter returns is any of `Products`: two products,
or a product and a source, may be the same bytes, and one may be empty. The chain
of steps is what `ResolvePipeline` finds among `BuiltinSteps`: docx, pdf, png, md,
or nothing for md, whose source is saved as `canonical_md`. The registered steps
of the chain raise `NotImplementedError` (`templates.py:91,120,149`): a chain that
succeeds has custom steps in their place, with the formats of the built-in ones.

| code | model |
|---|---|
| `process_entity` up to its first await, `ENTITY_CREATED` | `Begin` |
| `_execute_step_pipeline`: a transform, `save_file`, `set_rep_tags` | `StepDone`, `StepFails`; `Crash` may fall between the writes |
| `save_file` renames a new file over the old one, whose xattrs are gone; each `setxattr` that fails is logged and skipped | `SaveWithTags`: each of the two hashes is set or missing; `SaveTorn`: what a process leaves that dies on the way |
| the hash of the input is empty when a later step's input equals the source (`pipeline.py:334`) | `StepTags`: `NoHash` |
| `_index_step_output` | `IndexStepOutput` |
| no chunk, only for the empty text: blanks are one chunk (`chunking.py:239`) | `AfterReps` |
| embedding, `VectorIndexTemplate.build`, `sync_to_lance` | `Embedded`, `SyncIndex`, `EmbedFails`, `IndexFails` |
| `REP_COMPLETED`, `INDEX_COMPLETED` | `Publish` in `ReportUnindexed`, `SyncIndex` |

In the records of files, `input`, `upload` and `run` are history: what the file
was made from, and for which upload and call.

`EventBus` has the queue of each client and type with its metadata: `Publish`
(`put_nowait`, the trimmed history), `Connect`, `Poll` and `EndStream` of the
stream, `HangUp` of the client, `Tick` of the clock, `Cleanup`. `age` is the time
since `last_read`, which the code sets when an event is put into the queue, and
only then: a queue that is full ages although events are published, and one that
is read ages while there are none. A stream that ends calls `unsubscribe`, which
`EventBus` does not define: the queues stay.

### Chunking, LibraryChunking, Fusion

Operators, one per function. `Chunking` works on lengths: a text is a sequence
of sections of paragraphs of sentence lengths, and a chunk a sequence of the
character ranges it was made from, so that lost or repeated text shows.
`base_chunking.py` and the service share all but the handling of a sentence over
the limit, and are compared with the same properties. `LibraryChunking` works on
characters, one for each class the code distinguishes; lines and blocks are sets
of positions, and `FirstBlock` is the one that the code's sorted list would give
first. `Fusion` has scores as
integers over a common denominator, so that ties are those of the exact values.
`Algorithms` runs each of them once on an input.

## 3. Runs

| run | expectation | shows |
|---|---|---|
| `sync_queue` | pass | the invariants, `Inv`, liveness and refinement of the queue |
| `sync_orphan` | violated: `FailedIsRetried` | a retry that meets a full queue is dropped; the task stays pending, held by nothing, until a restart |
| `sync_give_up` | violated: `GivesUpAfterMaxFailures` | deduplication adds to `attempts`, so that a task is given up after fewer failures than `max_attempts` |
| `sync_crash` | violated: `CrashLosesNothing` | a crash before the scheduled `enqueue` runs: the parquet file is there, and no sidecar line tells of it |
| `stores` | pass | the directory of an entity under overlapping requests, failures and a crash; the LanceDB table under executor threads; the lock file of the reconciler (one of the three in each behaviour) |
| `entity_status` | violated: `StatusSticks` | an update that was waiting for its pipeline enables an entity whose deletion was acknowledged meanwhile |
| `entity_reconcile` | violated: `ReconcileRepairs` | after a crash between the new source and the rebuilt rep, a reconcile run sees nothing to repair |
| `entity_ghosts` | violated: `ReconcileRemovesGhosts` | rows left by a hard delete are not removed by the reconcile run its log line recommends |
| `watch` | pass | detected changes are carried and settled, one loop per watch, the thread comes back, replay |
| `pipeline` | pass | tags tell the origin, events tell the truth, losses of a stream are explained, left queues go |
| `pipeline_stale` | violated: `IndexFollowsText` | an update to the empty text leaves the rows of the text before |
| `algorithms` | pass | chunking, windows, library cuts, sections, fusion and the step search on all small inputs |

The violated properties are statements of the repository's comments and log
messages; each finding in `PROJECT.json` quotes the line.

Other disagreements show as exceptions in properties that hold. The property
then says how far the code goes wrong, and a finding names it and quotes the
line that promises more:

| exception | what the repository says |
|---|---|
| the decoded upload in `SourceIsLastUpload`: the cascade saves the source again, decoded and encoded | `storage/lineage.py:7` "L0 (raw, immutable)", `storage/local.py:33` "sha256 of raw content" |
| `Countable` in `StartsExactWhereCounted`: elsewhere the start is too small | `models/chunk.py:91` "Start character offset in source text", `base_chunking.py:42` |
| the four ways to cut a block in `BlocksStayWhole` | `base_chunking.py:11` and `:675`: tables are not cut, blocks are protected |
| `subscribed` in `LossExplained`: a live reader of a quiet topic is removed | `event_bus.py:81` and `:98` "no reads in the last hour" |
| `LeftQueuesGo` asks for the removal some time: an abandoned queue stays as long as events are put into it | `event_bus.py:98` |
| `entity_created` in `EventsTellTruth`: an empty text has no other event, and a call that succeeds no `rep_completed` | `pipeline.py:7` and `:60-61` "publishes `REP_COMPLETED` when all reps are ready" |
| `rep_completed` in `EventsTellTruth` says nothing of the parquet file: after a failed embedding no chunk is saved | `pipeline.py:886` logs "chunks saved but not indexed" |

Of these exceptions no document claims the contrary: `blocked` in
`DetectedIsSettled` and `ThreadComesBack`, `tangled` in `DuplicatesNeedOverlap`,
the lost lines in `Recoverable` and `RetryBudget` (`_append_sidecar` logs them),
`CutRest` in `ChunksBounded`. `takeovers` in `OverlapBounded` is the price of
`LOCK_TIMEOUT`, which the docstring of `_acquire_lock` ("Create an exclusive lock
file. Raises RuntimeError if lock is held.") leaves out; the count never falls, so
that the bound is strongest for the first old lock.

### Properties

Queue:

* `Answered`: while LanceDB does not show the parquet version of a key, the
  task answerable for the version is scheduled or pending in the sidecar, was
  dropped with a log line, or has vanished without one. It breaks if `enqueue`
  deduplicates against a running task: the worker has read the version before.
* `Recoverable`: what the process would still run, the sidecar calls pending,
  unless every line about the task was lost. It bounds what may vanish: a task
  with a line is never lost by a crash.
* `CrashLosesNothing` is what the module's docstring says, and is violated.
* `RetryBudget`: at most `max_attempts` failures per task, across restarts, and
  one more for each line that was lost.
* `EventuallySynced`: a stale key is synchronised in the end, unless its task
  was dropped, has vanished, or is an `Orphan`: pending in the sidecar while no
  queue, timer or worker holds it. The exceptions are real: they are what
  `sync_crash` and `sync_orphan` show.
* `ImplementsContract`: `SyncQueue` refines `SyncContract` with `owed`,
  `recorded`, `disclaimed` and `forgotten` read off the carriers. A promise ends
  when the view shows the source, when the queue says in its log that it gives
  up, or in silence; the last only for a key that is not on record, that is,
  whose task no line of the sidecar has as pending.

Entity:

* `SourceIsLastUpload`: the last writer wins, although the cascade of an older
  update saves the source again, and a hard delete stays a hard delete. The upload
  may have been decoded and encoded again.
* `CanonicalTracksSource`: whenever another request can run, `canonical.md` is
  of the stored source. It rests on the absence of an await between two saves.
* `Converged`: after an upload that nothing disturbed, everything agrees.
* `LogFollowsManifest`: the version log exists exactly when the manifest does
  and is never ahead of it, whatever overlaps.

Index and lock:

* `FreshExact`: a key whose last sync, rebuild or deletion nobody disturbed has
  exactly the rows of its file, whatever happens to other keys. A rebuild that
  could not read a file leaves its key out, and does not count for it.
* `DuplicatesNeedOverlap`: two copies of a row need two jobs on the key at a
  time; a failure between delete and add, a crash and a retry do not suffice.
* `SchemaFitsRows`: a table that a vector query can search has vectors only.
* `ExclusiveWhileYoung`, `OverlapBounded`, `NoLeak`: until a lock has grown old
  there is one run, and it owns the file; after that, each takeover adds at most
  one; a file that stays is of a run at work or of a process that died.

Watch:

* `DetectedIsCarried`: the cache already has the new hash, so a change that no
  loop has in its list any more is never seen again. A failure in the middle of
  a list loses none; only cancelling the loop does.
* `OneLoopPerWatch`, `ReplayTakesItsEntry`. The latter is about the place of the
  entry that the replay has read; that its id may be that of another entry as
  well is outside it.
* `DetectedIsSettled` and `ThreadComesBack`, as liveness: a change that was
  detected is handled or dead in the end, and a loop that has the thread gives it
  back, because a batch ends whatever fails in it and a read times out; unless
  the thread waits for the lock that a replay holds.

Pipeline and bus:

* `TagsTellOrigin`: each hash among the tags of a file is missing or true of the
  file as it is: its content, and what it was made from, although two calls save
  under the same names, attributes fail and saves are torn. The empty input hash
  stands only where the input was what had been uploaded.
* `EventsTellTruth`: what the last event says of an entity whose calls did not
  overlap, in each of its three types, the old rows included: `rep_completed`
  says that the table is not of that call. `IndexFollowsText` says what the
  documents promise of the index, and is violated.
* `LossExplained`: a stream yields events in their order, each once; until its
  queue is full for the first time it misses none while the queue is on the bus,
  and only the last ones when it was taken off.
* `LeftQueuesGo`: the queues of a client that has left are removed in the end,
  with anything published meanwhile: either there is an hour without an event
  that is put, or the queue fills up and then ages.

Algorithms: each result is compared with a definition that does not follow the
code: the ranges partition the text; a start is exact exactly where a quantifier
over the text finds nothing miscounted before it; a window cannot be widened on
either side; a chain of steps is compared with all chains; the headers of a section
are those that a quantifier over the lines picks.

* `ChunksBounded` excuses the rest of a sentence that was cut (`CutRest`), which it
  tells by the chunk before it, of exactly four characters a token of the limit.
* `LibraryCovers`: the sections of a library that are a table of contents have no
  chunk (`base_chunking.py:401`); the property is about the others.
* `DominanceRespected` is about keys that each list has at most once.
* `BlocksStayWhole`: a cut lies in a table or code block only if the block is a
  table over the maximum, if it overlaps another block, if the natural break lies
  in a block behind the slice, or if the slice ends in a table over the maximum.
  In the last case the cut is `start_pos + max_table_length`, which need not be in
  that table: where the maximum is smaller than the slice it may lie before the
  table, and then inside a block that is not too long. With the default of 3000
  characters it does not; the setting is free.

### Bounds

* `SyncQueue.cfg`: two keys, three writes, a queue of one, two attempts, one
  crash, one lost line. Three writes on two keys give a write that deduplicates,
  one that overtakes the worker, and a second key that fills the queue of one, so
  that every full-queue case happens: at enqueue, at a retry, and at recovery
  (two pending sidecar entries, one place). Two attempts give a retry and a
  last failure. One crash can fall anywhere, in recovery as well. A lost line can
  be the first one of a task, so that it vanishes, or that of a failure, so that it
  has one attempt more. The keys are not declared symmetric, because the run checks
  liveness.
* `SyncOrphan.cfg`, `SyncGiveUp.cfg`: the same without a crash and a lost line;
  `SyncCrash.cfg` with a crash.
* `Stores.cfg` has the constants of three modules, and `part` chooses the one that
  moves. `EntityService`: three requests, each of any kind and any content, and one
  crash. Three is what an overlap of two and an observer (a third update, a
  delete or a reconcile run) needs. The contents are a text, bytes that decode
  to that text with replacement characters, and an empty file: the three cases
  that `decode` and chunking distinguish. The cascade has three rounds, two of
  them for `canonical_md`, as the registered steps give.
  `IndexView`: one entity with an ordinary and a lexical representation, two
  threads, three versions, one failure (of LanceDB, or files that cannot be read);
  deletions, drops and crashes without a bound. Two threads are an overlap; three
  versions are one in the table, one that a job has read and one in the file; the
  proofs cover the rest.
  `ReconcileLock`: four processes, one death, takeovers counted up to the
  number of processes, beyond which the bound says nothing. Three processes at
  work at a time need two takeovers, a fourth one releases the lock of another.
* `EntityStatus.cfg` and `EntityGhosts.cfg` need no crash, and
  `EntityReconcile.cfg` needs one.
* `Watch.cfg`: one watch, so that its number is reused; two loops, which start,
  pause and start again need; two files, so that one event waits behind the
  other; two changes and two failures, so that two dead letters exist.
* `Pipeline.cfg`: two calls and one fault (a restart, or a file one of whose
  attributes cannot be set); converters that return the upload itself or nothing,
  so that products repeat and an input equals the source; a client with a queue of
  one, a history of two, an age of one tick. `PipelineStale.cfg` has a third
  product, which is a text. Two more bounds keep the product of chain and streams small:
  a stream is not open while a chain of converters runs, nor at a restart
  (`StreamsRest`, `ChainsRest`). The events of a chain are those of a Markdown
  call, and streams do not influence calls.
* `Algorithms.cfg`: sentences of 3, 11 and 13 characters at a limit of 2 tokens
  (8 characters) are short, over the limit, and over it with a rest that is long
  again; a window of 4, which becomes 5, and 30 characters, so that windows end
  at the limit and at the ends. Library texts are all texts of seven characters
  over five alphabets and limits around the prefix, and one of ten (`TableAhead`)
  with a code block before a long table, for the last case of `BlocksStayWhole`. Rank
  lists of up to three hits over two entities, with keys shared by two
  representations. Registries are all orders of six steps with two chains of different
  lengths and a cycle.

Every bound is a constant used in a guard or the size of an input.
`CHECK_DEADLOCK` is off in `Watch.cfg` (a replay can stop the event loop),
`Pipeline.cfg` and `PipelineStale.cfg` (all calls may have returned) and
`Algorithms.cfg` (each input is worked on once), and on everywhere else.

### Fairness

`SyncQueue!Fairness` is weak fairness of `RunEnqueue` (asyncio runs scheduled
coroutines), `WorkerStep` (the worker task is never cancelled while the process
is up, `get` returns what is in the queue, the executor thread ends),
`Reenqueue(t)` for every task (`call_later` fires), and `Restart` (the deployment
restarts the container). There is no fairness of `MarkDone` against
`MarkFailedRetry`: LanceDB may fail every time. Pipelines need not write and
crashes need not happen.

`Watch!Fairness` is weak fairness of `LoopStep(l)` (asyncio resumes a task whose
sleep is over or whose entity is created or has failed, and `inotify.read`
returns after its timeout) and of `ReplayEnd`. Changes, requests, failing scans
and loops that end in an error need not happen.

`EventBus!BusFairness` is weak fairness of `Poll` and `EndStream` (the generator
of a stream is resumed), `Cleanup` (the loop in `main.py`) and `Tick` (the clock
goes on). Nothing is assumed of when events are published: a publication resets
the age of a queue with room, and a full queue ages whatever is published. A
behaviour has finitely many publications, since calls are bounded; a queue that
always has an event put before the age is reached gets full after `Capacity` of
them, as nobody takes any out.

The other modules have no fairness; only safety is checked of them, because
their handlers have no loops that could starve.

## 4. Proofs

`SyncQueueProofs.tla` proves, for every `Keys`, `MaxWrites`, `QMax`,
`MaxAttempts`, `MaxCrashes` and `MaxLost` that satisfy the two assumptions of
`SyncQueue` (there is a key; queue and attempts are at least one):

| theorem | statement |
|---|---|
| `InvHolds` | `Spec => []Inv` |
| `TypeCorrect` | `Spec => []TypeOK` |
| `NoWriteForgotten` | `Spec => []Answered` |
| `AcceptedTasksSurvive` | `Spec => []Recoverable` |
| `RetriesBounded` | `Spec => []RetryBudget` |

None of the three properties is inductive. `Inv` adds what each needs:

* `Answered` survives `MarkDone` only if the rows just written are those of the
  current version when the worker's task is the carrier, and if a later carrier
  is owed otherwise: `WorkerOK`. It survives `EnqueueDedup` because the task
  deduplicated against is of the same key (`PendingOK`) and either is owed itself,
  or the new write vanishes with it. A crash ends no task that the sidecar has as
  pending: what was in `ready`, and what the process ran without a line, vanishes.
* `LostOK` keeps the two ways to end a task apart: what was dropped or has vanished
  is not run by the process, and the sidecar has nothing as pending that has vanished.
* `Recoverable` survives `MarkDone` only if no copy of the worker's task is
  queued or in backoff as well: `HomeOK` (a task has one home). For `WorkerTake`
  that needs the queue without repetition.
* `EnqueuePut` keeps `HomeOK` only if a task whose coroutine is still scheduled
  is nowhere else: `FreshOK`. Recovery keeps it only if everything queued so far
  came from entries before the cursor: `BootOK`.
* `RetryBudget` survives a restart only if both the sidecar and memory count
  every failure whose line was not lost: `BudgetOK`.
* `CarrierOK` relates a carrier to its key.

The proof has a lemma per action of `Next`, and in it a step per conjunct that
the action can disturb; `InvHolds` combines them. `Inv` itself is an invariant
of the run `sync_queue`, so that TLC has checked on the small instance what is
proved in general.

On top of `Inv` and under the same assumptions, the queue is proved to implement
its contract:

| theorem | statement |
|---|---|
| `QueueKeepsContract` | `Spec => ImplementsContract` |

`RInv` adds to `Inv` that versions only grow, and that the worker never holds one
that is newer than the file (`VersionsOK`): so that a write is a write of the
contract, and the rows it adds are of a version that the contract allows. That no
key is given up and owed by the same task, and that none which was given up comes
back unseen, is `LostOK`. Each step is then a write, a touch, an adoption (`get`
makes the worker's task answerable), a settlement (`MarkDone` of the carrier), a
disclaimer (a full queue, the last failure: each with a log line) or a loss in
silence, or changes nothing the contract sees. The contract allows a loss in silence
only of keys that are not on record.

`IndexViewProofs.tla` proves, for every set of entities, representations and
threads and any number of writes and failures (`IndexAssumption`: the
distinguished value `Nil` is none of the others, nor is it or an entity called
"all"):

| theorem | statement |
|---|---|
| `ViewIsExact` | `ViewSpec => []FreshExact` |
| `NoDuplicatesAlone` | `ViewSpec => []DuplicatesNeedOverlap` |
| `FixedTablesHaveVectors` | `ViewSpec => []SchemaFitsRows` |
| `TypeCorrect` | `ViewSpec => []ViewTypeOK` |

`FreshExact` becomes true of a key when a job ends undisturbed. That needs that
nobody else is on its keys (`CleanAlone`), that the files still say what the job
read, but for those that a rebuild could not read (`CleanReads`), and that the table
had no rows of the key when the job added its own (`AddAfterDelete`). The last one is
also what `DuplicatesNeedOverlap` needs of jobs that are not clean, as long as the key is
not tangled (`OverlapTangles`). It stays true because nothing becomes fresh, and
no key loses its tangle, while a job is on it (`FreshIdle`). A deletion makes
keys fresh as well, and its files are still gone when its rows go
(`DeletedHasNoFiles`).

`ReconcileLockProofs.tla` proves, for every finite set of processes and any
number of deaths (`LockAssumption`: a lock is of a process or of nobody; takeovers
are counted up to the number of processes at least, beyond which the bound says
nothing):

| theorem | statement |
|---|---|
| `MutualExclusion` | `LockSpec => []ExclusiveWhileYoung` |
| `BoundedOverlap` | `LockSpec => []OverlapBounded` |
| `NoLockLeaks` | `LockSpec => []NoLeak` |
| `TypeCorrect` | `LockSpec => []LockTypeOK` |

The addition that makes them inductive is `NobodyTakesOver`: before a lock has
grown old nobody is between `Stat` and `OpenAgain`. The rest is counting: a step
that adds a holder also creates the file, and a step that removes the file ends a
run or counts a takeover.

`WatchProofs.tla` proves, for every finite set of files and any number of
watches, loops, changes and failures (`WatchAssumption`: besides that, `None` is
none of the other values):

| theorem | statement |
|---|---|
| `OneLoop` | `Spec => []OneLoopPerWatch` |
| `ChangesAreCarried` | `Spec => []DetectedIsCarried` |
| `ReplayIsExact` | `Spec => ReplayTakesItsEntry` |
| `TypeCorrect` | `Spec => []TypeOK` |

`OneLoopPerWatch` is inductive together with the types. What `_tasks` names for
a watch must besides be a task of that watch (`CurrentIsMine`): otherwise
pausing one watch might cancel the loop of another with the changes it carries.
A scan overwrites the cache, and loses nothing because its own list is empty and
no other loop has one for that watch; that its events name every changed file is
`ScanList`, a fact about sequences of finite sets. A loop that ends in an error
drops its list, and with it no change that a scan detected, because only an inotify
batch can fail in the middle, and what a scan found is a polling watch's
(`PendingIsPolled`). A replay finds its entry at its place because the lock is held
exactly while a replay is under way (`LockIsReplay`), and whoever changes the list has
found the lock free (`ReplayKeepsPlace`). The run has one watch; the proof covers the locks that
several watches share.

`EntityServiceProofs.tla` proves, for any number of requests and crashes, any
set of contents and any cascade in which `canonical_md` occurs
(`EntityAssumption`: decoding is idempotent and keeps blank what is blank, and
`None` is none of the other values):

| theorem | statement |
|---|---|
| `EntitySourceIsLastUpload` | `Spec => []SourceIsLastUpload` |
| `EntityCanonicalTracksSource` | `Spec => []CanonicalTracksSource` |
| `EntityConverged` | `Spec => []Converged` |
| `EntityLogFollowsManifest` | `Spec => []LogFollowsManifest` |
| `EntityTypes` | `Spec => []TypeOK` |

All of them rest on the event loop: a handler has it exactly where it awaits
nothing (`LoopIsHeld`), so that at most one handler is between two writes of one
group. `LocalsFit` says which handlers can be where, and with which locals.

* `SourceIsLastUpload` survives the cascade of an older update because what a
  pipeline saves as the source is what it has read in the same turn of the loop
  (`RebuildsSource`), at most decoded.
* `CanonicalTracksSource` becomes inductive as `TracksUnlessBehind`: `canonical.md`
  is behind only while the handler that has the loop is about to save it, and an
  update gets there because the cascade names `canonical_md` and because no other
  handler can have removed the source meanwhile.
* `LogFollowsManifest` becomes `LogUnlessWriting` in the same way, for the two
  steps between manifest and log; versions count from 1 (`VersionsFromOne`), and
  no step writes one that is below the log.
* `Converged` speaks of the end of a request that nothing disturbed. `OneStory`
  follows it from its first step: `Telling` has, for each place in the handler,
  the part of `Agreed` that is done there.

`EventBusProofs.tla` proves, for any clients, any capacity of queues and history and
any age of a queue to be removed (`BusAssumption`: the capacities are at least one,
as in the code), of the bus with
any coroutine that publishes at any moment (`BusSpec`), that is without the bounds
that `Pipeline` puts on streams:

| theorem | statement |
|---|---|
| `BusInvariant` | `BusSpec => []BusInv` |
| `BusExplainsLoss` | `BusSpec => []LossExplained` |
| `BusTypes` | `BusSpec => []BusTypeOK` |

What a stream got and what waits in its queue is, together, all that was published
since it connected, until its queue is full for the first time or goes off the
bus; after that it is a subsequence of it, because a publication is appended to
both or to the longer one only (`FollowsBoth`, `FollowsLess`). `LossExplained` is
about the two together, so that a poll, which moves an event from the one to the
other, changes nothing; it becomes inductive (`StreamsExplained`) with the knowledge
that a queue at its capacity is marked full and has events of its own type
(`QueuesSound`).

`PipelineProofs.tla` proves, for any number of calls, faults and clients, any
uploads in the formats of the built-in templates and any products of the converters
(`PipelineAssumption`: a call is of one of the four formats, contents are strings, and
no source is `None` or the empty string, which stands for a hash that is not given):

| theorem | statement |
|---|---|
| `PipelineInvariant` | `Spec => [](BusInv /\ PipeInv)` |
| `PipelineTagsTellOrigin` | `Spec => []TagsTellOrigin` |
| `PipelineEventsTellTruth` | `Spec => []EventsTellTruth` |
| `PipelineExplainsLoss` | `Spec => []LossExplained` |
| `PipelineTypes` | `Spec => []TypeOK` |

* `TagsTellOrigin` rests on `SaveTells`: a save replaces the file and sets the
  attributes of the new one, whole, in part or torn by a crash; whatever is missing
  afterwards, each hash that is there is of that file, because no attribute of the
  file before is left. `InProgress` says where in its chain a call is.
* `EventsTellTruth` speaks of the moment when a call has ended. `LastEventFits`
  says it of every moment: of the call that published the last event, how far it
  is and what it has stored. It survives the steps of others because there are
  none: the calls begin in their order (`Prefix`), and if the latest met no other
  one it is alone (`CalmIsAlone`), after an event of its own (`FlightIsTold`). Until
  it has another event, `Announced` is what it has stored; the index has nothing of
  it when it begins (`IndexOfBegun`).

`BuiltinChains` is a closed formula about the chains that `ResolvePipeline` finds
among the built-in steps: for docx, pdf and png they are not empty. It is an
assumption for the prover, which cannot compute a fold, and TLC evaluates it in every
run of `Pipeline`.

The inductive invariants of the last three were model-checked on the instances of
their runs before they were proved.

`AlgorithmsProofs.tla` proves of the chunkers, for every limit and every text made
of sections of paragraphs of sentences (`ChunkingAssumption`: the limits are
numbers; `DocumentsAssumption`: a section has a paragraph, since it begins with
its header line), and for every library text, prefix and limit
(`ContentsAssumption`: a text is a sequence of characters, the limits are numbers;
`LibraryAssumption`: the longest table is at least one character, as
`_get_max_table_length` sees to):

| theorem | statement |
|---|---|
| `TextKept` | `Spec => []NoTextLost` |
| `StartsHold` | `Spec => []StartsNotBehind`: the first half of `StartsExactWhereCounted` |
| `BoundHolds` | `Spec => []ChunksBounded` |
| `WindowsAreBest` | `Spec => []WindowIsBest` |
| `WindowOfBest` | the window is the best one (`Best`) for any list of lengths |
| `LibraryTextKept` | `Spec => []LibraryCovers` |
| `BlocksAreCutLast` | `Spec => []BlocksStayWhole` |
| `PathsEnclose` | `Spec => []SectionPaths`, for every outline (`OutlinesAssumption`: levels are numbers) |
| `FusionRespectsRanks` | `Spec => []DominanceRespected`, for every two lists, weights, constant `k` and number of hits (`FusionAssumption`, `ResultsAssumption`: all are numbers, the lists sequences) |
| `ChainsAreShortest` | `Spec => []ResolvesShortest`, for every registry and two formats (`RegistriesAssumption`: the steps added are a sequence) |

These say what loops compute of inputs of any length, which needs induction over
data. The library's induction theorems take an operator, which no installed
prover can instantiate; `UpTo` is induction about a set of numbers instead, and
follows from the pigeonhole theorem. The loops are folds, which the community
modules define by a CHOSEN recursive function. `FoldExists` shows by `UpTo` that
there is one, and `FoldSteps` that the fold passes through a sequence of values,
one per element (`SumTrace`, `ConcatTrace`, `LongTrace`, `ParTrace`,
`TruncateTrace`, `SectionTrace`, `CutTrace` and `PieceTrace` are that of the folds
of the chunkers, `FencesIn` that of the fences of a text, `InsertedSound` that of
the keys of a fusion, `ScanTrace` and `SearchTrace` those of the step search). A loop invariant is then
proved along that sequence.

* The invariant of the chunks made so far is `Sound`: they take the characters from
  one position to another exactly once and in order, each starts no further down
  than its text, and those of the service keep the bound or are the rest of a cut.
  Sound lists that adjoin can be joined (`SoundJoin`), which also covers the rest of
  a cut at the head of a list: the chunk before it is in the same list.
* `LongSound` adds what `_split_long_paragraph` has in hand: nothing, or one range
  that ends where the next sentence begins and is as long as its tokens allow. That
  it is one range is what a flush after each cut and each full chunk comes to.
  `ParSound` is the same of `_split_by_tokens` and the paragraphs it collects.
* The positions of paragraphs and sections are sums in the model, and `Ends` and
  `SecEnds` are the traces of these sums.
* The search for a window keeps that it fits and that a blocked side is full
  (`Within`), and reaches one more chunk on each open side with each distance
  (`WidenKeeps`). A side that was full stays full, because windows only grow
  (`StillFull`).
* After each line, the path of the current section is the set of headers that no
  later one has closed (`Open`), and does not change until the next header, so that
  it is also the path at the first line of the section (`OpenEncloses`).

* A table or a code block begins with a character of its own and ends at a newline
  or with the text (`ProtectedPlaced`), so that the cut at `end_char + 1` is behind
  the block, and behind `start_pos`. Every way through
  `_find_library_safe_split_position` ends behind `start_pos` and at most at the end
  of the text (`NextSplitSound`), which is what `CutsSound` needs: the cuts grow from
  the start of the text to its end. That a cut outside the four cases is in no block
  is `BlocksKept`, by the same cases.
* Stripping removes newlines only (`StripSound`), and a piece that is merged adjoins
  the last chunk but for newlines (`MergeSound`). So the pieces up to each cut have
  all other characters up to it (`PiecesTake`). `WholeSound` is the text that is not
  cut, `LibraryChunksSound` both.

* The sum of a set is another recursive function (`SetSumExists`); from it follows
  only what fusion needs: a score is a number, and falls as the ranks grow
  (`DenominatorNat`, `ScoreFalls`). The place of a key in the merged list is one more
  than the number of keys ahead of it, by score and then by first occurrence; that is
  a bijection by the pigeonhole theorem (`RankingExists`), so each place has one key
  (`RankedSound`, `HitsSound`). A key that is above another in each list has at
  least its score, and occurs first if the scores are the same (`AboveIsBefore`).
  Scores are exact up to rank `MaxRank`, which is any number, and rounded down
  behind it. `FusionAssumption` has weights that are not negative. `SearchRequest`
  does not check that; with a negative weight the better rank would lower the score.
* The invariant of the search is the textbook one, over walks (`Walk`, `Reached`) of
  the registered steps. What waits is one or two distances away, the nearer first,
  with a walk as short as any (`Frontier`, `Waiting`, `Scanning`); the formats that
  are known and do not wait have all their steps done. A step keeps that or finds the
  target (`ScanStep`), and when all steps from a format are done, the next one is as
  near or one further (`AfterScan`). The model bounds the loop by the number of steps
  and one more: `FormatsBounded` shows by counting that it never stops with formats
  waiting, and that the chain has no more steps than are registered.

The attempt to prove `BlocksStayWhole` found its fourth case. As first stated it had
three, and all texts of seven characters satisfied it; the proof of `BlocksKept` did
not go through for a long table, and TLC finds the counterexample with `TableAhead`,
which is now among the inputs of the run.

Only model-checked are the four liveness properties, `EventuallySynced`,
`DetectedIsSettled`, `ThreadComesBack` and `LeftQueuesGo`, because liveness is out of
the prover's reach, and the second half of `StartsExactWhereCounted`, where a start
is exact. Every other property of a passing run is a theorem.

## 5. Not modelled, and why

* Statistics, metrics, logging, field validation, and the formats of files:
  no property is about them.
* The vector and full-text queries: they read rows. Their fusion is modelled.
* Handlers that only list or read, and the TTL cache of `list_entities`.
* What converters, the embedding service, LanceDB and inotify do inside: they
  are external, and their outcomes appear as choices (a result or an exception).
* The legacy `RepTemplate` fallback of the pipeline and `run_index_pipeline`,
  which no built-in template takes; `get_stale_reps`, which has no caller.
* File operations that fail half-way, apart from those named in part 2: `rmtree` and
  `unlink` in a deletion, `os.write` behind the exclusive open of the lock file,
  `setxattr` in the handlers of `EntityService`, and a watched directory that is gone.
* Titles, anchors, and the recognition of headers and of a table of contents in
  the chunkers: text formatting. Chunking takes the lines as classified.
* S3 storage: an adapter with the interface of the local one, without xattrs.
* VFS views, workspaces, models and configuration: no behaviour over time.
* Schema migration: a sequential start-up step beside which nothing runs.

## 6. Plan

1. `Pipeline`: entities of two formats at once.
2. `IndexView` as the environment of `SyncQueue`: a worker whose sync meets the
   jobs of others.
