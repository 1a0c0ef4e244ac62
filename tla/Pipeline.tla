------------------------------- MODULE Pipeline -------------------------------
(***************************************************************************)
(* The processing of an entity (app/services/pipeline.py): a chain of      *)
(* steps turns the source into representations, each saved with tags that  *)
(* name the hashes of its input and of its content; the indexable ones are *)
(* indexed, the last one, canonical_md, with events on the bus.  Calls for *)
(* the same entity overlap at every await: nothing locks the entity.       *)
(*                                                                         *)
(* A content stands for its hash.  What a converter returns is any of      *)
(* Products, so that two products, or a product and a source, may be the   *)
(* same bytes.                                                             *)
(***************************************************************************)
EXTENDS Registry, EventBus

CONSTANTS Uploads,    \* [format, source] of the first call
          Calls,      \* of the later ones: uploads of the same file, updates
          Products,   \* what a transform may return
          Empty,      \* the content without a byte
          MaxRuns,    \* bound: calls of process_entity
          MaxFaults   \* bound: restarts, and files whose tags cannot all be set

\* Neither a hash: no file or no attribute, and the empty string.
None == "none"
NoHash == ""
Hashes == {c.source : c \in Uploads \cup Calls} \cup Products
          \cup {Empty, None, NoHash}

ASSUME PipelineAssumption ==
    /\ \A c \in Uploads \cup Calls :
        /\ c \in [format : {"md", "docx", "pdf", "png"}, source : STRING]
        /\ c.source \notin {None, NoHash}
    /\ Empty \in STRING /\ Products \subseteq STRING
    /\ MaxRuns \in Nat /\ MaxFaults \in Nat

\* The registered steps lead from every other format to markdown.
ASSUME BuiltinChains ==
    \A format \in {"docx", "pdf", "png"} :
        Len(ResolvePipeline(BuiltinSteps, format, "md")[1]) \in Nat \ {0}

Runs == 1..MaxRuns
Reps == {"rep_pdf", "rep_png", "canonical_md"}
NoFile == [id |-> None, input |-> None, upload |-> None, run |-> 0]
NoTags == [input |-> None, content |-> None]
NoIndex == [id |-> None, run |-> 0]
NoCall == [format |-> "md", source |-> None]

VARIABLES
    source,    \* source_original
    reps,      \* representation -> its file
    tags,      \* representation -> input_content_hash and content_hash
    parquet,   \* representation -> the content whose chunks it has
    rows,      \* the content whose chunks are in the table
    runs,      \* the calls and their local variables
    faults,
    calm       \* history variable: the latest call met no other one

pipeVars == <<source, reps, tags, parquet, rows, runs, faults, calm>>
vars == <<pipeVars, busVars>>

\* `content`: current_content, `i`: steps done, `pending`: intermediate
\* representations to be indexed, as <<name, content>>.
NewRun == [pc |-> "new", call |-> NoCall, i |-> 0, content |-> None,
           pending |-> <<>>]

Init ==
    /\ source = None
    /\ reps = [r \in Reps |-> NoFile]
    /\ tags = [r \in Reps |-> NoTags]
    /\ parquet = [r \in Reps |-> NoIndex]
    /\ rows = NoIndex
    /\ runs = [r \in Runs |-> NewRun]
    /\ faults = 0
    /\ calm = TRUE
    /\ BusInit

Path(r) == ResolvePipeline(BuiltinSteps, runs[r].call.format, "md")[1]
RepNameOf(step, isLast) ==
    IF isLast THEN "canonical_md"
    ELSE IF step.output = "pdf" THEN "rep_pdf" ELSE "rep_png"

Idle == {"new", "done", "failed"}
InFlight == {r \in Runs : runs[r].pc \notin Idle}
At(r, pc) == runs[r].pc = pc
Silent == UNCHANGED busVars
KeepIndex == UNCHANGED <<parquet, rows>>
KeepReps == UNCHANGED <<source, reps, tags>>

\* Bound: a stream is not open in a behaviour with a chain of converters, whose
\* events are those of the other calls.
StreamsRest == \A c \in Clients : pos[c] = 0 /\ c \notin gone
ChainsRest == \A r \in Runs : runs[r].call.format = "md"

\* What call r saves as representation `name`.  `input`, `upload` and `run` are
\* history: what the file was made from, and for which upload and call.
File(r, call, input, id) ==
    [id |-> id, input |-> input, upload |-> call.source, run |-> r]

\* save_file and set_rep_tags: the file is a new one, without attributes, and
\* each attribute that cannot be set is skipped with a warning.
SaveWithTags(name, file, t) ==
    /\ reps' = [reps EXCEPT ![name] = file]
    /\ \E input \in {t.input, None}, content \in {t.content, None} :
          /\ tags' = [tags EXCEPT ![name] = [input |-> input, content |-> content]]
          /\ faults' = faults + (IF input = t.input /\ content = t.content
                                 THEN 0 ELSE 1)
          /\ faults' <= MaxFaults

\* After the representations: those to be indexed first, then canonical_md,
\* which has no chunks if it is empty.
AfterReps(run) ==
    IF run.pending # <<>> THEN "index"
    ELSE IF run.content = Empty THEN "done" ELSE "embed"

\* The tags of the passthru: input and content are the same bytes.
PassthruTags(call) == [input |-> call.source, content |-> call.source]

Started(r, call) ==
    /\ At(r, "new")
    /\ r > 1 => ~At(r - 1, "new")
    /\ call \in (IF r = 1 THEN Uploads ELSE Calls)

\* process_entity up to its first await.  Markdown has an empty chain: the
\* source itself is saved as canonical_md.
Begin(r) ==
    \E call \in Uploads \cup Calls :
        LET run == [NewRun EXCEPT !.call = call, !.content = call.source]
            identity == call.format = "md" IN
        /\ Started(r, call)
        /\ identity \/ StreamsRest
        /\ Publish("entity_created", r)
        /\ source' = call.source
        /\ calm' = (InFlight = {})
        /\ IF identity
           THEN /\ SaveWithTags("canonical_md",
                       File(r, call, call.source, call.source), PassthruTags(call))
                /\ runs' = [runs EXCEPT ![r] = [run EXCEPT !.pc = AfterReps(run)]]
           ELSE /\ runs' = [runs EXCEPT ![r] = [run EXCEPT !.pc = "step"]]
                /\ UNCHANGED <<reps, tags, faults>>
        /\ KeepIndex

\* The step that run r is at, and under which name its product is saved.
NextStep(r) ==
    LET step == Path(r)[runs[r].i + 1]
        isLast == runs[r].i + 1 = Len(Path(r)) IN
    [name |-> RepNameOf(step, isLast), indexed |-> step.indexed /\ ~isLast,
     isLast |-> isLast]

\* The file of the product.
Product(r, id) == File(r, runs[r].call, runs[r].content, id)

\* Mutant of StepTags: the input is read from storage when the tags are set.
StepTagsStored(r, id) ==
    [input |-> IF runs[r].i = 0 THEN source
               ELSE reps[RepNameOf(Path(r)[runs[r].i], FALSE)].id,
     content |-> id]

\* The input of a later step that equals the source has no hash.
StepTags(r, id) ==
    [input |-> IF runs[r].i > 0 /\ runs[r].content = runs[r].call.source
               THEN NoHash ELSE runs[r].content,
     content |-> id]

\* A transform returns: the product is saved with its tags, and becomes the
\* input of the next step.  The registered steps raise until a converter is
\* put in their place.
StepDone(r) ==
    /\ At(r, "step")
    /\ LET step == NextStep(r) IN
       \E id \in Products :
          LET run == [runs[r] EXCEPT
                  !.i = @ + 1, !.content = id,
                  !.pending = IF step.indexed THEN Append(@, << step.name, id >>)
                              ELSE @] IN
          /\ SaveWithTags(step.name, Product(r, id), StepTags(r, id))
          /\ runs' = [runs EXCEPT ![r] =
                [run EXCEPT !.pc = IF step.isLast THEN AfterReps(run) ELSE "step"]]
    /\ KeepIndex /\ Silent
    /\ UNCHANGED <<source, calm>>

\* A transform raises: the call ends, what was saved stays.
StepFails(r) ==
    /\ At(r, "step")
    /\ runs' = [runs EXCEPT ![r].pc = "failed"]
    /\ KeepReps /\ KeepIndex /\ Silent
    /\ UNCHANGED <<faults, calm>>

\* _index_step_output: without text, without an embedding or with a failed
\* write it returns False, which process_entity ignores.
IndexStepOutput(r) ==
    LET next == Head(runs[r].pending)
        run == [runs[r] EXCEPT !.pending = Tail(@)] IN
    /\ At(r, "index")
    /\ parquet' \in {parquet,
                     [parquet EXCEPT ![next[1]] = [id |-> next[2], run |-> r]]}
    /\ runs' = [runs EXCEPT ![r] = [run EXCEPT !.pc = AfterReps(run)]]
    /\ KeepReps /\ Silent
    /\ UNCHANGED <<rows, faults, calm>>

\* The handlers of embedding and index errors: the call still returns.
ReportUnindexed(r) ==
    /\ runs' = [runs EXCEPT ![r].pc = "done"]
    /\ Publish("rep_completed", r)

\* VectorIndexTemplate.build as soon as the vectors are there: the parquet
\* file is written, and read again for the table before the next await.
Embedded(r) ==
    /\ At(r, "embed")
    /\ parquet' = [parquet EXCEPT !["canonical_md"] =
                       [id |-> runs[r].content, run |-> r]]
    /\ runs' = [runs EXCEPT ![r].pc = "sync"]
    /\ KeepReps /\ Silent
    /\ UNCHANGED <<rows, faults, calm>>

\* No chunk is saved; the log line says they are.
EmbedFails(r) ==
    /\ At(r, "embed")
    /\ ReportUnindexed(r)
    /\ KeepReps /\ KeepIndex
    /\ UNCHANGED <<faults, calm>>

\* The executor thread returns: the table has what was read at the write.
SyncIndex(r) ==
    /\ At(r, "sync")
    /\ rows' = [id |-> runs[r].content, run |-> r]
    /\ runs' = [runs EXCEPT ![r].pc = "done"]
    /\ Publish("index_completed", r)
    /\ KeepReps
    /\ UNCHANGED <<parquet, faults, calm>>

\* Mutant of IndexFails: completion is published although the build failed.
IndexFailsCompleted(r) ==
    /\ runs[r].pc \in {"embed", "sync"}
    /\ runs' = [runs EXCEPT ![r].pc = "done"]
    /\ Publish("index_completed", r)
    /\ KeepReps /\ KeepIndex
    /\ UNCHANGED <<faults, calm>>

\* The write raises, or the synchronisation, before or after its delete.
IndexFails(r) ==
    /\ runs[r].pc \in {"embed", "sync"}
    /\ rows' \in (IF At(r, "sync") THEN {rows, NoIndex} ELSE {rows})
    /\ ReportUnindexed(r)
    /\ KeepReps
    /\ UNCHANGED <<parquet, faults, calm>>

\* A file that a restart leaves between save_file and the end of set_rep_tags:
\* it has no attribute yet, or its input only, which is set before its content.
SaveTorn(name, file, t) ==
    /\ reps' = [reps EXCEPT ![name] = file]
    /\ \E input \in {t.input, None} :
          tags' = [tags EXCEPT ![name] = [input |-> input, content |-> None]]

Stopped(rs) ==
    [q \in Runs |-> IF rs[q].pc \in Idle THEN rs[q] ELSE [rs[q] EXCEPT !.pc = "failed"]]

\* The process restarts: calls and history are lost, and what was being written
\* is nothing, the product of a step, or the canonical_md of a call that has
\* just begun.  Bound: it restarts only before a client listens, whose streams
\* it would take with it.
Crash ==
    /\ faults < MaxFaults
    /\ StreamsRest
    /\ faults' = faults + 1
    /\ \/ /\ KeepReps
          /\ runs' = Stopped(runs)
          /\ UNCHANGED calm
       \/ \E r \in Runs, id \in Products :
             /\ At(r, "step")
             /\ SaveTorn(NextStep(r).name, Product(r, id), StepTags(r, id))
             /\ runs' = Stopped(runs)
             /\ UNCHANGED <<source, calm>>
       \/ \E r \in Runs, call \in Uploads \cup Calls :
             /\ Started(r, call)
             /\ call.format = "md"
             /\ source' = call.source
             /\ SaveTorn("canonical_md", File(r, call, call.source, call.source),
                         PassthruTags(call))
             /\ runs' = Stopped([runs EXCEPT ![r] =
                   [NewRun EXCEPT !.pc = "step", !.call = call, !.content = call.source]])
             /\ calm' = (InFlight = {})
    /\ history' = <<>>
    /\ sent' = [t \in TypeSet |-> <<>>]
    /\ KeepIndex
    /\ UNCHANGED <<streams, pos, gone, seen>>

Step(r) ==
    \/ Begin(r) \/ StepDone(r) \/ StepFails(r) \/ IndexStepOutput(r)
    \/ Embedded(r) \/ EmbedFails(r) \/ SyncIndex(r) \/ IndexFails(r)

Bus == ChainsRest /\ BusNext /\ UNCHANGED pipeVars

Next == (\E r \in Runs : Step(r)) \/ Crash \/ Bus

Spec == Init /\ [][Next]_vars /\ BusFairness

-----------------------------------------------------------------------------
FileType == [id : Hashes, input : Hashes, upload : Hashes, run : {0} \cup Runs]
IndexType == [id : Hashes, run : {0} \cup Runs]

TypeOK ==
    /\ BusTypeOK
    /\ source \in Hashes
    /\ reps \in [Reps -> FileType]
    /\ tags \in [Reps -> [input : Hashes, content : Hashes]]
    /\ parquet \in [Reps -> IndexType] /\ rows \in IndexType
    /\ DOMAIN runs = Runs
    /\ \A r \in Runs :
        /\ runs[r].pc \in {"new", "step", "index", "embed", "sync",
                           "done", "failed"}
        /\ runs[r].content \in Hashes
        /\ (At(r, "index") <=> r \in InFlight /\ runs[r].pending # <<>> /\ ~At(r, "step"))
    /\ faults \in 0..MaxFaults
    /\ calm \in BOOLEAN

\* Each hash among the tags is missing or true of the file as it is, through
\* overlapping calls, failed steps, attributes that could not be set and
\* restarts in the middle of a save: content_hash is that of the file, and
\* input_content_hash that of what the file was made from, or empty where this
\* was again what had been uploaded.  So a chain of equal hashes down from the
\* source means up to date (_execute_step_pipeline, save_file, set_rep_tags).
TagsTellOrigin ==
    \A r \in Reps :
        /\ tags[r].content \in {None, reps[r].id}
        /\ \/ tags[r].input \in {None, reps[r].input}
           \/ tags[r].input = NoHash /\ reps[r].input = reps[r].upload

\* What the latest event tells an operator of an entity whose calls did not
\* overlap: index_completed, that canonical_md, the parquet file and the table
\* are all of that call; rep_completed, that canonical_md is and the table is
\* not; a lone entity_created, that neither index is, because the call failed
\* or because its text is empty.  The index then keeps what an earlier call put
\* there (process_entity).
EventsTellTruth ==
    InFlight = {} /\ calm /\ history # <<>> =>
        LET e == Last(history)
            r == e.run
            text == reps["canonical_md"]
            indexed == parquet["canonical_md"].run = r IN
        CASE e.type = "index_completed" -> text.run = r /\ indexed /\ rows.run = r
          [] e.type = "rep_completed" -> text.run = r /\ rows.run # r
          [] e.type = "entity_created" ->
                /\ ~indexed /\ rows.run # r
                /\ At(r, "failed") \/ (text.run = r /\ text.id = Empty)

\* "when a rep goes stale, its corresponding index entries are also marked
\* stale and rebuilt" (lineage.py:6-7): after a call that reported no failure
\* the table has the chunks of canonical_md, or none.  Violated: an empty text
\* ends the call before the index is touched (process_entity).
IndexFollowsText ==
    InFlight = {} /\ calm /\ history # <<>> =>
        \/ Last(history).type = "rep_completed"
        \/ At(Last(history).run, "failed")
        \/ rows.id \in {None, reps["canonical_md"].id}
=============================================================================
