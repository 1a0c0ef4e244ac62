---------------------------- MODULE PipelineProofs ----------------------------
(***************************************************************************)
(* Proofs about Pipeline, for any calls, any products of the steps, any    *)
(* number of calls, of clients, of restarts and of attributes that cannot  *)
(* be set.                                                                 *)
(*                                                                         *)
(* The argument.  Tags: whatever part of a save takes effect, the file and *)
(* the attributes it has are those of one call, because a save never keeps *)
(* an attribute of the file before.  Events: the calls begin in their      *)
(* order; if the latest met no other one, nobody else is under way, and    *)
(* the last event in the history is its own.  No index has anything of a   *)
(* call that has not begun, and only the latest call adds to it.  The bus  *)
(* keeps its own invariant whoever publishes.                              *)
(***************************************************************************)
EXTENDS Pipeline, EventBusProofs

Inputs == Uploads \cup Calls
Converted == {"docx", "pdf", "png"}
Between == {"rep_pdf", "rep_png"}
Pcs == {"new", "step", "index", "embed", "sync", "done", "failed"}
TagType == [input : Hashes, content : Hashes]

RunRecord ==
    [pc : Pcs, call : Inputs \cup {NoCall}, i : Nat, content : Hashes,
     pending : Seq(Between \X Hashes)]

Shape ==
    /\ source \in Hashes
    /\ reps \in [Reps -> FileType]
    /\ tags \in [Reps -> TagType]
    /\ parquet \in [Reps -> IndexType] /\ rows \in IndexType
    /\ runs \in [Runs -> RunRecord]
    /\ faults \in 0..MaxFaults
    /\ calm \in BOOLEAN

Chain(format) == ResolvePipeline(BuiltinSteps, format, "md")[1]

\* How far a call is that has begun.
Progress(run) ==
    /\ run.call \in Inputs
    /\ run.pc = "step" => /\ run.call.format \in Converted
                          /\ run.i < Len(Chain(run.call.format))
    /\ run.pc = "index" => run.pending # <<>>
    /\ run.pc \in {"embed", "sync"} => run.pending = <<>>

InProgress == \A r \in Runs : runs[r].pc # "new" => Progress(runs[r])

\* The index has nothing of a call that has not begun.
IndexOfBegun ==
    \A r \in Runs :
        parquet["canonical_md"].run = r \/ rows.run = r => runs[r].pc # "new"

\* The calls begin in their order.
Prefix ==
    \A q, r \in Runs : q < r /\ runs[r].pc # "new" => runs[q].pc # "new"

Latest(r) ==
    /\ r \in Runs /\ runs[r].pc # "new"
    /\ \A q \in Runs : q > r => runs[q].pc = "new"

\* Only the latest call may be under way if it met no other one.
CalmIsAlone == calm => \A r \in InFlight : Latest(r)

\* A call under way was announced since the process started.
FlightIsTold == InFlight # {} => history # <<>>

\* What holds of call r that was announced and has published nothing since.
Announced(r) ==
    /\ rows.run # r
    /\ parquet["canonical_md"].run = r <=> runs[r].pc = "sync"
    /\ runs[r].pc \in {"index", "embed", "sync", "done"} =>
           /\ reps["canonical_md"].run = r
           /\ reps["canonical_md"].id = runs[r].content
    /\ runs[r].pc = "done" => runs[r].content = Empty

\* What the latest event says about the call that published it, at any moment.
LastEventFits ==
    calm /\ history # <<>> =>
        LET e == Last(history)
            r == e.run IN
        /\ Latest(r)
        /\ e.type = "entity_created" => Announced(r)
        /\ e.type # "entity_created" =>
              r \notin InFlight /\ reps["canonical_md"].run = r
        /\ e.type = "rep_completed" => rows.run # r
        /\ e.type = "index_completed" =>
              parquet["canonical_md"].run = r /\ rows.run = r

\* The inductive invariant.
PipeInv ==
    /\ Shape
    /\ InProgress
    /\ TagsTellOrigin
    /\ IndexOfBegun
    /\ Prefix
    /\ CalmIsAlone
    /\ FlightIsTold
    /\ LastEventFits

-----------------------------------------------------------------------------
(* Records of calls.                                                       *)

LEMMA RunsNat == Runs \subseteq Nat \ {0} /\ MaxRuns \in Nat
  BY PipelineAssumption DEF Runs

LEMMA InputShape ==
    ASSUME NEW c \in Inputs
    PROVE  c.format \in {"md"} \cup Converted /\ c.source \in Hashes
  BY PipelineAssumption DEF Inputs, Converted, Hashes

LEMMA ChainShape ==
    ASSUME NEW f \in Converted
    PROVE  Len(Chain(f)) \in Nat \ {0}
  BY BuiltinChains DEF Converted, Chain

LEMMA RunFields ==
    ASSUME NEW run \in RunRecord
    PROVE  /\ run.pc \in Pcs /\ run.call \in Inputs \cup {NoCall} /\ run.i \in Nat
           /\ run.content \in Hashes /\ run.pending \in Seq(Between \X Hashes)
           /\ run = [pc |-> run.pc, call |-> run.call, i |-> run.i,
                     content |-> run.content, pending |-> run.pending]
  BY DEF RunRecord

\* A record of a call from its fields.
LEMMA RunOf ==
    ASSUME NEW p \in Pcs, NEW call \in Inputs \cup {NoCall}, NEW n \in Nat,
           NEW c \in Hashes, NEW q \in Seq(Between \X Hashes)
    PROVE  [pc |-> p, call |-> call, i |-> n, content |-> c, pending |-> q]
             \in RunRecord
  BY DEF RunRecord

LEMMA SetPc ==
    ASSUME NEW run \in RunRecord, NEW p \in Pcs
    PROVE  \E new \in RunRecord :
              /\ new = [run EXCEPT !.pc = p]
              /\ new.pc = p /\ new.call = run.call /\ new.i = run.i
              /\ new.content = run.content /\ new.pending = run.pending
<1> DEFINE new == [pc |-> p, call |-> run.call, i |-> run.i, content |-> run.content,
                   pending |-> run.pending]
<1>1. /\ run.pc \in Pcs /\ run.call \in Inputs \cup {NoCall} /\ run.i \in Nat
      /\ run.content \in Hashes /\ run.pending \in Seq(Between \X Hashes)
  BY RunFields
<1>2. new \in RunRecord
  BY <1>1, RunOf
<1>3. /\ new.pc = p /\ new.call = run.call /\ new.i = run.i
      /\ new.content = run.content /\ new.pending = run.pending
  OBVIOUS
<1>4. run = [pc |-> run.pc, call |-> run.call, i |-> run.i,
             content |-> run.content, pending |-> run.pending]
  BY RunFields
<1>5. ASSUME NEW s, s = [run EXCEPT !.pc = p] PROVE s = new
  BY <1>4, <1>5, Zenon
<1>6. new = [run EXCEPT !.pc = p]
  BY <1>5, Zenon
<1> HIDE DEF new
<1> QED
  BY <1>2, <1>3, <1>6, Zenon

LEMMA SetPending ==
    ASSUME NEW run \in RunRecord, NEW q \in Seq(Between \X Hashes)
    PROVE  \E new \in RunRecord :
              /\ new = [run EXCEPT !.pending = q]
              /\ new.pc = run.pc /\ new.call = run.call /\ new.i = run.i
              /\ new.content = run.content /\ new.pending = q
<1> DEFINE new == [pc |-> run.pc, call |-> run.call, i |-> run.i, content |-> run.content,
                   pending |-> q]
<1>1. /\ run.pc \in Pcs /\ run.call \in Inputs \cup {NoCall} /\ run.i \in Nat
      /\ run.content \in Hashes /\ run.pending \in Seq(Between \X Hashes)
  BY RunFields
<1>2. new \in RunRecord
  BY <1>1, RunOf
<1>3. /\ new.pc = run.pc /\ new.call = run.call /\ new.i = run.i
      /\ new.content = run.content /\ new.pending = q
  OBVIOUS
<1>4. run = [pc |-> run.pc, call |-> run.call, i |-> run.i,
             content |-> run.content, pending |-> run.pending]
  BY RunFields
<1>5. ASSUME NEW s, s = [run EXCEPT !.pending = q] PROVE s = new
  BY <1>4, <1>5, Zenon
<1>6. new = [run EXCEPT !.pending = q]
  BY <1>5, Zenon
<1> HIDE DEF new
<1> QED
  BY <1>2, <1>3, <1>6, Zenon

LEMMA SetProduct ==
    ASSUME NEW run \in RunRecord, NEW c \in Hashes,
           NEW q \in Seq(Between \X Hashes)
    PROVE  \E new \in RunRecord :
              /\ new = [run EXCEPT !.i = run.i + 1, !.content = c, !.pending = q]
              /\ new.pc = run.pc /\ new.call = run.call /\ new.i = run.i + 1
              /\ new.content = c /\ new.pending = q
<1> DEFINE new == [pc |-> run.pc, call |-> run.call, i |-> run.i + 1, content |-> c,
                   pending |-> q]
<1>1. /\ run.pc \in Pcs /\ run.call \in Inputs \cup {NoCall} /\ run.i + 1 \in Nat
      /\ run.content \in Hashes /\ run.pending \in Seq(Between \X Hashes)
  BY RunFields
<1>2. new \in RunRecord
  BY <1>1, RunOf
<1>3. /\ new.pc = run.pc /\ new.call = run.call /\ new.i = run.i + 1
      /\ new.content = c /\ new.pending = q
  OBVIOUS
<1>4. run = [pc |-> run.pc, call |-> run.call, i |-> run.i,
             content |-> run.content, pending |-> run.pending]
  BY RunFields
<1>5. ASSUME NEW s, s = [run EXCEPT !.i = run.i + 1, !.content = c, !.pending = q] PROVE s = new
  BY <1>4, <1>5, Zenon
<1>6. new = [run EXCEPT !.i = run.i + 1, !.content = c, !.pending = q]
  BY <1>5, Zenon
<1> HIDE DEF new
<1> QED
  BY <1>2, <1>3, <1>6, Zenon

LEMMA SetCall ==
    ASSUME NEW run \in RunRecord, NEW c \in Inputs, NEW d \in Hashes
    PROVE  \E new \in RunRecord :
              /\ new = [run EXCEPT !.call = c, !.content = d]
              /\ new.pc = run.pc /\ new.call = c /\ new.i = run.i
              /\ new.content = d /\ new.pending = run.pending
<1> DEFINE new == [pc |-> run.pc, call |-> c, i |-> run.i, content |-> d,
                   pending |-> run.pending]
<1>1. /\ run.pc \in Pcs /\ run.call \in Inputs \cup {NoCall} /\ run.i \in Nat
      /\ run.content \in Hashes /\ run.pending \in Seq(Between \X Hashes)
  BY RunFields
<1>2. new \in RunRecord
  BY <1>1, RunOf
<1>3. /\ new.pc = run.pc /\ new.call = c /\ new.i = run.i
      /\ new.content = d /\ new.pending = run.pending
  OBVIOUS
<1>4. run = [pc |-> run.pc, call |-> run.call, i |-> run.i,
             content |-> run.content, pending |-> run.pending]
  BY RunFields
<1>5. ASSUME NEW s, s = [run EXCEPT !.call = c, !.content = d] PROVE s = new
  BY <1>4, <1>5, Zenon
<1>6. new = [run EXCEPT !.call = c, !.content = d]
  BY <1>5, Zenon
<1> HIDE DEF new
<1> QED
  BY <1>2, <1>3, <1>6, Zenon

LEMMA NewRunShape ==
    /\ NewRun \in RunRecord
    /\ NewRun.pc = "new" /\ NewRun.i = 0 /\ NewRun.pending = <<>>
<1>1. "new" \in Pcs /\ NoCall \in Inputs \cup {NoCall} /\ 0 \in Nat
  BY DEF Pcs
<1>2. None \in Hashes
  BY DEF Hashes
<1>3. <<>> \in Seq(Between \X Hashes)
  OBVIOUS
<1>4. NewRun \in RunRecord
  BY <1>1, <1>2, <1>3, RunOf DEF NewRun
<1> QED
  BY <1>4 DEF NewRun

-----------------------------------------------------------------------------
(* Saves.                                                                  *)

\* A save that took effect, with all the attributes or with some.
Saved(name, file, t) ==
    /\ reps' = [reps EXCEPT ![name] = file]
    /\ \E input \in {t.input, None}, content \in {t.content, None} :
          tags' = [tags EXCEPT ![name] = [input |-> input, content |-> content]]

\* The attributes that are to be set are true of the file.
Tells(file, t) ==
    /\ t.content = file.id
    /\ \/ t.input = file.input
       \/ t.input = NoHash /\ file.input = file.upload

LEMMA TagsShape ==
    ASSUME NEW i \in Hashes, NEW c \in Hashes
    PROVE  /\ [input |-> i, content |-> c] \in TagType
           /\ [input |-> i, content |-> c].input = i
           /\ [input |-> i, content |-> c].content = c
  BY DEF TagType

LEMMA FileShape ==
    ASSUME NEW r \in Runs, NEW call \in Inputs, NEW i \in Hashes, NEW c \in Hashes
    PROVE  LET file == File(r, call, i, c) IN
           /\ file \in FileType
           /\ file.id = c /\ file.input = i /\ file.upload = call.source
           /\ file.run = r
<1>1. call.source \in Hashes
  BY InputShape
<1> QED
  BY <1>1 DEF File, FileType

LEMMA SaveTells ==
    ASSUME Shape, TagsTellOrigin, NEW name \in Reps, NEW file \in FileType,
           NEW t \in TagType, Tells(file, t), Saved(name, file, t)
    PROVE  /\ reps' \in [Reps -> FileType] /\ tags' \in [Reps -> TagType]
           /\ TagsTellOrigin'
           /\ reps'[name] = file
           /\ \A n \in Reps \ {name} : reps'[n] = reps[n]
<1> PICK input \in {t.input, None}, content \in {t.content, None} :
        tags' = [tags EXCEPT ![name] = [input |-> input, content |-> content]]
  BY DEF Saved
<1> DEFINE new == [input |-> input, content |-> content]
<1>1. input \in Hashes /\ content \in Hashes
  BY DEF TagType, Hashes
<1>2. new \in TagType /\ new.input = input /\ new.content = content
  BY <1>1, TagsShape
<1>3. tags' = [tags EXCEPT ![name] = new] /\ reps' = [reps EXCEPT ![name] = file]
  BY DEF Saved
<1> HIDE DEF new
<1>4. /\ reps' \in [Reps -> FileType] /\ tags' \in [Reps -> TagType]
      /\ reps'[name] = file /\ tags'[name] = new
      /\ \A n \in Reps \ {name} : reps'[n] = reps[n] /\ tags'[n] = tags[n]
  BY <1>2, <1>3 DEF Shape
<1>5. TagsTellOrigin'
  <2> SUFFICES ASSUME NEW n \in Reps
               PROVE  /\ tags'[n].content \in {None, reps'[n].id}
                      /\ \/ tags'[n].input \in {None, reps'[n].input}
                         \/ /\ tags'[n].input = NoHash
                            /\ reps'[n].input = reps'[n].upload
    BY DEF TagsTellOrigin
  <2>1. CASE n = name
    BY <1>2, <1>4, <2>1 DEF Tells
  <2>2. CASE n # name
    BY <1>4, <2>2 DEF TagsTellOrigin
  <2> QED
    BY <2>1, <2>2
<1> QED
  BY <1>4, <1>5

LEMMA SaveWithTagsSaves ==
    ASSUME Shape, NEW name \in Reps, NEW file \in FileType, NEW t \in TagType,
           SaveWithTags(name, file, t)
    PROVE  Saved(name, file, t) /\ faults' \in 0..MaxFaults
<1> PICK input \in {t.input, None}, content \in {t.content, None} :
        /\ reps' = [reps EXCEPT ![name] = file]
        /\ tags' = [tags EXCEPT ![name] = [input |-> input, content |-> content]]
        /\ faults' = faults + (IF input = t.input /\ content = t.content
                               THEN 0 ELSE 1)
        /\ faults' <= MaxFaults
  BY DEF SaveWithTags
<1>1. Saved(name, file, t)
  BY DEF Saved
<1>2. faults \in 0..MaxFaults /\ MaxFaults \in Nat
  BY PipelineAssumption DEF Shape
<1>3. faults' = faults \/ faults' = faults + 1
  BY <1>2
<1>4. faults' \in 0..MaxFaults
  BY <1>2, <1>3
<1> QED
  BY <1>1, <1>4

LEMMA SaveTornSaves ==
    ASSUME NEW name, NEW file, NEW t, SaveTorn(name, file, t)
    PROVE  Saved(name, file, t)
  BY DEF SaveTorn, Saved

-----------------------------------------------------------------------------
(* What the steps of a call do.                                            *)

LEMMA Assigned ==
    ASSUME Shape, NEW r \in Runs, NEW new \in RunRecord,
           runs' = [runs EXCEPT ![r] = new]
    PROVE  /\ runs'[r] = new /\ runs' \in [Runs -> RunRecord]
           /\ \A q \in Runs \ {r} : runs'[q] = runs[q]
  BY DEF Shape

\* A call moves on and changes nothing else of its record.
LEMMA MovedTo ==
    ASSUME Shape, NEW r \in Runs, NEW p \in Pcs, runs' = [runs EXCEPT ![r].pc = p]
    PROVE  \E new \in RunRecord :
              /\ runs' = [runs EXCEPT ![r] = new]
              /\ new.pc = p /\ new.call = runs[r].call /\ new.i = runs[r].i
              /\ new.content = runs[r].content /\ new.pending = runs[r].pending
<1>1. runs[r] \in RunRecord
  BY DEF Shape
<1>2. PICK new \in RunRecord :
              /\ new = [runs[r] EXCEPT !.pc = p]
              /\ new.pc = p /\ new.call = runs[r].call /\ new.i = runs[r].i
              /\ new.content = runs[r].content /\ new.pending = runs[r].pending
  BY <1>1, SetPc
<1>3. runs' = [runs EXCEPT ![r] = [runs[r] EXCEPT !.pc = p]]
  BY Zenon
<1>4. runs' = [runs EXCEPT ![r] = new]
  BY <1>2, <1>3, Zenon
<1> QED
  BY <1>2, <1>4, Zenon

LEMMA StartedRun ==
    ASSUME NEW call \in Inputs
    PROVE  \E run \in RunRecord :
              /\ run = [NewRun EXCEPT !.call = call, !.content = call.source]
              /\ run.call = call /\ run.i = 0
              /\ run.content = call.source /\ run.pending = <<>>
<1>1. call.source \in Hashes /\ NewRun \in RunRecord
  BY InputShape, NewRunShape
<1>2. \E run \in RunRecord :
         /\ run = [NewRun EXCEPT !.call = call, !.content = call.source]
         /\ run.pc = NewRun.pc /\ run.call = call /\ run.i = NewRun.i
         /\ run.content = call.source /\ run.pending = NewRun.pending
  BY <1>1, SetCall, Zenon
<1> QED
  BY <1>2, NewRunShape, Zenon

\* The record of a call that a restart stops as it begins.
LEMMA TornRun ==
    ASSUME NEW call \in Inputs
    PROVE  \E new \in RunRecord :
              /\ new = [NewRun EXCEPT !.pc = "step", !.call = call,
                                      !.content = call.source]
              /\ new.pc = "step" /\ new.call = call
<1> DEFINE new == [pc |-> "step", call |-> call, i |-> NewRun.i,
                   content |-> call.source, pending |-> NewRun.pending]
<1>1. /\ "step" \in Pcs /\ call \in Inputs \cup {NoCall} /\ NewRun.i \in Nat
      /\ call.source \in Hashes /\ NewRun.pending \in Seq(Between \X Hashes)
  BY InputShape, NewRunShape, RunFields DEF Pcs
<1>2. new \in RunRecord
  BY <1>1, RunOf
<1>3. new.pc = "step" /\ new.call = call
  OBVIOUS
<1>4. NewRun = [pc |-> NewRun.pc, call |-> NewRun.call, i |-> NewRun.i,
                content |-> NewRun.content, pending |-> NewRun.pending]
  BY NewRunShape, RunFields
<1>5. ASSUME NEW s, s = [NewRun EXCEPT !.pc = "step", !.call = call,
                                       !.content = call.source]
      PROVE  s = new
  BY <1>4, <1>5, Zenon
<1>6. new = [NewRun EXCEPT !.pc = "step", !.call = call, !.content = call.source]
  BY <1>5, Zenon
<1> HIDE DEF new
<1> QED
  BY <1>2, <1>3, <1>6, Zenon

\* process_entity up to its first await.
LEMMA BeginIs ==
    ASSUME Shape, NEW r \in Runs, Begin(r)
    PROVE  \E new \in RunRecord, file \in FileType, t \in TagType :
              /\ runs[r].pc = "new"
              /\ r > 1 => runs[r - 1].pc # "new"
              /\ Publish("entity_created", r)
              /\ source' \in Hashes
              /\ calm' = (InFlight = {})
              /\ runs' = [runs EXCEPT ![r] = new]
              /\ Progress(new) /\ new.pc \in {"step", "embed", "done"}
              /\ new.pc = "done" => new.content = Empty
              /\ Tells(file, t) /\ file.run = r /\ file.id = new.content
              /\ IF new.pc = "step" THEN UNCHANGED <<reps, tags>>
                 ELSE Saved("canonical_md", file, t)
              /\ faults' \in 0..MaxFaults
              /\ UNCHANGED <<parquet, rows>>
<1> PICK call \in Inputs :
        LET run == [NewRun EXCEPT !.call = call, !.content = call.source]
            identity == call.format = "md" IN
        /\ Started(r, call)
        /\ identity \/ StreamsRest
        /\ Publish("entity_created", r)
        /\ source' = call.source
        /\ calm' = (InFlight = {})
        /\ IF identity
           THEN /\ SaveWithTags("canonical_md",
                       File(r, call, call.source, call.source), PassthruTags(call))
                /\ runs' = [runs EXCEPT ![r] = [run EXCEPT !.pc = AfterReps(run)]]
           ELSE /\ runs' = [runs EXCEPT ![r] = [run EXCEPT !.pc = "step"]]
                /\ UNCHANGED <<reps, tags, faults>>
        /\ KeepIndex
  BY Zenon DEF Begin, Inputs
<1>1. /\ call.format \in {"md"} \cup Converted /\ call.source \in Hashes
      /\ "canonical_md" \in Reps /\ "md" \notin Converted
  BY InputShape DEF Converted, Reps
<1>2. PICK run \in RunRecord :
        /\ run = [NewRun EXCEPT !.call = call, !.content = call.source]
        /\ run.call = call /\ run.i = 0
        /\ run.content = call.source /\ run.pending = <<>>
  BY StartedRun, Zenon
<1>3. run.pending = <<>> /\ run.i = 0
  BY <1>2, Zenon
<1> DEFINE file == File(r, call, call.source, call.source)
           t == PassthruTags(call)
<1>4. /\ file \in FileType /\ file.run = r /\ file.id = call.source
      /\ t \in TagType /\ Tells(file, t)
  BY <1>1, FileShape, TagsShape DEF PassthruTags, Tells
<1>5. /\ runs[r].pc = "new" /\ (r > 1 => runs[r - 1].pc # "new")
      /\ Publish("entity_created", r)
      /\ source' = call.source
      /\ calm' = (InFlight = {})
      /\ UNCHANGED <<parquet, rows>>
  BY DEF Started, At, KeepIndex
<1>6. CASE call.format = "md"
  <2> DEFINE pc == AfterReps(run)
  <2>1. /\ SaveWithTags("canonical_md", file, t)
        /\ runs' = [runs EXCEPT ![r] = [run EXCEPT !.pc = pc]]
    BY <1>2, <1>6, Zenon
  <2>2. /\ pc \in {"embed", "done"} /\ (pc = "done" => run.content = Empty)
        /\ pc \in Pcs
    BY <1>3 DEF AfterReps, Pcs
  <2> HIDE DEF pc, file, t
  <2>3. PICK new \in RunRecord :
            /\ new = [run EXCEPT !.pc = pc]
            /\ new.pc = pc /\ new.call = run.call /\ new.i = run.i
            /\ new.content = run.content /\ new.pending = run.pending
    BY <2>2, SetPc
  <2>4. runs' = [runs EXCEPT ![r] = new]
    BY <2>1, <2>3, Zenon
  <2>5. /\ new.pc \in {"embed", "done"} /\ (new.pc = "done" => new.content = Empty)
        /\ new.call = call /\ new.pending = <<>> /\ new.content = call.source
    BY <1>2, <1>3, <2>2, <2>3, Zenon
  <2>6. Progress(new)
    BY <2>5 DEF Progress
  <2>7. Saved("canonical_md", file, t) /\ faults' \in 0..MaxFaults
    BY <1>1, <1>4, <2>1, SaveWithTagsSaves
  <2>8. /\ new.pc # "step" /\ new.pc \in {"step", "embed", "done"}
        /\ file.id = new.content /\ source' \in Hashes
    BY <1>1, <1>4, <1>5, <2>5
  <2> QED
    BY <1>4, <1>5, <2>4, <2>5, <2>6, <2>7, <2>8, Zenon
<1>7. CASE call.format # "md"
  <2>1. /\ runs' = [runs EXCEPT ![r] = [run EXCEPT !.pc = "step"]]
        /\ UNCHANGED <<reps, tags, faults>>
    BY <1>2, <1>7, Zenon
  <2> HIDE DEF file, t
  <2>2. "step" \in Pcs
    BY DEF Pcs
  <2>3. PICK new \in RunRecord :
            /\ new = [run EXCEPT !.pc = "step"]
            /\ new.pc = "step" /\ new.call = run.call /\ new.i = run.i
            /\ new.content = run.content /\ new.pending = run.pending
    BY <2>2, SetPc
  <2>4. runs' = [runs EXCEPT ![r] = new]
    BY <2>1, <2>3, Zenon
  <2>5. /\ new.pc = "step" /\ new.call = call /\ new.i = 0
        /\ new.pending = <<>> /\ new.content = call.source
    BY <1>2, <1>3, <2>3, Zenon
  <2>6. call.format \in Converted /\ 0 < Len(Chain(call.format))
    BY <1>1, <1>7, ChainShape
  <2>7. Progress(new)
    BY <2>5, <2>6 DEF Progress
  <2>8. /\ new.pc # "done" /\ new.pc \in {"step", "embed", "done"}
        /\ file.id = new.content /\ source' \in Hashes
    BY <1>1, <1>4, <1>5, <2>5
  <2>9. faults' \in 0..MaxFaults /\ UNCHANGED <<reps, tags>>
    BY <2>1 DEF Shape
  <2> QED
    BY <1>4, <1>5, <2>4, <2>5, <2>7, <2>8, <2>9, Zenon
<1> QED
  BY <1>6, <1>7

LEMMA AfterRepsCases ==
    ASSUME NEW run
    PROVE  /\ AfterReps(run) \in {"index", "embed", "done"}
           /\ AfterReps(run) = "index" => run.pending # <<>>
           /\ AfterReps(run) # "index" => run.pending = <<>>
           /\ AfterReps(run) = "done" => run.content = Empty
  BY DEF AfterReps

\* A product of the step that call r is at, as it is to be saved.
LEMMA ProductShape ==
    ASSUME Shape, InProgress, NEW r \in Runs, runs[r].pc = "step",
           NEW id \in Products
    PROVE  /\ id \in Hashes
           /\ NextStep(r).name \in Reps
           /\ NextStep(r).isLast => NextStep(r).name = "canonical_md"
           /\ NextStep(r).indexed => NextStep(r).name \in Between
           /\ ~NextStep(r).isLast =>
                  runs[r].i + 1 < Len(Chain(runs[r].call.format))
           /\ Product(r, id) \in FileType /\ StepTags(r, id) \in TagType
           /\ Tells(Product(r, id), StepTags(r, id))
           /\ Product(r, id).run = r /\ Product(r, id).id = id
<1> DEFINE run == runs[r]
<1>1. /\ run \in RunRecord /\ Progress(run) /\ run.i \in Nat /\ run.call \in Inputs
      /\ run.content \in Hashes /\ run.i < Len(Chain(run.call.format))
      /\ run.call.format \in Converted
  BY RunFields DEF Shape, InProgress, Progress
<1>2. id \in Hashes /\ NoHash \in Hashes
  BY DEF Hashes
<1>3. /\ NextStep(r).name = RepNameOf(Path(r)[run.i + 1], run.i + 1 = Len(Path(r)))
      /\ NextStep(r).isLast <=> run.i + 1 = Len(Path(r))
      /\ NextStep(r).indexed =>
             run.i + 1 # Len(Path(r))
  BY DEF NextStep
<1>4. /\ NextStep(r).name \in Reps
      /\ NextStep(r).isLast => NextStep(r).name = "canonical_md"
      /\ NextStep(r).indexed => NextStep(r).name \in Between
  BY <1>3 DEF RepNameOf, Reps, Between
<1>5. Path(r) = Chain(run.call.format) /\ Len(Chain(run.call.format)) \in Nat
  BY <1>1, ChainShape DEF Path, Chain
<1>6. ~NextStep(r).isLast => run.i + 1 < Len(Chain(run.call.format))
  BY <1>1, <1>3, <1>5
<1>7. /\ Product(r, id) \in FileType
      /\ Product(r, id).id = id /\ Product(r, id).input = run.content
      /\ Product(r, id).upload = run.call.source /\ Product(r, id).run = r
  BY <1>1, <1>2, FileShape DEF Product
<1>8. /\ StepTags(r, id) \in TagType /\ StepTags(r, id).content = id
      /\ \/ StepTags(r, id).input = run.content
         \/ /\ StepTags(r, id).input = NoHash
            /\ run.content = run.call.source
  BY <1>1, <1>2, TagsShape DEF StepTags
<1> HIDE DEF run
<1>9. Tells(Product(r, id), StepTags(r, id))
  BY <1>7, <1>8 DEF Tells
<1> QED
  BY <1>2, <1>4, <1>6, <1>7, <1>8, <1>9 DEF run

\* A transform returns.
LEMMA StepIs ==
    ASSUME Shape, InProgress, NEW r \in Runs, StepDone(r)
    PROVE  \E new \in RunRecord, name \in Reps, file \in FileType, t \in TagType :
              /\ runs[r].pc = "step"
              /\ runs' = [runs EXCEPT ![r] = new]
              /\ Progress(new) /\ new.pc \in {"step", "index", "embed", "done"}
              /\ new.pc = "done" => new.content = Empty
              /\ new.pc # "step" => name = "canonical_md"
              /\ Tells(file, t) /\ file.run = r /\ file.id = new.content
              /\ Saved(name, file, t)
              /\ faults' \in 0..MaxFaults
              /\ UNCHANGED <<source, parquet, rows, calm>>
              /\ UNCHANGED busVars
<1> DEFINE step == NextStep(r)
<1>0. PICK id \in Products :
        LET run == [runs[r] EXCEPT
                !.i = @ + 1, !.content = id,
                !.pending = IF step.indexed THEN Append(@, << step.name, id >>)
                            ELSE @] IN
        /\ SaveWithTags(step.name, Product(r, id), StepTags(r, id))
        /\ runs' = [runs EXCEPT ![r] =
              [run EXCEPT !.pc = IF step.isLast THEN AfterReps(run) ELSE "step"]]
  BY Zenon DEF StepDone
<1>1. /\ runs[r].pc = "step" /\ UNCHANGED <<source, parquet, rows, calm>>
      /\ UNCHANGED busVars
  BY DEF StepDone, At, KeepIndex, Silent
<1>2. /\ id \in Hashes
      /\ step.name \in Reps
      /\ step.isLast => step.name = "canonical_md"
      /\ step.indexed => step.name \in Between
      /\ ~step.isLast => runs[r].i + 1 < Len(Chain(runs[r].call.format))
      /\ Product(r, id) \in FileType /\ StepTags(r, id) \in TagType
      /\ Tells(Product(r, id), StepTags(r, id))
      /\ Product(r, id).run = r /\ Product(r, id).id = id
  BY <1>1, ProductShape
<1>3. /\ runs[r] \in RunRecord /\ runs[r].i + 1 \in Nat /\ runs[r].call \in Inputs
      /\ runs[r].pending \in Seq(Between \X Hashes)
      /\ runs[r].call.format \in Converted
  BY <1>1, RunFields DEF Shape, InProgress, Progress
<1> DEFINE q == IF step.indexed THEN Append(runs[r].pending, << step.name, id >>)
                ELSE runs[r].pending
<1> HIDE DEF step
<1>4. q \in Seq(Between \X Hashes)
  <2>1. CASE step.indexed
    <3>1. << step.name, id >> \in Between \X Hashes
      BY <1>2, <2>1
    <3> QED
      BY <1>3, <2>1, <3>1, AppendProperties
  <2>2. CASE ~step.indexed
    BY <1>3, <2>2
  <2> QED
    BY <2>1, <2>2
<1> HIDE DEF q
<1>5. PICK run \in RunRecord :
        /\ run = [runs[r] EXCEPT !.i = runs[r].i + 1, !.content = id, !.pending = q]
        /\ run.pc = runs[r].pc /\ run.call = runs[r].call /\ run.i = runs[r].i + 1
        /\ run.content = id /\ run.pending = q
  <2>1. runs[r] \in RunRecord /\ id \in Hashes
    BY <1>2, <1>3
  <2>2. \A s \in RunRecord : \A c \in Hashes : \A p \in Seq(Between \X Hashes) :
           \E run \in RunRecord :
              /\ run = [s EXCEPT !.i = s.i + 1, !.content = c, !.pending = p]
              /\ run.pc = s.pc /\ run.call = s.call /\ run.i = s.i + 1
              /\ run.content = c /\ run.pending = p
    BY SetProduct, Zenon
  <2>3. \A p \in Seq(Between \X Hashes) :
           \E run \in RunRecord :
              /\ run = [runs[r] EXCEPT !.i = runs[r].i + 1, !.content = id, !.pending = p]
              /\ run.pc = runs[r].pc /\ run.call = runs[r].call /\ run.i = runs[r].i + 1
              /\ run.content = id /\ run.pending = p
    BY <2>1, <2>2, Zenon
  <2> QED
    BY <1>4, <2>3, Zenon
<1> DEFINE pc == IF step.isLast THEN AfterReps(run) ELSE "step"
<1>6. /\ SaveWithTags(step.name, Product(r, id), StepTags(r, id))
      /\ runs' = [runs EXCEPT ![r] = [run EXCEPT !.pc = pc]]
  BY <1>0, <1>5, Zenon DEF q
<1>7. /\ pc \in {"step", "index", "embed", "done"} /\ pc \in Pcs
      /\ pc = "step" => ~step.isLast
      /\ pc # "step" => step.name = "canonical_md"
      /\ pc = "index" => run.pending # <<>>
      /\ pc = "embed" => run.pending = <<>>
      /\ pc = "done" => run.content = Empty
  BY <1>2, AfterRepsCases DEF Pcs
<1> HIDE DEF pc
<1>8. PICK new \in RunRecord :
        /\ new = [run EXCEPT !.pc = pc]
        /\ new.pc = pc /\ new.call = run.call /\ new.i = run.i
        /\ new.content = run.content /\ new.pending = run.pending
  BY <1>7, SetPc
<1>9. runs' = [runs EXCEPT ![r] = new]
  BY <1>6, <1>8, Zenon
<1>10. /\ new.pc = pc /\ new.call = runs[r].call /\ new.i = runs[r].i + 1
       /\ new.content = id /\ new.pending = run.pending /\ run.content = id
  BY <1>5, <1>8, Zenon
<1>11. Progress(new)
  BY <1>2, <1>3, <1>7, <1>10 DEF Progress
<1>12. /\ Saved(step.name, Product(r, id), StepTags(r, id))
       /\ faults' \in 0..MaxFaults
  BY <1>2, <1>6, SaveWithTagsSaves
<1>13. /\ new.pc \in {"step", "index", "embed", "done"}
       /\ new.pc = "done" => new.content = Empty
       /\ new.pc # "step" => step.name = "canonical_md"
       /\ Product(r, id).id = new.content
  BY <1>2, <1>7, <1>10
<1> QED
  BY <1>1, <1>2, <1>9, <1>11, <1>12, <1>13, Zenon

\* An intermediate representation was indexed, or not.
LEMMA IndexIs ==
    ASSUME Shape, InProgress, NEW r \in Runs, IndexStepOutput(r)
    PROVE  \E new \in RunRecord :
              /\ runs[r].pc = "index"
              /\ runs' = [runs EXCEPT ![r] = new]
              /\ Progress(new) /\ new.pc \in {"index", "embed", "done"}
              /\ new.pc = "done" => new.content = Empty
              /\ new.content = runs[r].content
              /\ parquet' \in [Reps -> IndexType]
              /\ parquet'["canonical_md"] = parquet["canonical_md"]
              /\ UNCHANGED <<source, reps, tags, rows, faults, calm>>
              /\ UNCHANGED busVars
<1> DEFINE q == Tail(runs[r].pending)
           next == Head(runs[r].pending)
<1>1. /\ runs[r] \in RunRecord /\ runs[r].pc = "index" /\ runs[r].call \in Inputs
      /\ runs[r].pending \in Seq(Between \X Hashes) /\ runs[r].pending # <<>>
  BY RunFields DEF Shape, IndexStepOutput, At, InProgress, Progress
<1>2. q \in Seq(Between \X Hashes) /\ next \in Between \X Hashes
  BY <1>1, HeadTailProperties
<1>3. /\ parquet' \in {parquet, [parquet EXCEPT ![next[1]] =
                                    [id |-> next[2], run |-> r]]}
      /\ UNCHANGED <<source, reps, tags, rows, faults, calm>>
      /\ UNCHANGED busVars
  BY DEF IndexStepOutput, KeepReps, Silent
<1>4. runs' = [runs EXCEPT ![r] = [[runs[r] EXCEPT !.pending = q] EXCEPT
                   !.pc = AfterReps([runs[r] EXCEPT !.pending = q])]]
  BY Zenon DEF IndexStepOutput
<1>5. /\ parquet' \in [Reps -> IndexType]
      /\ parquet'["canonical_md"] = parquet["canonical_md"]
  <2>1. next[1] \in Between /\ next[2] \in Hashes
    BY <1>2
  <2>2. next[1] # "canonical_md" /\ next[1] \in Reps
    BY <2>1 DEF Between, Reps
  <2>3. parquet \in [Reps -> IndexType] /\ "canonical_md" \in Reps
    BY DEF Shape, Reps
  <2>4. [id |-> next[2], run |-> r] \in IndexType
    BY <2>1 DEF IndexType
  <2> HIDE DEF next
  <2> QED
    BY <1>3, <2>2, <2>3, <2>4
<1> HIDE DEF q
<1>6. PICK run \in RunRecord :
        /\ run = [runs[r] EXCEPT !.pending = q]
        /\ run.pc = runs[r].pc /\ run.call = runs[r].call /\ run.i = runs[r].i
        /\ run.content = runs[r].content /\ run.pending = q
  BY <1>1, <1>2, SetPending
<1> DEFINE pc == AfterReps(run)
<1>7. /\ pc \in {"index", "embed", "done"} /\ pc \in Pcs
      /\ pc = "index" => run.pending # <<>>
      /\ pc = "embed" => run.pending = <<>>
      /\ pc = "done" => run.content = Empty
  BY AfterRepsCases DEF Pcs
<1>8. runs' = [runs EXCEPT ![r] = [run EXCEPT !.pc = pc]]
  BY <1>4, <1>6, Zenon
<1> HIDE DEF pc
<1>9. PICK new \in RunRecord :
        /\ new = [run EXCEPT !.pc = pc]
        /\ new.pc = pc /\ new.call = run.call /\ new.i = run.i
        /\ new.content = run.content /\ new.pending = run.pending
  BY <1>7, SetPc
<1>10. runs' = [runs EXCEPT ![r] = new]
  BY <1>8, <1>9, Zenon
<1>11. /\ new.pc = pc /\ new.call = runs[r].call
       /\ new.content = runs[r].content /\ new.pending = run.pending
       /\ run.content = runs[r].content
  BY <1>6, <1>9, Zenon
<1>12. Progress(new)
  BY <1>1, <1>7, <1>11 DEF Progress
<1>13. new.pc \in {"index", "embed", "done"} /\ (new.pc = "done" => new.content = Empty)
  BY <1>7, <1>11
<1> QED
  BY <1>1, <1>3, <1>5, <1>10, <1>11, <1>12, <1>13, Zenon

-----------------------------------------------------------------------------
(* What several steps have in common.                                      *)

LEMMA FlightPcs ==
    ASSUME Shape, NEW r \in Runs
    PROVE  /\ r \in InFlight <=> runs[r].pc \in {"step", "index", "embed", "sync"}
           /\ r \notin InFlight <=> runs[r].pc \in {"new", "done", "failed"}
<1>1. runs[r].pc \in Pcs
  BY RunFields DEF Shape
<1> QED
  BY <1>1 DEF InFlight, Idle, Pcs

LEMMA LatestUnique ==
    ASSUME NEW q, NEW r, Latest(q), Latest(r)
    PROVE  q = r
<1>1. q \in Nat /\ r \in Nat
  BY RunsNat DEF Latest
<1>2. ~(q > r) /\ ~(r > q)
  BY DEF Latest
<1> QED
  BY <1>1, <1>2

\* A step that begins no call keeps the order of the calls.
LEMMA OrderKept ==
    ASSUME Prefix, CalmIsAlone, calm' = calm, InFlight' \subseteq InFlight,
           \A q \in Runs : runs'[q].pc = "new" <=> runs[q].pc = "new"
    PROVE  /\ Prefix' /\ CalmIsAlone'
           /\ \A q : Latest(q) => Latest(q)'
<1>1. Prefix'
  BY DEF Prefix
<1>2. \A q : Latest(q) => Latest(q)'
  BY DEF Latest
<1>3. CalmIsAlone'
  BY <1>2 DEF CalmIsAlone
<1> QED
  BY <1>1, <1>2, <1>3

\* The call that begins is the latest.
LEMMA OrderExtended ==
    ASSUME Prefix, NEW r \in Runs, runs[r].pc = "new",
           r > 1 => runs[r - 1].pc # "new", runs'[r].pc # "new",
           \A q \in Runs \ {r} : runs'[q].pc = "new" <=> runs[q].pc = "new"
    PROVE  Prefix' /\ Latest(r)'
<1>1. Prefix'
  <2> SUFFICES ASSUME NEW p \in Runs, NEW q \in Runs, q < p, runs'[p].pc # "new"
               PROVE  runs'[q].pc # "new"
    BY DEF Prefix
  <2>1. CASE p # r
    <3>1. runs[q].pc # "new"
      BY <2>1 DEF Prefix
    <3>2. q # r
      BY <3>1
    <3> QED
      BY <3>1, <3>2
  <2>2. CASE p = r
    <3>1. r > 1 /\ r - 1 \in Runs /\ (q = r - 1 \/ q < r - 1)
      BY <2>2, RunsNat DEF Runs
    <3>2. runs[q].pc # "new" /\ q # r
      BY <3>1 DEF Prefix
    <3> QED
      BY <3>2
  <2> QED
    BY <2>1, <2>2
<1>2. Latest(r)'
  <2>1. \A q \in Runs : q > r => runs[q].pc = "new" /\ q # r
    BY RunsNat DEF Prefix
  <2> QED
    BY <2>1 DEF Latest
<1> QED
  BY <1>1, <1>2

\* The latest event is the announcement of the call that is under way, if it
\* met no other one.
LEMMA Teller ==
    ASSUME Shape, CalmIsAlone, FlightIsTold, LastEventFits, calm,
           NEW r \in Runs, r \in InFlight
    PROVE  /\ history # <<>> /\ Latest(r)
           /\ Last(history).run = r
           /\ Last(history).type = "entity_created"
           /\ Announced(r)
<1>1. history # <<>> /\ Latest(r)
  BY DEF FlightIsTold, CalmIsAlone
<1>2. Last(history).run = r
  BY <1>1, LatestUnique DEF LastEventFits
<1> QED
  BY <1>1, <1>2 DEF LastEventFits

\* What a step of a call under way has to show when nothing is published.
LEMMA SilentFits ==
    ASSUME Shape, CalmIsAlone, FlightIsTold, LastEventFits,
           UNCHANGED <<history, calm>>,
           NEW r \in Runs, r \in InFlight, runs'[r].pc # "new",
           \A q \in Runs \ {r} : runs'[q] = runs[q],
           calm => Announced(r)'
    PROVE  FlightIsTold' /\ LastEventFits'
<1>1. history # <<>>
  BY DEF FlightIsTold
<1>2. FlightIsTold'
  BY <1>1 DEF FlightIsTold
<1>3. LastEventFits'
  <2> SUFFICES ASSUME calm PROVE LastEventFits'
    BY DEF LastEventFits
  <2>1. /\ Latest(r) /\ Last(history).run = r
        /\ Last(history).type = "entity_created"
    BY Teller
  <2>2. Latest(r)'
    BY <2>1 DEF Latest
  <2> QED
    BY <1>1, <2>1, <2>2 DEF LastEventFits
<1> QED
  BY <1>2, <1>3

\* The event that a publication leaves at the end of the history.
LEMMA Told ==
    ASSUME BusInv, NEW t \in TypeSet, NEW r \in Runs, Publish(t, r)
    PROVE  /\ BusInv'
           /\ history' # <<>>
           /\ Last(history').type = t /\ Last(history').run = r
<1> DEFINE e == [type |-> t, run |-> r]
<1>1. r \in Nat
  BY RunsNat
<1>2. e \in Events /\ history \in Seq(Events)
  BY <1>1 DEF Events, BusInv, BusShape
<1>3. history' = Remember(history, e)
  BY DEF Publish
<1> HIDE DEF e
<1>4. history' # <<>> /\ Last(history') = e
  BY <1>2, <1>3, RememberShape
<1> QED
  BY <1>1, <1>4, PublishKeeps DEF e

LEMMA TypeNames ==
    TypeSet = {"entity_created", "rep_completed", "index_completed"}
  BY ThreeTypes DEF Types

LEMMA BusRests ==
    ASSUME BusInv, UNCHANGED busVars
    PROVE  BusInv' /\ UNCHANGED history
  BY DEF busVars, BusInv, BusShape, QueuesSound, StreamsExplained

-----------------------------------------------------------------------------
(* The steps of a call keep the invariant.                                 *)

LEMMA BeginKeeps ==
    ASSUME BusInv, PipeInv, NEW r \in Runs, Begin(r)
    PROVE  BusInv' /\ PipeInv'
<1>0. Shape /\ InProgress /\ TagsTellOrigin /\ IndexOfBegun /\ Prefix
  BY DEF PipeInv
<1>1. PICK new \in RunRecord, file \in FileType, t \in TagType :
        /\ runs[r].pc = "new"
        /\ r > 1 => runs[r - 1].pc # "new"
        /\ Publish("entity_created", r)
        /\ source' \in Hashes
        /\ calm' = (InFlight = {})
        /\ runs' = [runs EXCEPT ![r] = new]
        /\ Progress(new) /\ new.pc \in {"step", "embed", "done"}
        /\ new.pc = "done" => new.content = Empty
        /\ Tells(file, t) /\ file.run = r /\ file.id = new.content
        /\ IF new.pc = "step" THEN UNCHANGED <<reps, tags>>
           ELSE Saved("canonical_md", file, t)
        /\ faults' \in 0..MaxFaults
        /\ UNCHANGED <<parquet, rows>>
  BY <1>0, BeginIs
<1>2. /\ runs'[r] = new /\ runs' \in [Runs -> RunRecord]
      /\ \A q \in Runs \ {r} : runs'[q] = runs[q]
  BY <1>0, <1>1, Assigned
<1>3. /\ reps' \in [Reps -> FileType] /\ tags' \in [Reps -> TagType]
      /\ TagsTellOrigin'
      /\ new.pc # "step" => reps'["canonical_md"] = file
  <2>1. CASE new.pc = "step"
    <3>1. UNCHANGED <<reps, tags>>
      BY <1>1, <2>1
    <3> QED
      BY <1>0, <2>1, <3>1 DEF Shape, TagsTellOrigin
  <2>2. CASE new.pc # "step"
    <3>1. "canonical_md" \in Reps
      BY DEF Reps
    <3> QED
      BY <1>0, <1>1, <2>2, <3>1, SaveTells
  <2> QED
    BY <2>1, <2>2
<1>4. calm' \in BOOLEAN /\ (calm' <=> InFlight = {})
  BY <1>1
<1>5. Shape'
  <2>1. UNCHANGED <<parquet, rows>> /\ source' \in Hashes /\ faults' \in 0..MaxFaults
    BY <1>1
  <2> QED
    BY <1>0, <1>2, <1>3, <1>4, <2>1 DEF Shape
<1>6. InProgress'
  BY <1>0, <1>1, <1>2 DEF InProgress
<1>7. runs'[r].pc \in {"step", "embed", "done"}
  BY <1>1, <1>2
<1>8. IndexOfBegun'
  BY <1>0, <1>1, <1>2, <1>7 DEF IndexOfBegun
<1>9. Prefix' /\ Latest(r)'
  BY <1>0, <1>1, <1>2, <1>7, OrderExtended
<1>10. CalmIsAlone'
  <2> SUFFICES ASSUME InFlight = {}, NEW q \in InFlight' PROVE Latest(q)'
    BY <1>4 DEF CalmIsAlone
  <2>1. q = r
    BY <1>2 DEF InFlight
  <2> QED
    BY <1>9, <2>1
<1>11. /\ BusInv' /\ history' # <<>>
       /\ Last(history').type = "entity_created" /\ Last(history').run = r
  BY <1>1, TypeNames, Told
<1>12. FlightIsTold'
  BY <1>11 DEF FlightIsTold
<1>13. Announced(r)'
  <2>1. rows'.run # r /\ parquet'["canonical_md"].run # r
    BY <1>0, <1>1 DEF IndexOfBegun
  <2>2. runs'[r].pc # "step" => /\ reps'["canonical_md"].run = r
                                /\ reps'["canonical_md"].id = runs'[r].content
    BY <1>1, <1>2, <1>3
  <2>3. runs'[r].pc = "done" => runs'[r].content = Empty
    BY <1>1, <1>2
  <2> QED
    BY <1>7, <2>1, <2>2, <2>3 DEF Announced
<1>14. LastEventFits'
  BY <1>9, <1>11, <1>13 DEF LastEventFits
<1> QED
  BY <1>3, <1>5, <1>6, <1>8, <1>9, <1>10, <1>11, <1>12, <1>14 DEF PipeInv

\* The part of the invariant that a step of a call under way keeps when it
\* adds to the index nothing but its own.
LEMMA CallKeeps ==
    ASSUME PipeInv, NEW r \in Runs, r \in InFlight,
           NEW new \in RunRecord, runs' = [runs EXCEPT ![r] = new],
           new.pc # "new", Progress(new),
           UNCHANGED <<source, calm>>, faults' \in 0..MaxFaults,
           reps' \in [Reps -> FileType], tags' \in [Reps -> TagType],
           TagsTellOrigin',
           parquet' \in [Reps -> IndexType], rows' \in IndexType,
           parquet'["canonical_md"].run \in {parquet["canonical_md"].run, r},
           rows'.run \in {rows.run, r, 0}
    PROVE  /\ Shape' /\ InProgress' /\ IndexOfBegun' /\ Prefix' /\ CalmIsAlone'
           /\ \A q : Latest(q) => Latest(q)'
           /\ runs'[r] = new /\ \A q \in Runs \ {r} : runs'[q] = runs[q]
<1>0. Shape /\ InProgress /\ IndexOfBegun /\ Prefix /\ CalmIsAlone
  BY DEF PipeInv
<1>1. /\ runs'[r] = new /\ runs' \in [Runs -> RunRecord]
      /\ \A q \in Runs \ {r} : runs'[q] = runs[q]
  BY <1>0, Assigned
<1>2. runs[r].pc # "new"
  BY <1>0, FlightPcs
<1>3. Shape'
  BY <1>0, <1>1 DEF Shape
<1>4. InProgress'
  BY <1>0, <1>1 DEF InProgress
<1>5. IndexOfBegun'
  <2> SUFFICES ASSUME NEW q \in Runs,
                      parquet'["canonical_md"].run = q \/ rows'.run = q
               PROVE  runs'[q].pc # "new"
    BY DEF IndexOfBegun
  <2>1. CASE q = r
    BY <1>1, <2>1
  <2>2. CASE q # r
    <3>1. q # 0
      BY RunsNat
    <3> QED
      BY <1>0, <1>1, <2>2, <3>1 DEF IndexOfBegun
  <2> QED
    BY <2>1, <2>2
<1>6. Prefix' /\ CalmIsAlone' /\ \A q : Latest(q) => Latest(q)'
  <2>1. \A q \in Runs : runs'[q].pc = "new" <=> runs[q].pc = "new"
    BY <1>1, <1>2
  <2>2. InFlight' \subseteq InFlight
    BY <1>1 DEF InFlight
  <2> QED
    BY <1>0, <2>1, <2>2, OrderKept
<1> QED
  BY <1>1, <1>3, <1>4, <1>5, <1>6

LEMMA StepDoneKeeps ==
    ASSUME BusInv, PipeInv, NEW r \in Runs, StepDone(r)
    PROVE  BusInv' /\ PipeInv'
<1>0. /\ Shape /\ InProgress /\ TagsTellOrigin
      /\ CalmIsAlone /\ FlightIsTold /\ LastEventFits
  BY DEF PipeInv
<1>1. PICK new \in RunRecord, name \in Reps, file \in FileType, t \in TagType :
        /\ runs[r].pc = "step"
        /\ runs' = [runs EXCEPT ![r] = new]
        /\ Progress(new) /\ new.pc \in {"step", "index", "embed", "done"}
        /\ new.pc = "done" => new.content = Empty
        /\ new.pc # "step" => name = "canonical_md"
        /\ Tells(file, t) /\ file.run = r /\ file.id = new.content
        /\ Saved(name, file, t)
        /\ faults' \in 0..MaxFaults
        /\ UNCHANGED <<source, parquet, rows, calm>>
        /\ UNCHANGED busVars
  BY <1>0, StepIs
<1>2. r \in InFlight
  BY <1>0, <1>1, FlightPcs
<1>3. /\ reps' \in [Reps -> FileType] /\ tags' \in [Reps -> TagType]
      /\ TagsTellOrigin' /\ reps'[name] = file
  BY <1>0, <1>1, SaveTells
<1>4. /\ parquet' \in [Reps -> IndexType] /\ rows' \in IndexType
      /\ parquet' = parquet /\ rows' = rows /\ new.pc # "new"
      /\ UNCHANGED <<source, calm>>
  BY <1>0, <1>1 DEF Shape
<1>5. /\ Shape' /\ InProgress' /\ IndexOfBegun' /\ Prefix' /\ CalmIsAlone'
      /\ runs'[r] = new /\ \A q \in Runs \ {r} : runs'[q] = runs[q]
  BY <1>1, <1>2, <1>3, <1>4, CallKeeps
<1>6. BusInv' /\ UNCHANGED history
  BY <1>1, BusRests
<1>7. ASSUME calm PROVE Announced(r)'
  <2>1. Announced(r)
    BY <1>0, <1>2, <1>7, Teller
  <2>2. rows'.run # r /\ parquet'["canonical_md"].run # r
    BY <1>1, <1>4, <2>1 DEF Announced
  <2>3. runs'[r].pc # "step" => /\ reps'["canonical_md"].run = r
                                /\ reps'["canonical_md"].id = runs'[r].content
    BY <1>1, <1>3, <1>5
  <2>4. /\ runs'[r].pc \in {"step", "index", "embed", "done"}
        /\ runs'[r].pc = "done" => runs'[r].content = Empty
    BY <1>1, <1>5
  <2> QED
    BY <2>2, <2>3, <2>4 DEF Announced
<1>8. FlightIsTold' /\ LastEventFits'
  <2>1. runs'[r].pc # "new"
    BY <1>4, <1>5
  <2> QED
    BY <1>0, <1>2, <1>4, <1>5, <1>6, <1>7, <2>1, SilentFits
<1> QED
  BY <1>3, <1>5, <1>6, <1>8 DEF PipeInv

LEMMA StepFailsKeeps ==
    ASSUME BusInv, PipeInv, NEW r \in Runs, StepFails(r)
    PROVE  BusInv' /\ PipeInv'
<1>0. /\ Shape /\ InProgress /\ TagsTellOrigin
      /\ CalmIsAlone /\ FlightIsTold /\ LastEventFits
  BY DEF PipeInv
<1>1. /\ runs[r].pc = "step" /\ Progress(runs[r])
      /\ runs' = [runs EXCEPT ![r].pc = "failed"]
      /\ UNCHANGED <<source, reps, tags, parquet, rows, faults, calm>>
      /\ UNCHANGED busVars /\ "failed" \in Pcs
  BY <1>0 DEF StepFails, At, KeepReps, KeepIndex, Silent, InProgress, Pcs
<1>2. PICK new \in RunRecord :
        /\ runs' = [runs EXCEPT ![r] = new]
        /\ new.pc = "failed" /\ new.call = runs[r].call /\ new.i = runs[r].i
        /\ new.content = runs[r].content /\ new.pending = runs[r].pending
  BY <1>0, <1>1, MovedTo
<1>3. r \in InFlight
  BY <1>0, <1>1, FlightPcs
<1>4. Progress(new) /\ new.pc # "new"
  BY <1>1, <1>2 DEF Progress
<1>5. /\ reps' \in [Reps -> FileType] /\ tags' \in [Reps -> TagType]
      /\ parquet' \in [Reps -> IndexType] /\ rows' \in IndexType
      /\ parquet' = parquet /\ rows' = rows /\ reps' = reps
      /\ UNCHANGED <<source, calm>> /\ faults' \in 0..MaxFaults
      /\ TagsTellOrigin'
  BY <1>0, <1>1 DEF Shape, TagsTellOrigin
<1>6. /\ Shape' /\ InProgress' /\ IndexOfBegun' /\ Prefix' /\ CalmIsAlone'
      /\ runs'[r] = new /\ \A q \in Runs \ {r} : runs'[q] = runs[q]
  BY <1>2, <1>3, <1>4, <1>5, CallKeeps
<1>7. BusInv' /\ UNCHANGED history
  BY <1>1, BusRests
<1>8. ASSUME calm PROVE Announced(r)'
  <2>1. Announced(r)
    BY <1>0, <1>3, <1>8, Teller
  <2> QED
    BY <1>1, <1>2, <1>5, <1>6, <2>1 DEF Announced
<1>9. FlightIsTold' /\ LastEventFits'
  BY <1>0, <1>3, <1>4, <1>5, <1>6, <1>7, <1>8, SilentFits
<1> QED
  BY <1>5, <1>6, <1>7, <1>9 DEF PipeInv

LEMMA IndexStepKeeps ==
    ASSUME BusInv, PipeInv, NEW r \in Runs, IndexStepOutput(r)
    PROVE  BusInv' /\ PipeInv'
<1>0. /\ Shape /\ InProgress /\ TagsTellOrigin
      /\ CalmIsAlone /\ FlightIsTold /\ LastEventFits
  BY DEF PipeInv
<1>1. PICK new \in RunRecord :
        /\ runs[r].pc = "index"
        /\ runs' = [runs EXCEPT ![r] = new]
        /\ Progress(new) /\ new.pc \in {"index", "embed", "done"}
        /\ new.pc = "done" => new.content = Empty
        /\ new.content = runs[r].content
        /\ parquet' \in [Reps -> IndexType]
        /\ parquet'["canonical_md"] = parquet["canonical_md"]
        /\ UNCHANGED <<source, reps, tags, rows, faults, calm>>
        /\ UNCHANGED busVars
  BY <1>0, IndexIs
<1>2. r \in InFlight
  BY <1>0, <1>1, FlightPcs
<1>3. /\ reps' \in [Reps -> FileType] /\ tags' \in [Reps -> TagType]
      /\ rows' \in IndexType /\ rows' = rows /\ reps' = reps /\ new.pc # "new"
      /\ UNCHANGED <<source, calm>> /\ faults' \in 0..MaxFaults
      /\ TagsTellOrigin'
  BY <1>0, <1>1 DEF Shape, TagsTellOrigin
<1>4. /\ Shape' /\ InProgress' /\ IndexOfBegun' /\ Prefix' /\ CalmIsAlone'
      /\ runs'[r] = new /\ \A q \in Runs \ {r} : runs'[q] = runs[q]
  BY <1>1, <1>2, <1>3, CallKeeps
<1>5. BusInv' /\ UNCHANGED history
  BY <1>1, BusRests
<1>6. ASSUME calm PROVE Announced(r)'
  <2>1. Announced(r)
    BY <1>0, <1>2, <1>6, Teller
  <2> QED
    BY <1>1, <1>3, <1>4, <2>1 DEF Announced
<1>7. FlightIsTold' /\ LastEventFits'
  BY <1>0, <1>2, <1>3, <1>4, <1>5, <1>6, SilentFits
<1> QED
  BY <1>3, <1>4, <1>5, <1>7 DEF PipeInv

LEMMA EmbeddedKeeps ==
    ASSUME BusInv, PipeInv, NEW r \in Runs, Embedded(r)
    PROVE  BusInv' /\ PipeInv'
<1>0. /\ Shape /\ InProgress /\ TagsTellOrigin
      /\ CalmIsAlone /\ FlightIsTold /\ LastEventFits
  BY DEF PipeInv
<1> DEFINE own == [id |-> runs[r].content, run |-> r]
<1>1. /\ runs[r].pc = "embed" /\ Progress(runs[r])
      /\ runs' = [runs EXCEPT ![r].pc = "sync"]
      /\ parquet' = [parquet EXCEPT !["canonical_md"] = own]
      /\ UNCHANGED <<source, reps, tags, rows, faults, calm>>
      /\ UNCHANGED busVars /\ "sync" \in Pcs
  BY <1>0 DEF Embedded, At, KeepReps, Silent, InProgress, Pcs
<1>2. PICK new \in RunRecord :
        /\ runs' = [runs EXCEPT ![r] = new]
        /\ new.pc = "sync" /\ new.call = runs[r].call /\ new.i = runs[r].i
        /\ new.content = runs[r].content /\ new.pending = runs[r].pending
  BY <1>0, <1>1, MovedTo
<1>3. r \in InFlight
  BY <1>0, <1>1, FlightPcs
<1>4. Progress(new) /\ new.pc # "new"
  BY <1>1, <1>2 DEF Progress
<1>5. own \in IndexType /\ own.run = r
  <2>1. runs[r].content \in Hashes
    BY <1>0, RunFields DEF Shape
  <2> QED
    BY <2>1 DEF IndexType
<1> HIDE DEF own
<1>6. /\ reps' \in [Reps -> FileType] /\ tags' \in [Reps -> TagType]
      /\ parquet' \in [Reps -> IndexType] /\ parquet'["canonical_md"].run = r
      /\ rows' \in IndexType /\ rows' = rows /\ reps' = reps
      /\ UNCHANGED <<source, calm>> /\ faults' \in 0..MaxFaults
      /\ TagsTellOrigin'
  BY <1>0, <1>1, <1>5 DEF Shape, TagsTellOrigin, Reps
<1>7. /\ Shape' /\ InProgress' /\ IndexOfBegun' /\ Prefix' /\ CalmIsAlone'
      /\ runs'[r] = new /\ \A q \in Runs \ {r} : runs'[q] = runs[q]
  BY <1>2, <1>3, <1>4, <1>6, CallKeeps
<1>8. BusInv' /\ UNCHANGED history
  BY <1>1, BusRests
<1>9. ASSUME calm PROVE Announced(r)'
  <2>1. Announced(r)
    BY <1>0, <1>3, <1>9, Teller
  <2> QED
    BY <1>1, <1>2, <1>6, <1>7, <2>1 DEF Announced
<1>10. FlightIsTold' /\ LastEventFits'
  BY <1>0, <1>3, <1>4, <1>6, <1>7, <1>8, <1>9, SilentFits
<1> QED
  BY <1>6, <1>7, <1>8, <1>10 DEF PipeInv

\* A call ends with an event: completion of the index only if the table has its
\* text, and otherwise the table has nothing of it.
LEMMA EndKeeps ==
    ASSUME BusInv, PipeInv, NEW r \in Runs, runs[r].pc \in {"embed", "sync"},
           runs' = [runs EXCEPT ![r].pc = "done"],
           NEW t \in {"rep_completed", "index_completed"}, Publish(t, r),
           UNCHANGED <<source, reps, tags, parquet, faults, calm>>,
           rows' \in IndexType,
           t = "index_completed" => runs[r].pc = "sync" /\ rows'.run = r,
           t = "rep_completed" => rows'.run \in {rows.run, 0}
    PROVE  BusInv' /\ PipeInv'
<1>0. /\ Shape /\ InProgress /\ TagsTellOrigin
      /\ CalmIsAlone /\ FlightIsTold /\ LastEventFits
  BY DEF PipeInv
<1>1. "done" \in Pcs
  BY DEF Pcs
<1>2. PICK new \in RunRecord :
        /\ runs' = [runs EXCEPT ![r] = new]
        /\ new.pc = "done" /\ new.call = runs[r].call /\ new.i = runs[r].i
        /\ new.content = runs[r].content /\ new.pending = runs[r].pending
  BY <1>0, <1>1, MovedTo
<1>3. r \in InFlight
  BY <1>0, FlightPcs
<1>4. Progress(new) /\ new.pc # "new"
  <2>1. Progress(runs[r])
    BY <1>0 DEF InProgress
  <2> QED
    BY <1>2, <2>1 DEF Progress
<1>5. /\ reps' \in [Reps -> FileType] /\ tags' \in [Reps -> TagType]
      /\ parquet' \in [Reps -> IndexType] /\ faults' \in 0..MaxFaults
      /\ rows'.run \in {rows.run, r, 0}
      /\ TagsTellOrigin'
  BY <1>0 DEF Shape, TagsTellOrigin
<1>6. /\ Shape' /\ InProgress' /\ IndexOfBegun' /\ Prefix' /\ CalmIsAlone'
      /\ \A q : Latest(q) => Latest(q)'
      /\ runs'[r] = new /\ \A q \in Runs \ {r} : runs'[q] = runs[q]
  BY <1>2, <1>3, <1>4, <1>5, CallKeeps
<1>7. /\ BusInv' /\ history' # <<>>
      /\ Last(history').type = t /\ Last(history').run = r
  BY TypeNames, Told
<1>8. FlightIsTold'
  BY <1>7 DEF FlightIsTold
<1>9. LastEventFits'
  <2> SUFFICES ASSUME calm PROVE LastEventFits'
    BY DEF LastEventFits
  <2>1. /\ Latest(r) /\ rows.run # r
        /\ parquet["canonical_md"].run = r <=> runs[r].pc = "sync"
        /\ reps["canonical_md"].run = r
    BY <1>0, <1>3, Teller DEF Announced
  <2>2. Latest(r)' /\ r \notin InFlight'
    BY <1>2, <1>6, <2>1 DEF InFlight, Idle
  <2>3. r # 0
    BY RunsNat
  <2>4. t = "rep_completed" => rows'.run # r
    BY <2>1, <2>3
  <2>5. /\ t # "entity_created" /\ reps'["canonical_md"].run = r
        /\ t = "index_completed" => parquet'["canonical_md"].run = r /\ rows'.run = r
    BY <2>1
  <2> QED
    BY <1>7, <2>2, <2>4, <2>5 DEF LastEventFits
<1> QED
  BY <1>5, <1>6, <1>7, <1>8, <1>9 DEF PipeInv

LEMMA EndStepsKeep ==
    ASSUME BusInv, PipeInv, NEW r \in Runs,
           EmbedFails(r) \/ SyncIndex(r) \/ IndexFails(r)
    PROVE  BusInv' /\ PipeInv'
<1>0. /\ rows \in IndexType /\ NoIndex \in IndexType /\ NoIndex.run = 0
      /\ runs[r].content \in Hashes
  BY RunFields DEF PipeInv, Shape, NoIndex, IndexType, Hashes
<1>1. CASE EmbedFails(r) \/ IndexFails(r)
  <2>1. /\ runs[r].pc \in {"embed", "sync"}
        /\ runs' = [runs EXCEPT ![r].pc = "done"]
        /\ Publish("rep_completed", r)
        /\ UNCHANGED <<source, reps, tags, parquet, faults, calm>>
        /\ rows' \in {rows, NoIndex}
    BY <1>1 DEF EmbedFails, IndexFails, ReportUnindexed, At, KeepReps, KeepIndex
  <2>2. rows' \in IndexType /\ rows'.run \in {rows.run, 0}
    BY <1>0, <2>1
  <2> QED
    BY <2>1, <2>2, EndKeeps
<1>2. CASE SyncIndex(r)
  <2>1. /\ runs[r].pc = "sync"
        /\ runs' = [runs EXCEPT ![r].pc = "done"]
        /\ Publish("index_completed", r)
        /\ UNCHANGED <<source, reps, tags, parquet, faults, calm>>
        /\ rows' = [id |-> runs[r].content, run |-> r]
    BY <1>2 DEF SyncIndex, At, KeepReps
  <2>2. rows' \in IndexType /\ rows'.run = r
    BY <1>0, <2>1 DEF IndexType
  <2> QED
    BY <2>1, <2>2, EndKeeps
<1> QED
  BY <1>1, <1>2

LEMMA StepKeeps ==
    ASSUME BusInv, PipeInv, NEW r \in Runs, Step(r)
    PROVE  BusInv' /\ PipeInv'
  BY BeginKeeps, StepDoneKeeps, StepFailsKeeps, IndexStepKeeps, EmbeddedKeeps,
     EndStepsKeep DEF Step

-----------------------------------------------------------------------------
(* Restarts and the bus.                                                   *)

\* The calls that a restart ends.
LEMMA StoppedShape ==
    ASSUME NEW rs \in [Runs -> RunRecord], NEW ends, ends = Stopped(rs)
    PROVE  /\ ends \in [Runs -> RunRecord]
           /\ \A q \in Runs : /\ ends[q].pc \in Idle
                              /\ ends[q].pc = "new" <=> rs[q].pc = "new"
                              /\ ends[q].call = rs[q].call
<1>1. ASSUME NEW q \in Runs
      PROVE  /\ ends[q] \in RunRecord /\ ends[q].pc \in Idle
             /\ ends[q].pc = "new" <=> rs[q].pc = "new"
             /\ ends[q].call = rs[q].call
  <2>1. rs[q] \in RunRecord /\ "failed" \in Pcs
    BY DEF Pcs
  <2>2. CASE rs[q].pc \in Idle
    <3>1. ends[q] = rs[q]
      BY <2>2, Zenon DEF Stopped
    <3> QED
      BY <2>1, <2>2, <3>1
  <2>3. CASE rs[q].pc \notin Idle
    <3>1. ends[q] = [rs[q] EXCEPT !.pc = "failed"]
      BY <2>3, Zenon DEF Stopped
    <3>2. PICK new \in RunRecord :
            /\ new = [rs[q] EXCEPT !.pc = "failed"]
            /\ new.pc = "failed" /\ new.call = rs[q].call /\ new.i = rs[q].i
            /\ new.content = rs[q].content /\ new.pending = rs[q].pending
      BY <2>1, SetPc
    <3>3. ends[q] = new
      BY <3>1, <3>2, Zenon
    <3> QED
      BY <2>3, <3>2, <3>3 DEF Idle
  <2> QED
    BY <2>2, <2>3
<1>2. ends = [q \in Runs |-> ends[q]]
  BY Zenon DEF Stopped
<1> QED
  BY <1>1, <1>2

LEMMA RestartedInv ==
    ASSUME PipeInv, source' \in Hashes, calm' \in BOOLEAN,
           faults' \in 0..MaxFaults, history' = <<>>, UNCHANGED <<parquet, rows>>,
           reps' \in [Reps -> FileType], tags' \in [Reps -> TagType],
           TagsTellOrigin', Prefix',
           runs' \in [Runs -> RunRecord],
           \A q \in Runs : /\ runs'[q].pc \in Idle
                           /\ runs'[q].pc # "new" => runs'[q].call \in Inputs
                           /\ runs[q].pc # "new" => runs'[q].pc # "new"
    PROVE  PipeInv'
<1>1. Shape'
  BY DEF PipeInv, Shape
<1>2. InProgress'
  BY DEF InProgress, Progress, Idle
<1>3. IndexOfBegun'
  BY DEF PipeInv, IndexOfBegun
<1>4. InFlight' = {}
  BY DEF InFlight
<1>5. CalmIsAlone' /\ FlightIsTold' /\ LastEventFits'
  BY <1>4 DEF CalmIsAlone, FlightIsTold, LastEventFits
<1> QED
  BY <1>1, <1>2, <1>3, <1>5 DEF PipeInv

LEMMA CrashKeeps ==
    ASSUME BusInv, PipeInv, Crash
    PROVE  BusInv' /\ PipeInv'
<1>0. Shape /\ InProgress /\ TagsTellOrigin /\ Prefix
  BY DEF PipeInv
<1>1. /\ faults' \in 0..MaxFaults
      /\ history' = <<>> /\ UNCHANGED <<parquet, rows>>
  <2>1. faults < MaxFaults /\ faults' = faults + 1
    BY DEF Crash
  <2>2. faults' \in 0..MaxFaults
    BY <1>0, <2>1, PipelineAssumption DEF Shape
  <2> QED
    BY <2>2 DEF Crash, KeepIndex
<1>2. BusInv'
  BY RestartKeeps DEF Crash, StreamsRest
<1>3. runs \in [Runs -> RunRecord] /\ \A q \in Runs : runs[q].pc # "new" => runs[q].call \in Inputs
  BY <1>0 DEF Shape, InProgress, Progress
<1>4. ASSUME runs' = Stopped(runs)
      PROVE  /\ runs' \in [Runs -> RunRecord] /\ Prefix'
             /\ \A q \in Runs : /\ runs'[q].pc \in Idle
                                /\ runs'[q].pc # "new" => runs'[q].call \in Inputs
                                /\ runs[q].pc # "new" => runs'[q].pc # "new"
  <2>1. \A ends : ends = Stopped(runs) =>
           /\ ends \in [Runs -> RunRecord]
           /\ \A q \in Runs : /\ ends[q].pc \in Idle
                              /\ ends[q].pc = "new" <=> runs[q].pc = "new"
                              /\ ends[q].call = runs[q].call
    BY <1>3, StoppedShape
  <2>2. /\ runs' \in [Runs -> RunRecord]
        /\ \A q \in Runs : /\ runs'[q].pc \in Idle
                           /\ runs'[q].pc = "new" <=> runs[q].pc = "new"
                           /\ runs'[q].call = runs[q].call
    BY <1>4, <2>1
  <2>3. Prefix'
    BY <1>0, <2>2 DEF Prefix
  <2> QED
    BY <1>3, <2>2, <2>3
<1>5. CASE KeepReps /\ runs' = Stopped(runs) /\ UNCHANGED calm
  <2>1. /\ source' \in Hashes /\ calm' \in BOOLEAN
        /\ reps' \in [Reps -> FileType] /\ tags' \in [Reps -> TagType]
        /\ TagsTellOrigin'
    BY <1>0, <1>5 DEF KeepReps, Shape, TagsTellOrigin
  <2> QED
    BY <1>1, <1>2, <1>4, <1>5, <2>1, RestartedInv
<1>6. CASE \E r \in Runs, id \in Products :
             /\ At(r, "step")
             /\ SaveTorn(NextStep(r).name, Product(r, id), StepTags(r, id))
             /\ runs' = Stopped(runs)
             /\ UNCHANGED <<source, calm>>
  <2>1. PICK r \in Runs, id \in Products :
             /\ At(r, "step")
             /\ SaveTorn(NextStep(r).name, Product(r, id), StepTags(r, id))
             /\ runs' = Stopped(runs)
             /\ UNCHANGED <<source, calm>>
    BY <1>6
  <2>2. runs[r].pc = "step"
    BY <2>1 DEF At
  <2>3. Saved(NextStep(r).name, Product(r, id), StepTags(r, id))
    BY <2>1, SaveTornSaves
  <2>4. \E name \in Reps, file \in FileType, t \in TagType :
           Tells(file, t) /\ Saved(name, file, t)
    BY <1>0, <2>2, <2>3, ProductShape
  <2>5. /\ reps' \in [Reps -> FileType] /\ tags' \in [Reps -> TagType]
        /\ TagsTellOrigin'
    BY <1>0, <2>4, SaveTells
  <2>6. source' \in Hashes /\ calm' \in BOOLEAN
    BY <1>0, <2>1 DEF Shape
  <2> QED
    BY <1>1, <1>2, <1>4, <2>1, <2>5, <2>6, RestartedInv
<1>7. CASE \E r \in Runs, call \in Uploads \cup Calls :
             /\ Started(r, call)
             /\ call.format = "md"
             /\ source' = call.source
             /\ SaveTorn("canonical_md", File(r, call, call.source, call.source),
                         PassthruTags(call))
             /\ runs' = Stopped([runs EXCEPT ![r] =
                   [NewRun EXCEPT !.pc = "step", !.call = call, !.content = call.source]])
             /\ calm' = (InFlight = {})
  <2>1. PICK r \in Runs, call \in Inputs :
             /\ Started(r, call)
             /\ source' = call.source
             /\ SaveTorn("canonical_md", File(r, call, call.source, call.source),
                         PassthruTags(call))
             /\ runs' = Stopped([runs EXCEPT ![r] =
                   [NewRun EXCEPT !.pc = "step", !.call = call, !.content = call.source]])
             /\ calm' = (InFlight = {})
    BY <1>7, Zenon DEF Inputs
  <2>2. call.source \in Hashes /\ "canonical_md" \in Reps
    BY InputShape DEF Reps
  <2>3. /\ File(r, call, call.source, call.source) \in FileType
        /\ PassthruTags(call) \in TagType
        /\ Tells(File(r, call, call.source, call.source), PassthruTags(call))
    BY <2>2, FileShape, TagsShape DEF PassthruTags, Tells
  <2>4. Saved("canonical_md", File(r, call, call.source, call.source),
              PassthruTags(call))
    BY <2>1, SaveTornSaves
  <2>5. /\ reps' \in [Reps -> FileType] /\ tags' \in [Reps -> TagType]
        /\ TagsTellOrigin'
    BY <1>0, <2>2, <2>3, <2>4, SaveTells
  <2>6. source' \in Hashes /\ calm' \in BOOLEAN
    BY <2>1, <2>2
  <2>7. runs[r].pc = "new" /\ (r > 1 => runs[r - 1].pc # "new")
    BY <2>1 DEF Started, At
  <2>8. PICK new \in RunRecord :
             /\ new = [NewRun EXCEPT !.pc = "step", !.call = call, !.content = call.source]
             /\ new.pc = "step" /\ new.call = call
    BY TornRun, Zenon
  <2> DEFINE rs == [runs EXCEPT ![r] = new]
  <2>9. /\ rs \in [Runs -> RunRecord] /\ rs[r] = new
        /\ \A q \in Runs \ {r} : rs[q] = runs[q]
    BY <1>3
  <2>10. runs' = Stopped(rs)
    BY <2>1, <2>8, Zenon
  <2> HIDE DEF rs
  <2>11. \A ends : ends = Stopped(rs) =>
           /\ ends \in [Runs -> RunRecord]
           /\ \A q \in Runs : /\ ends[q].pc \in Idle
                              /\ ends[q].pc = "new" <=> rs[q].pc = "new"
                              /\ ends[q].call = rs[q].call
    BY <2>9, StoppedShape
  <2>12. /\ runs' \in [Runs -> RunRecord]
         /\ \A q \in Runs : /\ runs'[q].pc \in Idle
                            /\ runs'[q].pc = "new" <=> rs[q].pc = "new"
                            /\ runs'[q].call = rs[q].call
    BY <2>10, <2>11
  <2>13. runs'[r].pc # "new" /\ runs'[r].call \in Inputs
    <3>1. new.pc = "step" /\ new.call = call
      BY <2>8, Zenon
    <3> QED
      BY <2>9, <2>12, <3>1
  <2>14. Prefix'
    BY <1>0, <2>7, <2>9, <2>12, <2>13, OrderExtended
  <2>15. \A q \in Runs : /\ runs'[q].pc \in Idle
                         /\ runs'[q].pc # "new" => runs'[q].call \in Inputs
                         /\ runs[q].pc # "new" => runs'[q].pc # "new"
    BY <1>3, <2>9, <2>12, <2>13
  <2> QED
    BY <1>1, <1>2, <2>5, <2>6, <2>12, <2>14, <2>15, RestartedInv
<1> QED
  BY <1>5, <1>6, <1>7 DEF Crash

\* A step of the bus neither publishes nor forgets, and touches no call.
LEMMA BusKeeps ==
    ASSUME BusInv, PipeInv, Bus \/ UNCHANGED vars
    PROVE  BusInv' /\ PipeInv'
<1>1. /\ [BusStep]_busVars
      /\ UNCHANGED <<history, source, reps, tags, parquet, rows, runs, faults, calm>>
  <2>1. CASE Bus
    <3>1. BusNext /\ UNCHANGED pipeVars
      BY <2>1 DEF Bus
    <3>2. UNCHANGED history
      BY <3>1 DEF BusNext, Connect, Poll, EndStream, HangUp, Tick, Cleanup
    <3> QED
      BY <3>1, <3>2 DEF BusStep, pipeVars
  <2>2. CASE UNCHANGED vars
    BY <2>2 DEF vars, pipeVars, busVars
  <2> QED
    BY <2>1, <2>2
<1>2. BusInv'
  BY <1>1, BusStepKeeps
<1>3. Shape'
  BY <1>1 DEF PipeInv, Shape
<1>4. InProgress' /\ TagsTellOrigin' /\ IndexOfBegun' /\ Prefix'
  BY <1>1 DEF PipeInv, InProgress, TagsTellOrigin, IndexOfBegun, Prefix
<1>5. CalmIsAlone' /\ FlightIsTold' /\ LastEventFits'
  BY <1>1 DEF PipeInv, CalmIsAlone, FlightIsTold, LastEventFits, InFlight, Latest,
              Announced
<1> QED
  BY <1>2, <1>3, <1>4, <1>5 DEF PipeInv

LEMMA Starts == Init => BusInv /\ PipeInv
<1> SUFFICES ASSUME Init PROVE BusInv /\ PipeInv
  OBVIOUS
<1>1. /\ source = None /\ reps = [r \in Reps |-> NoFile]
      /\ tags = [r \in Reps |-> NoTags]
      /\ parquet = [r \in Reps |-> NoIndex] /\ rows = NoIndex
      /\ runs = [r \in Runs |-> NewRun] /\ faults = 0 /\ calm = TRUE
  BY DEF Init
<1>2. BusInv /\ history = <<>>
  BY BusStarts DEF Init, BusInit
<1>3. /\ None \in Hashes /\ NoFile \in FileType /\ NoTags \in TagType
      /\ NoIndex \in IndexType
  <2>1. None \in Hashes
    BY DEF Hashes
  <2> QED
    BY <2>1 DEF NoFile, FileType, NoTags, TagType, NoIndex, IndexType
<1>4. /\ NoTags.content = None /\ NoTags.input = None
      /\ NoFile.id = None /\ NoIndex.run = 0
  BY DEF NoTags, NoFile, NoIndex
<1>5. \A r \in Runs : runs[r] = NewRun /\ runs[r].pc = "new" /\ r # 0
  BY <1>1, NewRunShape, RunsNat
<1>6. Shape
  BY <1>1, <1>3, NewRunShape, PipelineAssumption DEF Shape
<1>7. TagsTellOrigin
  BY <1>1, <1>4 DEF TagsTellOrigin
<1>8. IndexOfBegun
  BY <1>1, <1>4, <1>5 DEF IndexOfBegun, Reps
<1>9. InProgress /\ Prefix /\ InFlight = {}
  BY <1>5 DEF InProgress, Prefix, InFlight, Idle
<1>10. CalmIsAlone /\ FlightIsTold /\ LastEventFits
  BY <1>2, <1>9 DEF CalmIsAlone, FlightIsTold, LastEventFits
<1> QED
  BY <1>2, <1>6, <1>7, <1>8, <1>9, <1>10 DEF PipeInv

LEMMA NextKeeps == BusInv /\ PipeInv /\ [Next]_vars => BusInv' /\ PipeInv'
  BY StepKeeps, CrashKeeps, BusKeeps DEF Next

LEMMA PipeTypes == BusInv /\ PipeInv => TypeOK
<1> SUFFICES ASSUME BusInv, PipeInv PROVE TypeOK
  OBVIOUS
<1>1. BusTypeOK
  BY InvTypes
<1>2. Shape /\ InProgress
  BY DEF PipeInv
<1>3. ASSUME NEW r \in Runs
      PROVE  /\ runs[r].pc \in Pcs
             /\ runs[r].content \in Hashes
             /\ (At(r, "index") <=>
                    r \in InFlight /\ runs[r].pending # <<>> /\ ~At(r, "step"))
  <2>1. runs[r].pc \in Pcs /\ runs[r].content \in Hashes
    BY <1>2, RunFields DEF Shape
  <2>2. r \in InFlight <=> runs[r].pc \in {"step", "index", "embed", "sync"}
    BY <1>2, FlightPcs
  <2>3. /\ runs[r].pc = "index" => runs[r].pending # <<>>
        /\ runs[r].pc \in {"embed", "sync"} => runs[r].pending = <<>>
    BY <1>2 DEF InProgress, Progress
  <2> QED
    BY <2>1, <2>2, <2>3 DEF At
<1> QED
  BY <1>1, <1>2, <1>3 DEF TypeOK, Shape, TagType, Pcs

LEMMA LastEventTells == BusInv /\ PipeInv => EventsTellTruth
<1> SUFFICES ASSUME BusInv, PipeInv, InFlight = {}, calm, history # <<>>
             PROVE  EventsTellTruth
  BY DEF EventsTellTruth
<1> DEFINE e == Last(history)
           r == e.run
<1>1. e.type \in {"entity_created", "rep_completed", "index_completed"}
  <2>1. history \in Seq(Events)
    BY DEF BusInv, BusShape
  <2>2. Len(history) \in Nat \ {0}
    BY <2>1, LenProperties, EmptySeq
  <2>3. Last(history) \in Events
    BY <2>1, <2>2, ElementOfSeq DEF Last
  <2> QED
    BY <2>3, TypeNames DEF Events
<1>2. /\ Latest(r)
      /\ e.type = "entity_created" => Announced(r)
      /\ e.type # "entity_created" => reps["canonical_md"].run = r
      /\ e.type = "rep_completed" => rows.run # r
      /\ e.type = "index_completed" =>
            parquet["canonical_md"].run = r /\ rows.run = r
  BY DEF PipeInv, LastEventFits
<1>3. runs[r].pc \in {"done", "failed"}
  BY <1>2, FlightPcs DEF Latest, PipeInv
<1>4. ASSUME e.type = "entity_created"
      PROVE  /\ parquet["canonical_md"].run # r /\ rows.run # r
             /\ \/ runs[r].pc = "failed"
                \/ reps["canonical_md"].run = r /\ reps["canonical_md"].id = Empty
  BY <1>2, <1>3, <1>4 DEF Announced
<1>5. "entity_created" # "rep_completed" /\ "entity_created" # "index_completed"
      /\ "rep_completed" # "index_completed"
  OBVIOUS
<1>6. CASE e.type = "entity_created"
  BY <1>4, <1>6 DEF EventsTellTruth, At
<1>7. CASE e.type = "rep_completed"
  BY <1>2, <1>7 DEF EventsTellTruth
<1>8. CASE e.type = "index_completed"
  BY <1>2, <1>8 DEF EventsTellTruth
<1> QED
  BY <1>1, <1>6, <1>7, <1>8

-----------------------------------------------------------------------------
(* The theorems.                                                           *)

\* The invariants of the bus and of the calls, together, are an invariant.
THEOREM PipelineInvariant == Spec => [](BusInv /\ PipeInv)
<1>1. Init => BusInv /\ PipeInv
  BY Starts
<1>2. BusInv /\ PipeInv /\ [Next]_vars => (BusInv /\ PipeInv)'
  BY NextKeeps
<1> QED
  BY <1>1, <1>2, PTL DEF Spec

\* The variables have their types; a call waits for the index of an
\* intermediate representation exactly if one is pending
\* (process_entity, _execute_step_pipeline).
THEOREM PipelineTypes == Spec => []TypeOK
<1>1. BusInv /\ PipeInv => TypeOK
  BY PipeTypes
<1> QED
  BY <1>1, PipelineInvariant, PTL

\* Whatever the steps return, however often the same bytes, through any number
\* of overlapping calls, failed steps, attributes that cannot be set and
\* restarts in the middle of a save: a hash among the tags is true of the file
\* or missing, and the input's is empty only where it was the source
\* (_execute_step_pipeline, save_file, set_rep_tags).
THEOREM PipelineTagsTellOrigin == Spec => []TagsTellOrigin
<1>1. BusInv /\ PipeInv => TagsTellOrigin
  BY DEF PipeInv
<1> QED
  BY <1>1, PipelineInvariant, PTL

\* What the latest event tells of an entity whose calls did not overlap is so
\* (process_entity).
THEOREM PipelineEventsTellTruth == Spec => []EventsTellTruth
<1>1. BusInv /\ PipeInv => EventsTellTruth
  BY LastEventTells
<1> QED
  BY <1>1, PipelineInvariant, PTL

\* A stream loses events only to a full queue or to the cleanup, never out of
\* order, with the calls that publish and the restarts that empty the history
\* (publish, stream_events, cleanup_stale_subscribers).
THEOREM PipelineExplainsLoss == Spec => []LossExplained
<1>1. BusInv /\ PipeInv => LossExplained
  BY InvExplains
<1> QED
  BY <1>1, PipelineInvariant, PTL
=============================================================================
