------------------------------- MODULE Registry -------------------------------
(***************************************************************************)
(* The step registry (app/services/registry.py) as operators.  A registry  *)
(* is the sequence of its steps in the order of their registration; _dag   *)
(* keeps the same order within each input format.                          *)
(***************************************************************************)
EXTENDS Naturals, Sequences, SequencesExt, FiniteSets

Named(steps, name) == {i \in DOMAIN steps : steps[i].name = name}

\* A name that is taken raises ValueError and changes nothing.
RegisterStep(steps, step) ==
    IF Named(steps, step.name) # {} THEN steps ELSE Append(steps, step)

\* An unknown name raises KeyError and changes nothing.
UnregisterStep(steps, name) ==
    LET at == Named(steps, name) IN
    IF at = {} THEN steps ELSE RemoveAt(steps, CHOOSE i \in at : TRUE)

\* Mutant of Popped: the search goes deep first.
PoppedLast(queue) == [first |-> Last(queue), rest |-> Front(queue)]

\* queue.popleft()
Popped(queue) == [first |-> Head(queue), rest |-> Tail(queue)]

\* One step in the order of registration, an edge if it takes the format that was
\* popped, until the target is found.
ScanEdge(st, popped, step, target) ==
    IF step.input # popped.format \/ st.found # <<>> THEN st
    ELSE LET path == Append(popped.path, step) IN
         IF step.output = target THEN [st EXCEPT !.found = << path >>]
         ELSE IF step.output \in st.visited THEN st
         ELSE [st EXCEPT !.visited = @ \cup {step.output},
                         !.queue = Append(@, [format |-> step.output, path |-> path])]

SearchStep(steps, st, target) ==
    IF st.found # <<>> \/ st.queue = <<>> THEN st
    ELSE LET popped == Popped(st.queue) IN
         FoldLeft(LAMBDA s, step : ScanEdge(s, popped.first, step, target),
                  [st EXCEPT !.queue = popped.rest], steps)

\* resolve_pipeline: a sequence with the path found, empty for ValueError.
ResolvePipeline(steps, source, target) ==
    IF source = target THEN << <<>> >>
    ELSE FoldLeft(LAMBDA st, i : SearchStep(steps, st, target),
                  [found |-> <<>>, visited |-> {source},
                   queue |-> << [format |-> source, path |-> <<>>] >>],
                  [i \in 1..(Len(steps) + 1) |-> i]).found

\* register_builtin_templates; "indexed" is whether the step has an index_mode.
BuiltinSteps ==
    LET step(n, i, o, x) == [name |-> n, input |-> i, output |-> o, indexed |-> x] IN
    FoldLeft(RegisterStep, <<>>,
        << step("md_passthru", "md", "md", TRUE),
           step("word_to_pdf", "docx", "pdf", TRUE),
           step("pdf_to_png", "pdf", "png", FALSE),
           step("png_to_md", "png", "md", TRUE) >>)
=============================================================================
