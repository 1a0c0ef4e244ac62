------------------------------ MODULE Algorithms ------------------------------
(***************************************************************************)
(* The pure algorithms of the system, run once on an input: the chunking   *)
(* of a text for the index, the chunking of a library text, its sections,  *)
(* the fusion of two result lists and the search for a chain of steps.     *)
(* Each request of the real program that needs one runs it without an      *)
(* await (ChunkingService.execute, search_hybrid after its two queries,    *)
(* resolve_pipeline).                                                      *)
(***************************************************************************)
EXTENDS Chunking, LibraryChunking, Fusion, Registry

CONSTANTS Documents,   \* texts to be chunked
          Contents,    \* [text, prefix, limit] of library sections
          Outlines,    \* sequences of header levels and 0 for other lines
          ResultLists, \* <<semantic hits, lexical hits>>
          TopKs,
          Registries,  \* sequences of steps in the order of registration
          Formats

\* A section has its header line, so it has a paragraph.
ASSUME DocumentsAssumption == \A doc \in Documents : doc \in Seq(Seq(Seq(Nat)) \ {<<>>})
ASSUME ContentsAssumption ==
    \A c \in Contents : c.text \in Seq(STRING) /\ c.prefix \in Nat /\ c.limit \in Nat
ASSUME OutlinesAssumption == \A lines \in Outlines : lines \in Seq(Nat)
ASSUME ResultsAssumption ==
    /\ \A lists \in ResultLists, k \in 1..2 : lists[k] \in Seq(Range(lists[k]))
    /\ TopKs \subseteq Nat
ASSUME RegistriesAssumption == \A added \in Registries : added \in Seq(Range(added))

VARIABLES task, result

vars == <<task, result>>

Init ==
    /\ task \in [kind : {"chunk"}, doc : Documents]
                \cup [kind : {"library"}, content : Contents]
                \cup [kind : {"sections"}, lines : Outlines]
                \cup [kind : {"fuse"}, lists : ResultLists, topK : TopKs]
                \cup [kind : {"resolve"}, added : Registries, removed : 0..1,
                      source : Formats, target : {"md"}]
    /\ result = <<>>

Pending(kind) == task.kind = kind /\ result = <<>>

\* ChunkingService.execute; base_chunking.py beside it.
Execute ==
    /\ Pending("chunk")
    /\ LET chunks == SplitByTokens(task.doc) IN
       result' = [chunks |-> chunks, windows |-> Windows(chunks),
                  lens |-> [i \in DOMAIN chunks |-> TextLen(chunks[i])],
                  base |-> BaseSplitByTokens(task.doc)]
    /\ UNCHANGED task

\* The lengths of the embedding texts: the prefix and the ranges of a chunk,
\* merged ones on a line of their own.
EmbeddingLens(prefix, chunks) ==
    [i \in DOMAIN chunks |->
        prefix + Sum([j \in DOMAIN chunks[i] |-> chunks[i][j].hi - chunks[i][j].lo])
               + Len(chunks[i]) - 1]

\* execute of base_chunking.py for the user role "library".
Library ==
    /\ Pending("library")
    /\ LET c == task.content
           chunks == BuildLibraryChunks(c.text, c.prefix, c.limit)
           lens == EmbeddingLens(c.prefix, chunks) IN
       result' = [chunks |-> chunks, lens |-> lens,
                  windows |-> [i \in DOMAIN lens |-> WindowOf(lens, i)]]
    /\ UNCHANGED task

Sections ==
    /\ Pending("sections")
    /\ result' = [sections |-> LibrarySections(task.lines)]
    /\ UNCHANGED task

Fuse ==
    /\ Pending("fuse")
    /\ result' = [hits |-> SearchHybrid(task.lists[1], task.lists[2], task.topK)]
    /\ UNCHANGED task

\* The steps are registered in turn, and the first of them removed again.
Registered ==
    LET all == FoldLeft(RegisterStep, <<>>, task.added) IN
    IF task.removed = 0 THEN all ELSE UnregisterStep(all, task.added[1].name)

Resolve ==
    /\ Pending("resolve")
    /\ result' = [pipeline |-> ResolvePipeline(Registered, task.source, task.target)]
    /\ UNCHANGED task

Next == Execute \/ Library \/ Sections \/ Fuse \/ Resolve

Spec == Init /\ [][Next]_vars

Done(kind) == task.kind = kind /\ result # <<>>

-----------------------------------------------------------------------------
Chars(r) == r.lo..(r.hi - 1)

\* Ranges follow one another and take each of the characters exactly once.
Takes(ranges, chars) ==
    /\ \A i \in 1..(Len(ranges) - 1) : ranges[i].hi <= ranges[i + 1].lo
    /\ UNION {Chars(ranges[i]) : i \in DOMAIN ranges} = chars

Body(doc) == UNION {UNION {
    LET at == SecAt(doc, n) + ParAt(doc[n], i) IN at..(at + ParLen(doc[n][i]) - 1)
    : i \in DOMAIN doc[n]} : n \in DOMAIN doc}

Texts(chunks) == [i \in DOMAIN chunks |-> chunks[i].text]

\* No character of a paragraph is lost, repeated or moved by the nested loops
\* that collect and flush paragraphs and sentences (_split_by_tokens,
\* _split_long_paragraph), in either program.
NoTextLost ==
    Done("chunk") =>
        /\ Takes(Concat(Texts(result.chunks)), Body(task.doc))
        /\ Takes(Concat(Texts(result.base)), Body(task.doc))

\* The rest of a sentence that was cut: it starts inside the sentence.
CutRest(chunks, i) ==
    /\ i > 1
    /\ LET c == chunks[i].text[1]
           b == chunks[i - 1].text[1] IN
       b.hi = c.lo /\ b.hi - b.lo = 4 * ChunkTokens

\* A chunk is as long as its tokens allow, up to the rounding of each piece
\* and the separators; only the rest of a sentence that was cut once may be
\* longer, because nobody cuts it again (_count_tokens, _split_by_tokens).
ChunksBounded ==
    Done("chunk") =>
        \A i \in DOMAIN result.chunks :
            LET c == result.chunks[i] IN
            CutRest(result.chunks, i) \/ TextLen(c) <= 4 * ChunkTokens + 5 * c.pieces

\* start_pos never points behind the text of the chunk.
StartsNotBehind ==
    Done("chunk") =>
        \A i \in DOMAIN result.chunks :
            result.chunks[i].start <= result.chunks[i].text[1].lo

\* Character p is in the first paragraph of a section, and no sentence over the
\* limit, which is cut, ends before it there.
Countable(doc, p) ==
    \E n \in DOMAIN doc :
        LET par == doc[n][1] IN
        /\ SecAt(doc, n) <= p /\ p < SecAt(doc, n) + ParLen(par)
        /\ \A k \in DOMAIN par :
              Tokens(par[k]) > ChunkTokens =>
                  p < SecAt(doc, n) + Sum([j \in 1..k |-> par[j]])

\* start_pos is the offset of the text of the chunk exactly where nothing has
\* been miscounted before it: in the first paragraph of a section, up to the
\* first sentence that was cut.  Behind that, lines are added to characters and
\* a cut does not move the start on, and start_pos is too small
\* (Chunk.start_pos, _split_by_paragraphs, _split_long_paragraph).
StartsExactWhereCounted ==
    Done("chunk") =>
        /\ StartsNotBehind
        /\ \A i \in DOMAIN result.chunks :
              LET c == result.chunks[i] IN
              c.start = c.text[1].lo <=> Countable(task.doc, c.text[1].lo)

\* w is the best window around chunk i: it has the chunk, fits the limit unless
\* the chunk alone does not, and no neighbour within reach would still fit on
\* either side.
Best(lens, i, w) ==
    /\ w.lo <= i /\ i <= w.hi
    /\ w.len = Least(MaxWindow, JoinedLen(lens, w.lo, w.hi))
    /\ \/ w.lo = w.hi /\ lens[i] >= MaxWindow
       \/ /\ JoinedLen(lens, w.lo, w.hi) <= MaxWindow
          /\ \A n \in DOMAIN lens :
                n \in {w.lo - 1, w.hi + 1} =>
                    \/ n + Half < i \/ n > i + Half
                    \/ w.len + lens[n] + 2 > MaxWindow

\* Each window is the best one around its chunk, be it the whole reach or what
\* is left of it (_apply_sliding_window, _truncate_window_chunks).
WindowIsBest ==
    Done("chunk") \/ Done("library") =>
        \A i \in DOMAIN result.lens : Best(result.lens, i, result.windows[i])

\* Cutting by characters, stripping and merging fragments keeps each character
\* that is not a newline exactly once and in order, whatever tables and code
\* blocks there are (_split_library_content, _merge_library_split_chunks); only
\* a section that is a single separator has no chunk.
LibraryCovers ==
    Done("library") =>
        LET text == task.content.text
            ink == {p \in 0..(Len(text) - 1) : At(text, p) # "n"}
            ranges == Concat(result.chunks) IN
        /\ \A i \in 1..(Len(ranges) - 1) : ranges[i].hi <= ranges[i + 1].lo
        /\ \/ ink \subseteq UNION {Chars(ranges[i]) : i \in DOMAIN ranges}
           \/ result.chunks = <<>> /\ IsSeparator(text, [lo |-> 0, hi |-> Len(text)])

TooLong(b) == b.type = "table" /\ b.end - b.start > MaxTable

\* A table or code block is cut only where the search gives up: a table over
\* the maximum, blocks that overlap, a natural break that lies in a block behind
\* the slice, or a slice that ends in a table over the maximum and is cut that
\* far from its start, which may be before the table
\* (_find_library_safe_split_position).
BlocksStayWhole ==
    Done("library") =>
        LET c == task.content
            blocks == Protected(c.text)
            maxChars == 2 * (c.limit - c.prefix)
            cuts == Cuts(c.text, maxChars, blocks) IN
        c.prefix < c.limit /\ Len(c.text) > maxChars =>
            \A i \in 2..(Len(cuts) - 1) : \A b \in blocks :
                b.start < cuts[i] /\ cuts[i] < b.end =>
                    \/ TooLong(b)
                    \/ \E d \in blocks \ {b} : d.start < b.end /\ b.start < d.end
                    \/ b.start > cuts[i - 1] + maxChars
                    \/ /\ cuts[i] = cuts[i - 1] + MaxTable
                       /\ \E d \in blocks : TooLong(d) /\ cuts[i] < d.start

\* The headers that enclose line l: above it, and not closed by a header of the
\* same or a higher level in between.
Enclosing(lines, l) ==
    {h \in DOMAIN lines :
        /\ lines[h] > 0
        /\ h < l
        /\ \A k \in (h + 1)..l : lines[k] > 0 => lines[k] > lines[h]}

\* The path of a section names exactly the headers that enclose it, and the
\* sections have every line that is no header and no other line
\* (split_library_sections).
SectionPaths ==
    Done("sections") =>
        LET sections == {result.sections[i] : i \in DOMAIN result.sections} IN
        /\ \A s \in sections : s.path = Enclosing(task.lines, s.body[1])
        /\ \A l \in DOMAIN task.lines :
              task.lines[l] = 0 <=> \E s \in sections : Contains(s.body, l)

\* A key that no list ranks below another, and some list above it, is not
\* below it in the merged list, where each list has a key once
\* (search_hybrid).
DominanceRespected ==
    Done("fuse") =>
        LET sem == task.lists[1]
            lex == task.lists[2]
            once(key) == /\ Cardinality(Found(sem, key)) <= 1
                         /\ Cardinality(Found(lex, key)) <= 1
            above(list, a, b) ==
                \A r \in Found(list, b) : \E q \in Found(list, a) : q < r
            place(key) == {p \in DOMAIN result.hits : Key(result.hits[p].hit) = key}
            keys == {Key((sem \o lex)[i]) : i \in DOMAIN (sem \o lex)} IN
        \A a, b \in keys :
            a # b /\ once(a) /\ once(b) /\ above(sem, a, b) /\ above(lex, a, b)
            => \A p \in place(b) : \E q \in place(a) : q < p

\* Chains of registered steps from the source to the target.
Chains(n) ==
    {p \in [1..n -> ToSet(Registered)] :
        /\ p[1].input = task.source
        /\ p[n].output = task.target
        /\ \A i \in 1..(n - 1) : p[i].output = p[i + 1].input}

\* The chain found is made of registered steps only, leads from the source to
\* the target, and no chain is shorter; nothing is found only where there is
\* none, whatever was registered, in whatever order, with whatever cycles
\* (resolve_pipeline: "the shortest path").
ResolvesShortest ==
    Done("resolve") =>
        IF task.source = task.target THEN result.pipeline = << <<>> >>
        ELSE LET lens == {n \in 1..Len(Registered) : Chains(n) # {}} IN
             IF lens = {} THEN result.pipeline = <<>>
             ELSE result.pipeline[1] \in Chains(Min(lens))
=============================================================================
