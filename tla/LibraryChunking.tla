--------------------------- MODULE LibraryChunking ---------------------------
(***************************************************************************)
(* How base_chunking.py splits the Markdown of a library: sections with    *)
(* the path of their headings, long sections cut by characters so that     *)
(* tables and code blocks stay whole where possible.                       *)
(*                                                                         *)
(* A content is a sequence of characters: "x" of a word, "." the end of a  *)
(* sentence, "n" a newline, "-" a hyphen, "|" the pipes of a table row,    *)
(* "f" and "g" the fences ``` and ~~~.  Positions count from 0, as in the  *)
(* code.                                                                   *)
(***************************************************************************)
EXTENDS Naturals, Sequences, SequencesExt, FiniteSets, FiniteSetsExt

CONSTANTS MaxTable,    \* _get_max_table_length
          BreakRange   \* how far a natural break is looked for (300)

ASSUME LibraryAssumption == MaxTable \in Nat \ {0} /\ BreakRange \in Nat

-----------------------------------------------------------------------------
(* split_library_sections.  A line is the level of a header, or 0.         *)

\* Mutant of PathAfter: a header leaves its siblings in the path.
PathAfterSibling(path, i, level, lines) == {h \in path : lines[h] <= level} \cup {i}

\* current_headers, by line number: what line i leaves of it, and line i.
PathAfter(path, i, level, lines) == {h \in path : lines[h] < level} \cup {i}

FlushSection(st) ==
    IF st.body = <<>> THEN st.out
    ELSE Append(st.out, [path |-> st.path, body |-> st.body])

SectionStep(lines, st, i) ==
    IF lines[i] = 0 THEN [st EXCEPT !.body = Append(@, i)]
    ELSE [out |-> FlushSection(st), body |-> <<>>,
          path |-> PathAfter(st.path, i, lines[i], lines)]

LibrarySections(lines) ==
    FlushSection(FoldLeft(LAMBDA st, i : SectionStep(lines, st, i),
                          [out |-> <<>>, body |-> <<>>, path |-> {}],
                          [i \in DOMAIN lines |-> i]))

-----------------------------------------------------------------------------
(* Tables and code blocks, from the lines of a content.                    *)

At(text, pos) == text[pos + 1]

\* Where the lines of a text begin, and where the line at p ends.
LineStarts(text) == {p \in 0..Len(text) : p = 0 \/ At(text, p - 1) = "n"}
LineEnd(text, p) == Min({q \in p..Len(text) : q = Len(text) \/ At(text, q) = "n"})
Line(text, p) == [lo |-> p, hi |-> LineEnd(text, p)]

CharsOf(text, r) == {At(text, p) : p \in r.lo..(r.hi - 1)}

\* _is_library_separator_block
IsSeparator(text, r) == r.hi - r.lo >= 3 /\ CharsOf(text, r) = {"-"}

\* _is_library_table_line: a row, or a rule of two hyphens or more, so that a
\* separator is a table, too.
IsTableLine(text, r) ==
    \/ "|" \in CharsOf(text, r)
    \/ r.hi - r.lo >= 2 /\ CharsOf(text, r) = {"-"}

Block(start, end, type) == [start |-> start, end |-> end, type |-> type]

IsTable(text, p) == p \in LineStarts(text) /\ IsTableLine(text, Line(text, p))

\* _find_library_table_boundaries: the longest runs of table lines.
TableBlocks(text) ==
    {Block(r[1], LineEnd(text, r[2]), "table") :
        r \in {x \in LineStarts(text) \X LineStarts(text) :
                  /\ x[1] <= x[2]
                  /\ \A p \in LineStarts(text) \cap (x[1]..x[2]) : IsTable(text, p)
                  /\ ~ IsTable(text, LineEnd(text, x[2]) + 1)
                  /\ ~ \E p \in LineStarts(text) :
                           LineEnd(text, p) + 1 = x[1] /\ IsTable(text, p)}}

\* The fence that a line at p begins with, if any.
FenceOf(text, p) ==
    IF p \in LineStarts(text) THEN {At(text, p)} \cap {"f", "g"} ELSE {}

\* `open` is where the fence that waits for its like is.
FenceStep(text, st, p) ==
    LET fence == FenceOf(text, p) IN
    IF fence = {} THEN st
    ELSE IF st.open = <<>> THEN [st EXCEPT !.open = <<p>>]
    ELSE IF FenceOf(text, st.open[1]) # fence THEN st
    ELSE [blocks |-> st.blocks
                     \cup {Block(st.open[1], LineEnd(text, p), "code_block")},
          open |-> <<>>]

\* _find_library_code_block_boundaries: from a fence to the next one of its
\* kind, or to the end of the text.
CodeBlocks(text) ==
    LET end == FoldLeft(LAMBDA st, p : FenceStep(text, st, p),
                        [blocks |-> {}, open |-> <<>>],
                        [i \in 1..Len(text) |-> i - 1]) IN
    end.blocks \cup {Block(end.open[i], Len(text), "code_block") : i \in DOMAIN end.open}

\* protected_boundaries
Protected(text) == TableBlocks(text) \cup CodeBlocks(text)

\* The first of some blocks in the order of the sort, which is stable and finds
\* the tables first.
FirstBlock(blocks) ==
    LET start == Min({b.start : b \in blocks})
        end == Min({b.end : b \in {c \in blocks : c.start = start}})
        first == {b \in blocks : b.start = start /\ b.end = end} IN
    CHOOSE b \in first : b.type = "table" \/ \A c \in first : c.type # "table"

-----------------------------------------------------------------------------
(* _split_library_content.  A block is [start, end, type], its characters  *)
(* from start to end - 1.                                                  *)

\* A pattern of _find_library_natural_break begins at pos; where it ends.
BreakEnd(text, pos) ==
    IF At(text, pos) = "." THEN pos + 1
    ELSE IF /\ At(text, pos) = "n"
            /\ pos + 1 < Len(text)
            /\ At(text, pos + 1) = "n"
    THEN pos + 2
    ELSE 0

NaturalBreak(text, target) ==
    LET end == Min({Len(text), target + BreakRange})
        range == target..(end - 1)
        breaks == {p \in range : BreakEnd(text, p) # 0}
        newlines == {p \in range : At(text, p) = "n"} IN
    IF breaks # {} THEN BreakEnd(text, Min(breaks))
    ELSE IF newlines # {} THEN Min(newlines) + 1
    ELSE target

\* The target, or the end of the last block that the slice touches: always the
\* target, since a block that reaches behind it was met before.
BehindBlocks(text, start, target, blocks) ==
    Max({target} \cup {Min({b.end + 1, Len(text)}) :
          b \in {c \in blocks : c.end >= start /\ c.start <= target}})

\* Mutant of CutAtBlock: a long code block is cut like a long table.
CutAtBlockAny(text, start, b) ==
    IF b.end - b.start > MaxTable THEN Min({start + MaxTable, b.end})
    ELSE Min({b.end + 1, Len(text)})

\* Where to cut when the target lies in block b.
CutAtBlock(text, start, b) ==
    IF b.type = "table" /\ b.end - b.start > MaxTable
    THEN Min({start + MaxTable, b.end})
    ELSE Min({b.end + 1, Len(text)})

\* _find_library_safe_split_position: the first block that the target lies
\* in decides; otherwise the cut is behind all blocks, at a natural break.
SafeSplit(text, start, maxChars, blocks) ==
    LET target == Min({start + maxChars, Len(text)})
        hit == {b \in blocks : b.start <= target /\ target <= b.end} IN
    IF hit # {} THEN CutAtBlock(text, start, FirstBlock(hit))
    ELSE NaturalBreak(text, BehindBlocks(text, start, target, blocks))

\* A split that does not move is moved by a character.
NextSplit(text, start, maxChars, blocks) ==
    LET pos == SafeSplit(text, start, maxChars, blocks) IN
    IF pos <= start THEN Min({start + 1, Len(text)}) ELSE pos

\* str.strip: what is left of [lo, hi) without newlines at its ends.
Strip(text, lo, hi) ==
    LET kept == {p \in lo..(hi - 1) : At(text, p) # "n"} IN
    IF kept = {} THEN <<>> ELSE <<[lo |-> Min(kept), hi |-> Max(kept) + 1]>>

\* _is_library_mergeable_fragment: nothing but a separator or one fence.
Mergeable(text, r) ==
    IsSeparator(text, r) \/ (r.hi = r.lo + 1 /\ At(text, r.lo) \in {"f", "g"})

\* Mutant of Merge: a fragment is dropped.
MergeDrops(text, out, r) ==
    IF out # <<>> /\ Mergeable(text, r) THEN out ELSE Append(out, <<r>>)

\* _merge_library_split_chunks: a fragment joins the chunk before it.
Merge(text, out, r) ==
    IF out # <<>> /\ Mergeable(text, r)
    THEN [out EXCEPT ![Len(out)] = Append(@, r)]
    ELSE Append(out, <<r>>)

CutStep(text, maxChars, blocks, cuts) ==
    IF Last(cuts) >= Len(text) THEN cuts
    ELSE Append(cuts, NextSplit(text, Last(cuts), maxChars, blocks))

\* The positions where the loop cuts, from 0 to the end of the text.
Cuts(text, maxChars, blocks) ==
    FoldLeft(LAMBDA cuts, i : CutStep(text, maxChars, blocks, cuts),
             <<0>>, [i \in 1..Len(text) |-> i])

\* What is between two cuts becomes a chunk, or a part of the last one.
PieceStep(text, cuts, out, i) ==
    LET r == Strip(text, cuts[i], cuts[i + 1]) IN
    IF r = <<>> THEN out ELSE Merge(text, out, r[1])

\* The chunks, each a sequence of ranges [lo, hi).
SplitLibraryContent(text, maxChars) ==
    IF Len(text) <= maxChars THEN << <<[lo |-> 0, hi |-> Len(text)]>> >>
    ELSE LET cuts == Cuts(text, maxChars, Protected(text)) IN
         FoldLeft(LAMBDA out, i : PieceStep(text, cuts, out, i),
                  <<>>, [i \in 1..(Len(cuts) - 1) |-> i])

\* _build_library_chunks for one section that is no table of contents, a token
\* being a character, as where there is no tokenizer: nothing for a separator,
\* whole, whole but marked as too long, or cut to twice the tokens that the
\* prefix leaves.
BuildLibraryChunks(text, prefix, limit) ==
    IF IsSeparator(text, [lo |-> 0, hi |-> Len(text)]) THEN <<>>
    ELSE IF Len(text) + prefix <= limit \/ limit <= prefix
    THEN << <<[lo |-> 0, hi |-> Len(text)]>> >>
    ELSE SplitLibraryContent(text, 2 * (limit - prefix))
=============================================================================
