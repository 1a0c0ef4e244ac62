------------------------------ MODULE Chunking -------------------------------
(***************************************************************************)
(* The chunking of a Markdown text (app/services/chunking.py) and of the   *)
(* program it was simplified from (base_chunking.py), as operators.        *)
(*                                                                         *)
(* A text is a sequence of sections, a section a sequence of paragraphs of *)
(* one line each with one blank line between them, a paragraph a sequence  *)
(* of lengths of sentences; a paragraph that ends with punctuation has an  *)
(* empty last sentence (re.split).  The text of a chunk is the sequence of *)
(* the ranges [lo, hi) of characters it was taken from.                    *)
(***************************************************************************)
EXTENDS Naturals, Sequences, SequencesExt

CONSTANTS ChunkTokens,   \* chunk_tokens
          WindowSize,    \* window_size, made odd
          MaxWindow      \* max_window_length

ASSUME ChunkingAssumption ==
    ChunkTokens \in Nat /\ WindowSize \in Nat /\ MaxWindow \in Nat

Sum(s) == FoldLeft(LAMBDA a, b : a + b, 0, s)
Concat(ss) == FoldLeft(LAMBDA a, b : a \o b, <<>>, ss)

\* _count_tokens; base_chunking.py asks a tokenizer, here with the same answer.
Tokens(n) == n \div 4

ParLen(par) == Sum(par)
SecLen(sec) == Sum([i \in DOMAIN sec |-> ParLen(sec[i])]) + 2 * (Len(sec) - 1)

\* Where paragraph i of a section begins, and where the code thinks it does:
\* _split_by_paragraphs counts lines, its callers add them to characters.
ParAt(sec, i) == Sum([j \in 1..(i - 1) |-> ParLen(sec[j])]) + 2 * (i - 1)
ParLine(i) == 2 * (i - 1)

\* start_pos of a section, with the newline before each header.
SecAt(doc, n) == Sum([j \in 1..(n - 1) |-> SecLen(doc[j]) + 1])

Span(lo, len) == [lo |-> lo, hi |-> lo + len]
Chunk(text, start, tokens, pieces) ==
    [text |-> text, start |-> start, tokens |-> tokens, pieces |-> pieces]

TextLen(c) == Sum([i \in DOMAIN c.text |-> c.text[i].hi - c.text[i].lo])
              + 2 * (Len(c.text) - 1)

-----------------------------------------------------------------------------
(* _split_long_paragraph: a fold over the sentences.                       *)

\* `part` holds what current_parts does, as at most one range.
LongStart(at, start) ==
    [out |-> <<>>, part |-> <<>>, pieces |-> 0, tokens |-> 0,
     start |-> start, at |-> at]

Extend(st, n) ==
    [st EXCEPT !.part = IF @ = <<>> THEN <<Span(st.at, n)>>
                        ELSE <<[@[1] EXCEPT !.hi = st.at + n]>>,
               !.pieces = @ + 1,
               !.tokens = @ + Tokens(n),
               !.at = @ + n]

\* current_parts becomes a chunk, and the start moves on.
Flush(st) ==
    IF st.part = <<>> THEN st
    ELSE [st EXCEPT !.out = Append(@, Chunk(st.part, st.start, st.tokens, st.pieces)),
                    !.start = @ + (st.part[1].hi - st.part[1].lo),
                    !.part = <<>>, !.pieces = 0, !.tokens = 0]

\* Mutant of HardCut: the rest starts behind the sentence.
HardCutSkips(st, n) ==
    LET cut == 4 * ChunkTokens IN
    [st EXCEPT !.out = @ \o
                 <<Chunk(<<Span(st.at, cut)>>, st.start, Tokens(cut), 1),
                   Chunk(<<Span(st.at + cut, n - cut)>>, st.start + n,
                         Tokens(n - cut), 1)>>,
               !.at = @ + n]

\* A sentence over the limit: its first characters and the rest, however
\* long; the start does not move on.
HardCut(st, n) ==
    LET cut == 4 * ChunkTokens IN
    [st EXCEPT !.out = @ \o
                 <<Chunk(<<Span(st.at, cut)>>, st.start, Tokens(cut), 1),
                   Chunk(<<Span(st.at + cut, n - cut)>>, st.start + cut,
                         Tokens(n - cut), 1)>>,
               !.at = @ + n]

\* Mutant of LongStep: what was collected is not flushed before the cut.
LongStepForgets(st, n) ==
    IF st.tokens + Tokens(n) <= ChunkTokens THEN Extend(st, n)
    ELSE IF Tokens(n) > ChunkTokens
         THEN [HardCut(st, n) EXCEPT !.part = <<>>, !.pieces = 0, !.tokens = 0]
         ELSE Extend(Flush(st), n)

\* Mutant of LongStep: the limit is looked at sentence by sentence.
LongStepUnbounded(st, n) ==
    IF Tokens(n) <= ChunkTokens THEN Extend(st, n) ELSE HardCut(Flush(st), n)

LongStep(st, n) ==
    IF st.tokens + Tokens(n) <= ChunkTokens THEN Extend(st, n)
    ELSE IF Tokens(n) > ChunkTokens THEN HardCut(Flush(st), n)
         ELSE Extend(Flush(st), n)

\* base_chunking.py cuts a sentence only when nothing is collected.
BaseLongStep(st, n) ==
    IF st.tokens + Tokens(n) <= ChunkTokens THEN Extend(st, n)
    ELSE IF st.part = <<>> THEN HardCut(st, n)
         ELSE Extend(Flush(st), n)

\* `program` is "service" or "base", for base_chunking.py.
SplitLong(program, par, at, start) ==
    LET step(st, n) == IF program = "base" THEN BaseLongStep(st, n)
                       ELSE LongStep(st, n) IN
    Flush(FoldLeft(step, LongStart(at, start), par)).out

-----------------------------------------------------------------------------
(* _split_by_tokens: a fold over the paragraphs of a section.              *)

\* _create_chunk, from paragraphs [at, len, line].
Group(ps) == Chunk([i \in DOMAIN ps |-> Span(ps[i].at, ps[i].len)],
                   ps[1].start,
                   Sum([i \in DOMAIN ps |-> Tokens(ps[i].len)]),
                   Len(ps))

FlushGroup(st) == IF st.group = <<>> THEN st
                  ELSE [out |-> Append(st.out, Group(st.group)),
                        group |-> <<>>, tokens |-> 0]

ParStep(program, st, p) ==
    LET tokens == Tokens(p.len) IN
    IF tokens > ChunkTokens
    THEN LET flushed == FlushGroup(st) IN
         [flushed EXCEPT !.out = @ \o SplitLong(program, p.par, p.at, p.start)]
    ELSE IF st.tokens + tokens <= ChunkTokens
    THEN [st EXCEPT !.group = Append(@, p), !.tokens = @ + tokens]
    ELSE [FlushGroup(st) EXCEPT !.group = <<p>>, !.tokens = tokens]

SplitSection(program, sec, at) ==
    LET pars == [i \in DOMAIN sec |->
            [par |-> sec[i], len |-> ParLen(sec[i]), at |-> at + ParAt(sec, i),
             start |-> at + ParLine(i)]] IN
    IF Tokens(SecLen(sec)) <= ChunkTokens
    THEN <<Chunk([i \in DOMAIN sec |-> Span(pars[i].at, pars[i].len)], at,
                 Tokens(SecLen(sec)), Len(sec))>>
    ELSE FlushGroup(FoldLeft(LAMBDA st, p : ParStep(program, st, p),
                             [out |-> <<>>, group |-> <<>>, tokens |-> 0],
                             pars)).out

SplitWith(program, doc) ==
    Concat([n \in DOMAIN doc |-> SplitSection(program, doc[n], SecAt(doc, n))])

\* The header chunks of both programs, split by tokens.
SplitByTokens(doc) == SplitWith("service", doc)
BaseSplitByTokens(doc) == SplitWith("base", doc)

-----------------------------------------------------------------------------
(* _apply_sliding_window, over the lengths of the chunks.                  *)

Half == (IF WindowSize % 2 = 0 THEN WindowSize + 1 ELSE WindowSize) \div 2
Least(a, b) == IF a < b THEN a ELSE b
Most(a, b) == IF a > b THEN a ELSE b

JoinedLen(lens, lo, hi) == Sum([i \in 1..(hi - lo + 1) |-> lens[lo + i - 1]])
                           + 2 * (hi - lo)

Fits(w, len) == w.len + len + 2 <= MaxWindow

TryLeft(lens, w, i) ==
    IF Fits(w, lens[i]) THEN [w EXCEPT !.lo = i, !.len = @ + lens[i] + 2]
    ELSE [w EXCEPT !.leftBlocked = TRUE]
TryRight(lens, w, i) ==
    IF Fits(w, lens[i]) THEN [w EXCEPT !.hi = i, !.len = @ + lens[i] + 2]
    ELSE [w EXCEPT !.rightBlocked = TRUE]

\* The two chunks at a distance of the target, the shorter one first.
Widen(lens, lo, hi, w, target, distance) ==
    LET l == target - distance
        r == target + distance
        left == distance < target /\ l >= lo /\ ~w.leftBlocked
        right == r <= hi /\ ~w.rightBlocked IN
    IF left /\ right
    THEN IF lens[l] <= lens[r] THEN TryRight(lens, TryLeft(lens, w, l), r)
         ELSE TryLeft(lens, TryRight(lens, w, r), l)
    ELSE IF left THEN TryLeft(lens, w, l)
    ELSE IF right THEN TryRight(lens, w, r)
    ELSE w

\* Mutant of Truncate: the first chunk that does not fit blocks both sides.
TruncateBoth(lens, lo, hi, target) ==
    LET w0 == [lo |-> target, hi |-> target, len |-> lens[target],
               leftBlocked |-> FALSE, rightBlocked |-> FALSE]
        step(w, d) == IF w.leftBlocked \/ w.rightBlocked THEN w
                      ELSE Widen(lens, lo, hi, w, target, d) IN
    IF lens[target] >= MaxWindow THEN [w0 EXCEPT !.len = MaxWindow]
    ELSE FoldLeft(step, w0, [d \in 1..(hi - lo) |-> d])

\* _truncate_window_chunks: the target, cut if need be, and its neighbours
\* from the nearest outwards, each side until one does not fit.
Truncate(lens, lo, hi, target) ==
    LET w0 == [lo |-> target, hi |-> target, len |-> lens[target],
               leftBlocked |-> FALSE, rightBlocked |-> FALSE]
        step(w, d) == Widen(lens, lo, hi, w, target, d) IN
    IF lens[target] >= MaxWindow THEN [w0 EXCEPT !.len = MaxWindow]
    ELSE FoldLeft(step, w0, [d \in 1..(hi - lo) |-> d])

WindowOf(lens, i) ==
    LET lo == IF i > Half THEN i - Half ELSE 1
        hi == Least(Len(lens), i + Half)
        w == [lo |-> lo, hi |-> hi, len |-> JoinedLen(lens, lo, hi)] IN
    IF w.len <= MaxWindow THEN w
    ELSE LET t == Truncate(lens, lo, hi, i) IN
         [lo |-> t.lo, hi |-> t.hi, len |-> t.len]

Windows(chunks) ==
    LET lens == [i \in DOMAIN chunks |-> TextLen(chunks[i])] IN
    [i \in DOMAIN chunks |-> WindowOf(lens, i)]
=============================================================================
