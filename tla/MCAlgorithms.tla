----------------------------- MODULE MCAlgorithms -----------------------------
(***************************************************************************)
(* Inputs for Algorithms: all small texts, contents, outlines and lists.   *)
(***************************************************************************)
EXTENDS Algorithms

CONSTANTS SentenceLens, MaxPars, TextLength, MaxLines, ListLength

SeqsUpTo(S, n) == UNION {[1..m -> S] : m \in 1..n}

\* One or two sentences, and the empty one after a last punctuation mark.
Paragraphs ==
    LET full == SeqsUpTo(SentenceLens, 2) IN
    full \cup {Append(p, 0) : p \in full}

MCDocuments ==
    LET secs == SeqsUpTo(Paragraphs, MaxPars) IN
    SeqsUpTo(secs, 1) \cup {<<a, b>> : a \in SeqsUpTo(Paragraphs, 1), b \in secs}

\* The content of a section is stripped before it is split.
Stripped(chars) == {t \in [1..TextLength -> chars] : t[1] # "n" /\ t[TextLength] # "n"}

\* A long table behind a code block: a slice of six characters ends in the
\* table, and is cut after three.
TableAhead == <<"f", "n", "x", "n", "f", "n", "|", "|", "|", "|">>

\* Sentences and tables, code blocks of both fences, separators.
MCContents ==
    [text : UNION {Stripped({"x", ".", "n", "|"}), Stripped({"x", "n", "|", "f"}),
                   Stripped({"x", "n", "f", "g"}), Stripped({"x", "n", "-"}),
                   Stripped({"-", "n", "f"})},
     prefix : {1}, limit : {1, 2, 3}]
    \cup [text : {TableAhead}, prefix : {1}, limit : {4}]

MCOutlines == UNION {[1..n -> 0..3] : n \in 1..MaxLines}

Hits == [entity : {"e1", "e2"}, chunk : {0, 1}, rep : {"canonical_md"}]
        \cup [entity : {"e1"}, chunk : {0}, rep : {"rep_xml"}]
HitLists == UNION {{l \in [1..n -> Hits] : IsInjective(l)} : n \in 0..ListLength}
MCResultLists == HitLists \X HitLists

\* Two chains of different lengths from docx to md, and a cycle.
Steps ==
    LET step(i, o) == [name |-> <<i, o>>, input |-> i, output |-> o] IN
    {step("docx", "pdf"), step("pdf", "md"), step("docx", "png"),
     step("png", "txt"), step("txt", "md"), step("txt", "docx")}
MCRegistries ==
    UNION {{s \in [1..n -> Steps] : IsInjective(s)} : n \in 1..Cardinality(Steps)}
    \cup {<<s, t, s>> : s \in Steps, t \in Steps}
=============================================================================
