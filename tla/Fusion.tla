-------------------------------- MODULE Fusion --------------------------------
(***************************************************************************)
(* Hybrid search (app/services/index.py, search_hybrid): the results of a  *)
(* vector query and of a text query are merged by their ranks.             *)
(*                                                                         *)
(* A hit is [entity, chunk, rep]; hits of an entity with the same chunk    *)
(* index share a key, whatever representation they come from.  Scores are  *)
(* weight / (RrfK + rank + 1), here as integers over a common denominator. *)
(***************************************************************************)
EXTENDS Naturals, Sequences, SequencesExt, FiniteSets, FiniteSetsExt

CONSTANTS RrfK,       \* rrf_k
          Semantic,   \* semantic_weight, in tenths
          Lexical,    \* lexical_weight, in tenths
          MaxRank     \* bound: ranks that occur

ASSUME FusionAssumption ==
    RrfK \in Nat /\ Semantic \in Nat /\ Lexical \in Nat /\ MaxRank \in Nat

Key(hit) == <<hit.entity, hit.chunk>>

\* Divisible by every RrfK + rank + 1.
Denominator == FoldLeft(LAMBDA a, b : a * b, 1,
                        [r \in 1..MaxRank |-> RrfK + r])

Score(weight, rank) == weight * (Denominator \div (RrfK + rank))

Found(results, key) == {r \in DOMAIN results : Key(results[r]) = key}

\* What the ranks of a key in one list add to its score.
Part(results, weight, key) ==
    MapThenSumSet(LAMBDA r : Score(weight, r), Found(results, key))

\* Mutant of Merged: the later list overwrites the score.
MergedLast(semantic, lexical, key) ==
    IF Found(lexical, key) # {} THEN Part(lexical, Lexical, key)
    ELSE Part(semantic, Semantic, key)

Merged(semantic, lexical, key) ==
    Part(semantic, Semantic, key) + Part(lexical, Lexical, key)

\* Keys in the order of their first insertion into the dictionary.
Inserted(semantic, lexical) ==
    FoldLeft(LAMBDA ks, hit : IF Contains(ks, Key(hit)) THEN ks
                              ELSE Append(ks, Key(hit)),
             <<>>, semantic \o lexical)

\* The hit shown for a key: the last semantic one, else the first lexical.
Shown(semantic, lexical, key) ==
    IF Found(semantic, key) # {} THEN semantic[Max(Found(semantic, key))]
    ELSE lexical[Min(Found(lexical, key))]

\* The best topK, by a stable sort, so that the first inserted wins a tie.
Ranked(semantic, lexical, keys) ==
    LET better(i, j) ==
            LET a == Merged(semantic, lexical, keys[i])
                b == Merged(semantic, lexical, keys[j]) IN
            a > b \/ (a = b /\ i < j)
        place(i) == 1 + Cardinality({j \in DOMAIN keys : j # i /\ better(j, i)}) IN
    [p \in DOMAIN keys |-> keys[CHOOSE i \in DOMAIN keys : place(i) = p]]

SearchHybrid(semantic, lexical, topK) ==
    LET fetch == 3 * topK
        sem == SubSeq(semantic, 1, Min({fetch, Len(semantic)}))
        lex == SubSeq(lexical, 1, Min({fetch, Len(lexical)}))
        ranked == Ranked(sem, lex, Inserted(sem, lex)) IN
    [p \in 1..Min({topK, Len(ranked)}) |->
        [hit |-> Shown(sem, lex, ranked[p]),
         score |-> Merged(sem, lex, ranked[p])]]
=============================================================================
