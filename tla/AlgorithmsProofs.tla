-------------------------- MODULE AlgorithmsProofs --------------------------
(***************************************************************************)
(* Proofs about the algorithms: for every text and every limit, the chunks *)
(* of either program take each character once and in order, and the        *)
(* service's chunks keep their limit, start no further down than their     *)
(* text, and have the best window around them; for every outline, the      *)
(* sections of a library have the paths of the headers that enclose them;  *)
(* for every section of a library, its chunks take its text, have the best *)
(* windows, and cut a table or code block only where the search gives up;  *)
(* for any two result lists, their fusion does not turn around what both   *)
(* of them say; and for any registered steps, the chain that is found is a *)
(* shortest one.                                                           *)
(*                                                                         *)
(* Induction is the lemma UpTo, about sets of numbers: a set that has 0    *)
(* and with k - 1 also k has all of 0..n, or else the pigeonhole theorem   *)
(* is contradicted.  The folds of SequencesExt are CHOSEN recursive        *)
(* functions; FoldExists shows that there is one, and FoldSteps that it    *)
(* goes through a sequence of values, a trace, which each loop of the code *)
(* is then reasoned about with.                                            *)
(***************************************************************************)
EXTENDS Algorithms, FiniteSetTheorems, SequenceTheorems, TLAPS

-----------------------------------------------------------------------------
(* Induction, and the folds of SequencesExt as sequences of steps.          *)

\* Induction over 0..n: two elements of the rest of it below its least element
\* would have the same predecessor.
LEMMA UpTo ==
    ASSUME NEW n \in Nat, NEW S, 0 \in S, \A k \in 1..n : k - 1 \in S => k \in S
    PROVE  0..n \subseteq S
<1>1. SUFFICES ASSUME NEW x \in 0..n, x \notin S PROVE FALSE
  OBVIOUS
<1> DEFINE A == {y \in 0..x : y \notin S}
           B == A \ {x}
           f == [y \in A |-> y - 1]
<1>2. IsFiniteSet(A) /\ x \in A
  <2>1. IsFiniteSet(0..x)
    BY FS_Interval
  <2>2. A \in SUBSET (0..x) /\ x \in A
    BY <1>1
  <2> HIDE DEF A
  <2> QED BY <2>1, <2>2, FS_Subset
<1>3. /\ IsFiniteSet(B)
      /\ Cardinality(B) < Cardinality(A)
  <2> HIDE DEF A
  <2>1. /\ IsFiniteSet(B)
        /\ Cardinality(B) = Cardinality(A) - 1
    BY <1>2, FS_RemoveElement
  <2>2. Cardinality(A) \in Nat
    BY <1>2, FS_CardinalityType
  <2> HIDE DEF B
  <2> QED BY <2>1, <2>2
<1>4. f \in [A -> B]
  <2>1. \A y \in A : y - 1 \in B
    OBVIOUS
  <2> QED BY <2>1
<1>5. \E y, z \in A : y # z /\ f[y] = f[z]
  <2> HIDE DEF A, f, B
  <2> QED BY <1>2, <1>3, <1>4, FS_PigeonHole
<1>6. A \subseteq Nat
  OBVIOUS
<1> QED
  BY <1>5, <1>6

\* An element of a sequence.
LEMMA ElementOf ==
    ASSUME NEW R, NEW s \in Seq(R), NEW k \in 1..Len(s)
    PROVE  s[k] \in R
OBVIOUS

\* A sequence with one element more.
LEMMA Appended ==
    ASSUME NEW R, NEW s \in Seq(R), NEW x \in R
    PROVE  /\ Append(s, x) \in Seq(R) /\ Len(Append(s, x)) = Len(s) + 1
           /\ Append(s, x)[Len(s) + 1] = x
           /\ \A i \in 1..Len(s) : Append(s, x)[i] = s[i]
OBVIOUS

\* Max is the largest element of a set of numbers.
LEMMA MaxIsIn ==
    ASSUME NEW n \in Nat, NEW S \in SUBSET (1..n), S # {}
    PROVE  Max(S) \in S /\ \A y \in S : y <= Max(S)
<1> DEFINE HasMax(T) == T # {} => \E x \in T : \A y \in T : x >= y
           P == {k \in 0..n : \A T \in SUBSET (1..k) : HasMax(T)}
<1>1. 0 \in P
  <2>1. \A T \in SUBSET (1..0) : T = {}
    OBVIOUS
  <2>2. \A T \in SUBSET (1..0) : HasMax(T)
    BY <2>1
  <2> HIDE DEF HasMax
  <2> QED BY <2>2
<1>2. \A k \in 1..n : k - 1 \in P => k \in P
  <2> TAKE k \in 1..n
  <2> HAVE k - 1 \in P
  <2>1. ASSUME NEW T \in SUBSET (1..k), T # {}
        PROVE  \E x \in T : \A y \in T : x >= y
    <3>1. CASE k \in T
      BY <3>1
    <3>2. CASE k \notin T
      <4>1. T \in SUBSET (1..(k - 1))
        BY <3>2
      <4> QED BY <4>1, <2>1
    <3> QED BY <3>1, <3>2
  <2> QED BY <2>1
<1>3. n \in P
  <2> HIDE DEF P
  <2>1. 0..n \subseteq P
    BY <1>1, <1>2, UpTo
  <2> QED BY <2>1
<1>4. \E x \in S : \A y \in S : x >= y
  BY <1>3
<1> QED
  BY <1>4 DEF Max

\* The largest element of a set and the rest of it.
LEMMA MaxAndRest ==
    ASSUME NEW k \in Nat, NEW S \in SUBSET (1..k), S # {}
    PROVE  /\ Max(S) \in 1..k
           /\ S \ {Max(S)} \in SUBSET (1..(k - 1))
<1>1. Max(S) \in S /\ \A y \in S : y <= Max(S)
  BY MaxIsIn
<1>2. Max(S) \in 1..k
  BY <1>1
<1>3. ASSUME NEW y \in S, y # Max(S) PROVE y \in 1..(k - 1)
  BY <1>1, <1>2, <1>3
<1> QED
  BY <1>2, <1>3

\* The largest element of 1..k, and the rest of it.
LEMMA InitialSegment ==
    ASSUME NEW k \in Nat \ {0}
    PROVE  Max(1..k) = k /\ (1..k) \ {k} = 1..(k - 1) /\ 1..k # {}
<1>1. Max(1..k) \in 1..k /\ \A y \in 1..k : y <= Max(1..k)
  <2>1. 1..k \in SUBSET (1..k) /\ 1..k # {}
    OBVIOUS
  <2> QED BY <2>1, MaxIsIn
<1> QED BY <1>1

\* The recursive function of MapThenFoldSet, when step k turns v into G[k, v].
Folds(n, b, G, it) ==
    \A S \in SUBSET (1..n) :
        it[S] = IF S = {} THEN b ELSE G[<<Max(S), it[S \ {Max(S)}]>>]

\* The values that a fold goes through.
Trace(n, b, G, v) ==
    /\ v[0] = b
    /\ \A k \in 1..n : v[k] = G[<<k, v[k - 1]>>]

\* Once a step has led into V, the recursive function takes the steps of G.
Follow(n, V, b, G, it) ==
    /\ it[{}] = b
    /\ \A k \in 1..n :
          it[1..(k - 1)] \in V => it[1..k] = G[<<k, it[1..(k - 1)]>>]

\* The recursive function of a fold exists, so CHOOSE finds one.
LEMMA FoldExists ==
    ASSUME NEW n \in Nat, NEW V, NEW b \in V, NEW G \in [(1..n) \X V -> V]
    PROVE  \E it \in [SUBSET (1..n) -> V] : Folds(n, b, G, it)
<1> DEFINE P == {k \in 0..n : \E it \in [SUBSET (1..k) -> V] : Folds(k, b, G, it)}
<1>1. 0 \in P
  <2> DEFINE it == [S \in SUBSET (1..0) |-> b]
  <2>1. it \in [SUBSET (1..0) -> V]
    OBVIOUS
  <2>2. \A S \in SUBSET (1..0) : S = {} /\ it[S] = b
    OBVIOUS
  <2>3. Folds(0, b, G, it)
    BY <2>2 DEF Folds
  <2> HIDE DEF it
  <2>4. \E jt \in [SUBSET (1..0) -> V] : Folds(0, b, G, jt)
    BY <2>1, <2>3
  <2>5. 0 \in 0..n
    OBVIOUS
  <2> QED BY <2>4, <2>5, Zenon
<1>2. \A k \in 1..n : k - 1 \in P => k \in P
  <2> TAKE k \in 1..n
  <2> HAVE k - 1 \in P
  <2>1. PICK it \in [SUBSET (1..(k - 1)) -> V] : Folds(k - 1, b, G, it)
    OBVIOUS
  <2> DEFINE F(S) == IF S = {} THEN b ELSE G[<<Max(S), it[S \ {Max(S)}]>>]
             jt == [S \in SUBSET (1..k) |-> F(S)]
  <2>2. \A S \in SUBSET (1..k) :
           S # {} => Max(S) \in 1..k /\ S \ {Max(S)} \in SUBSET (1..(k - 1))
    BY MaxAndRest
  <2>3. jt \in [SUBSET (1..k) -> V]
    <3>1. ASSUME NEW S \in SUBSET (1..k) PROVE F(S) \in V
      <4>1. CASE S = {}
        BY <4>1
      <4>2. CASE S # {}
        <5>1. <<Max(S), it[S \ {Max(S)}]>> \in (1..n) \X V
          BY <4>2, <2>2
        <5> QED BY <5>1, <4>2
      <4> QED BY <4>1, <4>2
    <3> HIDE DEF F
    <3> QED BY <3>1
  <2>4. \A S \in SUBSET (1..(k - 1)) : jt[S] = it[S]
    <3> TAKE S \in SUBSET (1..(k - 1))
    <3>1. S \in SUBSET (1..k)
      OBVIOUS
    <3>2. it[S] = F(S)
      BY <2>1 DEF Folds
    <3> HIDE DEF F
    <3> QED BY <3>1, <3>2
  <2>5. Folds(k, b, G, jt)
    <3>1. ASSUME NEW S \in SUBSET (1..k)
          PROVE  jt[S] = IF S = {} THEN b ELSE G[<<Max(S), jt[S \ {Max(S)}]>>]
      <4>1. jt[S] = F(S)
        OBVIOUS
      <4> HIDE DEF jt
      <4> QED BY <4>1, <2>2, <2>4
    <3> HIDE DEF jt
    <3> QED BY <3>1 DEF Folds
  <2> HIDE DEF jt
  <2>6. \E gt \in [SUBSET (1..k) -> V] : Folds(k, b, G, gt)
    BY <2>3, <2>5
  <2> QED BY <2>6
<1>3. n \in P
  <2> HIDE DEF P
  <2>1. 0..n \subseteq P
    BY <1>1, <1>2, UpTo
  <2> QED BY <2>1
<1> QED
  BY <1>3

\* Then the fold goes through a trace of G.
Leads(n, b, G, it, v) == Trace(n, b, G, v) /\ v[n] = it[1..n]

\* A fold over a sequence goes through the values of its first elements.
LEMMA FoldSteps ==
    ASSUME NEW n \in Nat, NEW V, NEW b \in V, NEW G \in [(1..n) \X V -> V],
           NEW it, Follow(n, V, b, G, it)
    PROVE  \E v \in [0..n -> V] : Leads(n, b, G, it, v)
<1> DEFINE v == [k \in 0..n |-> it[1..k]]
           P == {k \in 0..n : it[1..k] \in V}
<1>1. it[1..0] = b
  <2>1. 1..0 = {}
    OBVIOUS
  <2> QED BY <2>1 DEF Follow
<1>2. 0 \in P
  BY <1>1
<1>3. \A k \in 1..n : k - 1 \in P => k \in P
  <2> TAKE k \in 1..n
  <2> HAVE k - 1 \in P
  <2>1. <<k, it[1..(k - 1)]>> \in (1..n) \X V
    OBVIOUS
  <2>2. G[<<k, it[1..(k - 1)]>>] \in V
    BY <2>1
  <2> QED BY <2>2 DEF Follow
<1>4. \A k \in 0..n : it[1..k] \in V
  <2> HIDE DEF P
  <2>1. 0..n \subseteq P
    BY <1>2, <1>3, UpTo
  <2> QED BY <2>1 DEF P
<1>5. v \in [0..n -> V] /\ v[0] = b /\ v[n] = it[1..n]
  BY <1>1, <1>4
<1>6. \A k \in 1..n : v[k] = G[<<k, v[k - 1]>>]
  BY <1>4 DEF Follow
<1> HIDE DEF v
<1> QED BY <1>5, <1>6 DEF Trace, Leads

-----------------------------------------------------------------------------
(* Sums.                                                                   *)

\* Sum adds one element after the other.
LEMMA SumTrace ==
    ASSUME NEW s \in Seq(Nat)
    PROVE  \E v \in [0..Len(s) -> Nat] :
              /\ v[0] = 0
              /\ \A k \in 1..Len(s) : v[k] = v[k - 1] + s[k]
              /\ Sum(s) = v[Len(s)]
<1> DEFINE n == Len(s)
           Eq(it) == it = [S \in SUBSET DOMAIN s |->
                              IF S = {} THEN 0 ELSE it[S \ {Max(S)}] + s[Max(S)]]
           it0 == CHOOSE it : Eq(it)
           G == [x \in (1..n) \X Nat |-> x[2] + s[x[1]]]
           zero == 0
<1>1. Sum(s) = it0[DOMAIN s]
  BY DEF Sum, FoldLeft, MapThenFoldSet
<1>2. n \in Nat /\ DOMAIN s = 1..n /\ \A k \in 1..n : s[k] \in Nat
  OBVIOUS
<1>3. G \in [(1..n) \X Nat -> Nat] /\ zero \in Nat
  BY <1>2
<1>4. \A k \in 1..n, m \in Nat : G[<<k, m>>] = m + s[k]
  OBVIOUS
<1> HIDE DEF G, n
<1>5. \E it : Eq(it)
  <2>1. PICK it \in [SUBSET (1..n) -> Nat] : Folds(n, 0, G, it)
    BY <1>2, <1>3, FoldExists
  <2>2. ASSUME NEW S \in SUBSET (1..n)
        PROVE  it[S] = IF S = {} THEN 0 ELSE it[S \ {Max(S)}] + s[Max(S)]
    <3>1. it[S] = IF S = {} THEN 0 ELSE G[<<Max(S), it[S \ {Max(S)}]>>]
      BY <2>1 DEF Folds
    <3>2. S # {} => Max(S) \in 1..n /\ it[S \ {Max(S)}] \in Nat
      <4> HAVE S # {}
      <4>1. Max(S) \in 1..n
        BY <1>2, MaxAndRest
      <4> QED BY <4>1
    <3> QED BY <3>1, <3>2, <1>4
  <2> QED BY <2>2, <1>2
<1>6. Eq(it0)
  <2> HIDE DEF Eq
  <2> QED BY <1>5
<1> HIDE DEF it0
<1>7. it0[{}] = 0
  <2>1. {} \in SUBSET DOMAIN s
    OBVIOUS
  <2> QED BY <1>6, <2>1
<1>8. \A k \in 1..n : it0[1..(k - 1)] \in Nat => it0[1..k] = G[<<k, it0[1..(k - 1)]>>]
  <2> TAKE k \in 1..n
  <2> HAVE it0[1..(k - 1)] \in Nat
  <2>1. 1..k \in SUBSET DOMAIN s /\ k \in Nat \ {0}
    BY <1>2
  <2>2. Max(1..k) = k /\ (1..k) \ {k} = 1..(k - 1) /\ 1..k # {}
    BY <2>1, InitialSegment
  <2>3. it0[1..k] = it0[1..(k - 1)] + s[k]
    BY <1>6, <2>1, <2>2
  <2> QED BY <2>3, <1>4
<1> HIDE DEF Eq
<1>9. Follow(n, Nat, zero, G, it0)
  BY <1>7, <1>8 DEF Follow
<1> HIDE DEF zero
<1>10. PICK v \in [0..n -> Nat] : Leads(n, zero, G, it0, v)
  BY <1>2, <1>3, <1>9, FoldSteps
<1>11. ASSUME NEW k \in 1..n PROVE v[k] = v[k - 1] + s[k]
  <2>1. v[k] = G[<<k, v[k - 1]>>]
    BY <1>10 DEF Leads, Trace
  <2>2. v[k - 1] \in Nat
    BY <1>2
  <2> QED BY <2>1, <2>2, <1>4
<1>12. Sum(s) = v[n] /\ v[0] = 0
  BY <1>1, <1>2, <1>10 DEF Leads, Trace, zero
<1> QED
  BY <1>11, <1>12 DEF n

\* The lengths of joined chunks are differences of one sequence of sums.
Sums(lens, p) ==
    /\ p \in [0..Len(lens) -> Nat]
    /\ \A k \in 1..Len(lens) : p[k] = p[k - 1] + lens[k]
    /\ \A a, b \in 1..Len(lens) :
          a <= b => JoinedLen(lens, a, b) = p[b] - p[a - 1] + 2 * (b - a)

\* The lengths of joined chunks are differences of prefix sums.
LEMMA SumsExist ==
    ASSUME NEW lens \in Seq(Nat)
    PROVE  \E p : Sums(lens, p)
<1> DEFINE n == Len(lens)
<1>1. PICK p \in [0..n -> Nat] :
              /\ p[0] = 0
              /\ \A k \in 1..n : p[k] = p[k - 1] + lens[k]
              /\ Sum(lens) = p[n]
  BY SumTrace
<1>2. n \in Nat /\ DOMAIN lens = 1..n /\ \A k \in 1..n : lens[k] \in Nat
  OBVIOUS
<1>3. ASSUME NEW a \in 1..n, NEW b \in 1..n, a <= b
      PROVE  JoinedLen(lens, a, b) = p[b] - p[a - 1] + 2 * (b - a)
  <2> DEFINE m == b - a + 1
             s == [i \in 1..m |-> lens[a + i - 1]]
  <2>1. m \in Nat /\ \A i \in 1..m : a + i - 1 \in 1..n
    BY <1>2, <1>3
  <2> HIDE DEF n, m
  <2>2. s \in Seq(Nat) /\ Len(s) = m /\ \A i \in 1..m : s[i] = lens[a + i - 1]
    <3>1. \A i \in 1..m : lens[a + i - 1] \in Nat
      BY <1>2, <2>1
    <3> QED BY <3>1, <2>1
  <2>3. JoinedLen(lens, a, b) = Sum(s) + 2 * (b - a)
    BY DEF JoinedLen, m
  <2> HIDE DEF s
  <2>4. PICK v \in [0..m -> Nat] :
              /\ v[0] = 0
              /\ \A k \in 1..m : v[k] = v[k - 1] + s[k]
              /\ Sum(s) = v[m]
    BY <2>2, SumTrace
  <2> DEFINE P == {k \in 0..m : v[k] = p[a + k - 1] - p[a - 1]}
  <2>5. a \in Nat /\ a - 1 \in 0..n /\ \A k \in 0..m : a + k - 1 \in 0..n
    BY <1>2, <2>1, <1>3 DEF m
  <2>6. 0 \in P
    <3>1. a + 0 - 1 = a - 1 /\ 0 \in 0..m
      BY <2>1, <2>5
    <3>2. p[a - 1] \in Nat
      BY <2>5
    <3>3. v[0] = p[a + 0 - 1] - p[a - 1]
      BY <2>4, <3>1, <3>2
    <3> QED BY <3>1, <3>3
  <2>7. \A k \in 1..m : k - 1 \in P => k \in P
    <3> TAKE k \in 1..m
    <3> HAVE k - 1 \in P
    <3>1. v[k] = v[k - 1] + s[k] /\ s[k] = lens[a + k - 1]
      BY <2>2, <2>4
    <3>2. a + k - 1 \in 1..n /\ (a + (k - 1)) - 1 = (a + k - 1) - 1
      BY <2>1, <1>2
    <3>3. p[a + k - 1] = p[(a + k - 1) - 1] + lens[a + k - 1]
      BY <3>2, <1>1
    <3>4. v[k - 1] = p[(a + k - 1) - 1] - p[a - 1]
      BY <3>2
    <3>5. lens[a + k - 1] \in Nat
      BY <1>2, <3>2, Zenon
    <3>6. p[(a + k - 1) - 1] \in Nat
      <4>1. (a + k - 1) - 1 \in 0..n
        BY <3>2, <1>2
      <4> HIDE DEF P
      <4> QED BY <4>1
    <3>7. p[a - 1] \in Nat
      BY <2>5
    <3>8. /\ p[(a + k - 1) - 1] \in Nat /\ p[a - 1] \in Nat
          /\ lens[a + k - 1] \in Nat
      BY <3>5, <3>6, <3>7, Zenon
    <3>9. v[k] = p[a + k - 1] - p[a - 1]
      <4> HIDE DEF P
      <4> QED BY <3>1, <3>3, <3>4, <3>8
    <3> QED BY <3>9
  <2>8. m \in P
    <3> HIDE DEF P
    <3>1. 0..m \subseteq P
      BY <2>1, <2>6, <2>7, UpTo
    <3> QED BY <3>1, <2>1
  <2>9. v[m] = p[b] - p[a - 1]
    <3>1. a + m - 1 = b
      BY <2>5, <1>2 DEF m
    <3> QED BY <2>8, <3>1
  <2> QED BY <2>3, <2>4, <2>9
<1> QED
  BY <1>1, <1>3 DEF Sums

-----------------------------------------------------------------------------
(* The windows around chunks.                                              *)

WindowRecord == [lo : Int, hi : Int, len : Int, leftBlocked : BOOLEAN,
                 rightBlocked : BOOLEAN]

LeftTo(w, k, e) == [w EXCEPT !.lo = k, !.len = e]
RightTo(w, k, e) == [w EXCEPT !.hi = k, !.len = e]
BlockLeft(w) == [w EXCEPT !.leftBlocked = TRUE]
BlockRight(w) == [w EXCEPT !.rightBlocked = TRUE]

\* What the four updates of a window change and leave alone.
LEMMA WindowUpdates ==
    ASSUME NEW w \in WindowRecord, NEW k \in Int, NEW e \in Int
    PROVE  /\ LET v == LeftTo(w, k, e) IN
                 /\ v \in WindowRecord
                 /\ v.lo = k /\ v.hi = w.hi /\ v.len = e
                 /\ v.leftBlocked <=> w.leftBlocked
                 /\ v.rightBlocked <=> w.rightBlocked
           /\ LET v == RightTo(w, k, e) IN
                 /\ v \in WindowRecord
                 /\ v.lo = w.lo /\ v.hi = k /\ v.len = e
                 /\ v.leftBlocked <=> w.leftBlocked
                 /\ v.rightBlocked <=> w.rightBlocked
           /\ LET v == BlockLeft(w) IN
                 /\ v \in WindowRecord
                 /\ v.lo = w.lo /\ v.hi = w.hi /\ v.len = w.len
                 /\ v.leftBlocked
                 /\ v.rightBlocked <=> w.rightBlocked
           /\ LET v == BlockRight(w) IN
                 /\ v \in WindowRecord
                 /\ v.lo = w.lo /\ v.hi = w.hi /\ v.len = w.len
                 /\ v.leftBlocked <=> w.leftBlocked
                 /\ v.rightBlocked
<1>1. /\ LeftTo(w, k, e) \in WindowRecord /\ RightTo(w, k, e) \in WindowRecord
      /\ BlockLeft(w) \in WindowRecord /\ BlockRight(w) \in WindowRecord
  BY DEF LeftTo, RightTo, BlockLeft, BlockRight, WindowRecord
<1>2. LET v == LeftTo(w, k, e) IN
         /\ v.lo = k /\ v.hi = w.hi /\ v.len = e
         /\ v.leftBlocked <=> w.leftBlocked
         /\ v.rightBlocked <=> w.rightBlocked
  BY DEF LeftTo, WindowRecord
<1>3. LET v == RightTo(w, k, e) IN
         /\ v.lo = w.lo /\ v.hi = k /\ v.len = e
         /\ v.leftBlocked <=> w.leftBlocked
         /\ v.rightBlocked <=> w.rightBlocked
  BY DEF RightTo, WindowRecord
<1>4. LET v == BlockLeft(w) IN
         /\ v.lo = w.lo /\ v.hi = w.hi /\ v.len = w.len
         /\ v.leftBlocked
         /\ v.rightBlocked <=> w.rightBlocked
  BY DEF BlockLeft, WindowRecord
<1>5. LET v == BlockRight(w) IN
         /\ v.lo = w.lo /\ v.hi = w.hi /\ v.len = w.len
         /\ v.leftBlocked <=> w.leftBlocked
         /\ v.rightBlocked
  BY DEF BlockRight, WindowRecord
<1> QED
  BY <1>1, <1>2, <1>3, <1>4, <1>5, Zenon

\* A step of the search yields a window.
LEMMA WidenType ==
    ASSUME NEW lens \in Seq(Nat), NEW lo \in 1..Len(lens), NEW hi \in 1..Len(lens),
           NEW i \in 1..Len(lens), lo <= i, i <= hi,
           NEW w \in WindowRecord, NEW d \in 1..(hi - lo)
    PROVE  Widen(lens, lo, hi, w, i, d) \in WindowRecord
<1>1. ASSUME NEW u \in WindowRecord, NEW k \in 1..Len(lens)
      PROVE  TryLeft(lens, u, k) \in WindowRecord /\ TryRight(lens, u, k) \in WindowRecord
  <2>1. lens[k] \in Nat
    BY ElementOf
  <2>2. u.len \in Int
    BY DEF WindowRecord
  <2>3. lens[k] \in Nat /\ k \in Int /\ u.len \in Int
    BY <2>1, <2>2
  <2>4. CASE Fits(u, lens[k])
    <3>1. u.len + lens[k] + 2 \in Int
      <4>1. \A x, y \in Int : x + y + 2 \in Int
        OBVIOUS
      <4>2. lens[k] \in Int
        BY <2>3
      <4> QED BY <2>3, <4>1, <4>2, Zenon
    <3>2. PICK e \in Int : e = u.len + lens[k] + 2
      BY <3>1
    <3>3. TryLeft(lens, u, k) = LeftTo(u, k, e) /\ TryRight(lens, u, k) = RightTo(u, k, e)
      BY <2>4, <3>2, Zenon DEF TryLeft, TryRight, LeftTo, RightTo
    <3>4. LeftTo(u, k, e) \in WindowRecord /\ RightTo(u, k, e) \in WindowRecord
      BY <2>3, <3>2 DEF LeftTo, RightTo, WindowRecord
    <3> QED BY <3>3, <3>4
  <2>5. CASE ~ Fits(u, lens[k])
    <3>1. TryLeft(lens, u, k) = BlockLeft(u) /\ TryRight(lens, u, k) = BlockRight(u)
      BY <2>5, Zenon DEF TryLeft, TryRight, BlockLeft, BlockRight
    <3>2. BlockLeft(u) \in WindowRecord /\ BlockRight(u) \in WindowRecord
      BY DEF BlockLeft, BlockRight, WindowRecord
    <3> QED BY <3>1, <3>2
  <2> QED BY <2>4, <2>5
<1>2. /\ i - d >= lo => i - d \in 1..Len(lens)
      /\ i + d <= hi => i + d \in 1..Len(lens)
  OBVIOUS
<1> QED
  BY <1>1, <1>2 DEF Widen

\* The search of _truncate_window_chunks goes through its distances in turn.
LEMMA TruncateTrace ==
    ASSUME NEW lens \in Seq(Nat), NEW lo \in 1..Len(lens), NEW hi \in 1..Len(lens),
           NEW i \in 1..Len(lens), lo <= i, i <= hi, ~ lens[i] >= MaxWindow
    PROVE  \E v \in [0..(hi - lo) -> WindowRecord] :
              /\ v[0] = [lo |-> i, hi |-> i, len |-> lens[i],
                         leftBlocked |-> FALSE, rightBlocked |-> FALSE]
              /\ \A d \in 1..(hi - lo) : v[d] = Widen(lens, lo, hi, v[d - 1], i, d)
              /\ Truncate(lens, lo, hi, i) = v[hi - lo]
<1> DEFINE n == hi - lo
           s == [d \in 1..n |-> d]
           w0 == [lo |-> i, hi |-> i, len |-> lens[i],
                  leftBlocked |-> FALSE, rightBlocked |-> FALSE]
           Step(it, S) == IF S = {} THEN w0
                          ELSE Widen(lens, lo, hi, it[S \ {Max(S)}], i, s[Max(S)])
           Eq(it) == it = [S \in SUBSET DOMAIN s |-> Step(it, S)]
           it0 == CHOOSE it : Eq(it)
           G == [x \in (1..n) \X WindowRecord |-> Widen(lens, lo, hi, x[2], i, x[1])]
<1>1. Truncate(lens, lo, hi, i) = it0[DOMAIN s]
  BY DEF Truncate, FoldLeft, MapThenFoldSet
<1>2. n \in Nat /\ DOMAIN s = 1..n /\ \A k \in 1..n : s[k] = k
  OBVIOUS
<1>3. G \in [(1..n) \X WindowRecord -> WindowRecord] /\ w0 \in WindowRecord
  <2>1. \A x \in (1..n) \X WindowRecord :
           Widen(lens, lo, hi, x[2], i, x[1]) \in WindowRecord
    BY WidenType
  <2>2. w0 \in WindowRecord
    BY DEF WindowRecord
  <2> QED BY <2>1, <2>2
<1>4. \A k \in 1..n, w \in WindowRecord : G[<<k, w>>] = Widen(lens, lo, hi, w, i, k)
  OBVIOUS
<1> HIDE DEF G, n, w0, s
<1>5. \E it : Eq(it)
  <2>1. PICK it \in [SUBSET (1..n) -> WindowRecord] : Folds(n, w0, G, it)
    BY <1>2, <1>3, FoldExists
  <2>2. ASSUME NEW S \in SUBSET (1..n)
        PROVE  it[S] = Step(it, S)
    <3>1. it[S] = IF S = {} THEN w0 ELSE G[<<Max(S), it[S \ {Max(S)}]>>]
      BY <2>1 DEF Folds
    <3>2. S # {} => Max(S) \in 1..n /\ it[S \ {Max(S)}] \in WindowRecord
      <4> HAVE S # {}
      <4>1. Max(S) \in 1..n
        BY <1>2, MaxAndRest
      <4> QED BY <4>1
    <3> QED BY <3>1, <3>2, <1>4, <1>2
  <2> HIDE DEF Step
  <2>3. it = [S \in SUBSET (1..n) |-> Step(it, S)]
    BY <2>2
  <2>4. Eq(it)
    BY <2>3, <1>2
  <2> HIDE DEF Eq
  <2> QED BY <2>4
<1>6. Eq(it0)
  <2> HIDE DEF Eq
  <2> QED BY <1>5
<1> HIDE DEF it0
<1>7. it0[{}] = w0
  <2>1. {} \in SUBSET DOMAIN s
    OBVIOUS
  <2> QED BY <1>6, <2>1
<1>8. \A k \in 1..n : it0[1..(k - 1)] \in WindowRecord =>
                         it0[1..k] = G[<<k, it0[1..(k - 1)]>>]
  <2> TAKE k \in 1..n
  <2> HAVE it0[1..(k - 1)] \in WindowRecord
  <2>1. 1..k \in SUBSET DOMAIN s /\ k \in Nat \ {0}
    BY <1>2
  <2>2. Max(1..k) = k /\ (1..k) \ {k} = 1..(k - 1) /\ 1..k # {}
    BY <2>1, InitialSegment
  <2>3. it0[1..k] = Widen(lens, lo, hi, it0[1..(k - 1)], i, s[k])
    BY <1>6, <2>1, <2>2
  <2> QED BY <2>3, <1>4, <1>2
<1> HIDE DEF Eq
<1>9. Follow(n, WindowRecord, w0, G, it0)
  BY <1>7, <1>8 DEF Follow
<1>10. PICK v \in [0..n -> WindowRecord] : Leads(n, w0, G, it0, v)
  BY <1>2, <1>3, <1>9, FoldSteps
<1>11. ASSUME NEW k \in 1..n PROVE v[k] = Widen(lens, lo, hi, v[k - 1], i, k)
  <2>1. v[k] = G[<<k, v[k - 1]>>]
    BY <1>10 DEF Leads, Trace
  <2>2. v[k - 1] \in WindowRecord
    BY <1>2
  <2> QED BY <2>1, <2>2, <1>4
<1>12. Truncate(lens, lo, hi, i) = v[n] /\ v[0] = w0
  BY <1>1, <1>2, <1>10 DEF Leads, Trace
<1> QED
  BY <1>11, <1>12 DEF n, w0

\* Joined chunks grow by the next one and its separator.
LEMMA JoinedGrows ==
    ASSUME NEW lens \in Seq(Nat), NEW a \in 1..Len(lens), NEW b \in 1..Len(lens),
           a <= b
    PROVE  /\ JoinedLen(lens, a, b) \in Int
           /\ JoinedLen(lens, a, a) = lens[a]
           /\ \A k \in 1..Len(lens) : k = a - 1 =>
                 JoinedLen(lens, k, b) = JoinedLen(lens, a, b) + lens[k] + 2
           /\ \A k \in 1..Len(lens) : k = b + 1 =>
                 JoinedLen(lens, a, k) = JoinedLen(lens, a, b) + lens[k] + 2
<1>1. PICK p : Sums(lens, p)
  BY SumsExist
<1>2. \A x, y \in 1..Len(lens) :
         x <= y => JoinedLen(lens, x, y) = p[y] - p[x - 1] + 2 * (y - x)
  BY <1>1 DEF Sums
<1>3. \A x \in 1..Len(lens) :
         /\ p[x] \in Nat /\ p[x - 1] \in Nat /\ lens[x] \in Nat
         /\ p[x] = p[x - 1] + lens[x]
  <2>1. \A x \in 1..Len(lens) : x \in 0..Len(lens) /\ x - 1 \in 0..Len(lens)
    OBVIOUS
  <2>2. p \in [0..Len(lens) -> Nat]
        /\ \A x \in 1..Len(lens) : p[x] = p[x - 1] + lens[x]
    BY <1>1 DEF Sums
  <2>3. \A x \in 1..Len(lens) : lens[x] \in Nat
    OBVIOUS
  <2> QED BY <2>1, <2>2, <2>3
<1>4. a \in Nat /\ b \in Nat
  OBVIOUS
<1>5. JoinedLen(lens, a, b) \in Int
  <2>1. \A u, v \in Nat : u - v + 2 * (b - a) \in Int
    BY <1>4
  <2> QED BY <1>2, <1>3, <2>1
<1>6. JoinedLen(lens, a, a) = lens[a]
  <2>1. \A u, v, l \in Nat : u = v + l => u - v + 2 * (a - a) = l
    BY <1>4
  <2>2. JoinedLen(lens, a, a) = p[a] - p[a - 1] + 2 * (a - a)
    BY <1>2, <1>4
  <2>3. p[a] - p[a - 1] + 2 * (a - a) = lens[a]
    BY <1>3, <1>4
  <2> QED BY <2>2, <2>3
<1>7. ASSUME NEW k \in 1..Len(lens), k = a - 1
      PROVE  JoinedLen(lens, k, b) = JoinedLen(lens, a, b) + lens[k] + 2
  <2>1. \A u, v, t, l \in Nat :
           v = t + l => u - t + 2 * (b - k) = (u - v + 2 * (b - a)) + l + 2
    BY <1>4, <1>7
  <2>2. k <= b
    BY <1>4, <1>7
  <2>3. /\ JoinedLen(lens, k, b) = p[b] - p[k - 1] + 2 * (b - k)
        /\ JoinedLen(lens, a, b) = p[b] - p[k] + 2 * (b - a)
    BY <1>2, <1>7, <2>2
  <2>4. /\ p[b] \in Nat /\ p[k] \in Nat /\ p[k - 1] \in Nat /\ lens[k] \in Nat
        /\ p[k] = p[k - 1] + lens[k]
    BY <1>3
  <2>5. PICK u, v, t, l \in Nat :
              u = p[b] /\ v = p[k] /\ t = p[k - 1] /\ l = lens[k]
    BY <2>4
  <2>6. v = t + l
    BY <2>4, <2>5, Zenon
  <2>7. u - t + 2 * (b - k) = (u - v + 2 * (b - a)) + l + 2
    BY <2>6, <1>4, <1>7
  <2> QED BY <2>3, <2>5, <2>7, Zenon
<1>8. ASSUME NEW k \in 1..Len(lens), k = b + 1
      PROVE  JoinedLen(lens, a, k) = JoinedLen(lens, a, b) + lens[k] + 2
  <2>1. \A u, v, t, l \in Nat :
           v = t + l => v - u + 2 * (k - a) = (t - u + 2 * (b - a)) + l + 2
    BY <1>4, <1>8
  <2>2. a <= k /\ k - 1 = b
    BY <1>4, <1>8
  <2>3. /\ JoinedLen(lens, a, k) = p[k] - p[a - 1] + 2 * (k - a)
        /\ JoinedLen(lens, a, b) = p[k - 1] - p[a - 1] + 2 * (b - a)
    BY <1>2, <2>2
  <2>4. /\ p[a - 1] \in Nat /\ p[k] \in Nat /\ p[k - 1] \in Nat /\ lens[k] \in Nat
        /\ p[k] = p[k - 1] + lens[k]
    BY <1>3
  <2>5. PICK u, v, t, l \in Nat :
              u = p[a - 1] /\ v = p[k] /\ t = p[k - 1] /\ l = lens[k]
    BY <2>4
  <2>6. v = t + l
    BY <2>4, <2>5, Zenon
  <2>7. v - u + 2 * (k - a) = (t - u + 2 * (b - a)) + l + 2
    BY <2>6, <1>4, <1>8
  <2> QED BY <2>3, <2>5, <2>7, Zenon
<1> QED
  BY <1>5, <1>6, <1>7, <1>8

\* One chunk more on the left, or on the right.
LEMMA JoinedLeft ==
    ASSUME NEW lens \in Seq(Nat), NEW a \in 1..Len(lens), NEW b \in 1..Len(lens),
           a <= b, NEW k \in 1..Len(lens), k = a - 1
    PROVE  JoinedLen(lens, k, b) = JoinedLen(lens, a, b) + lens[k] + 2
BY JoinedGrows, Zenon

LEMMA JoinedRight ==
    ASSUME NEW lens \in Seq(Nat), NEW a \in 1..Len(lens), NEW b \in 1..Len(lens),
           a <= b, NEW k \in 1..Len(lens), k = b + 1
    PROVE  JoinedLen(lens, a, k) = JoinedLen(lens, a, b) + lens[k] + 2
BY JoinedGrows, Zenon

\* What the search has at any time: the chunk is in the window, the window
\* fits, and a side is blocked because the next chunk on it does not fit.
Fitting(lens, lo, hi, i, a, b, n) ==
    /\ a \in lo..i /\ b \in i..hi
    /\ n = JoinedLen(lens, a, b)
    /\ n <= MaxWindow
FullLeft(lens, lo, a, n) == lo < a /\ ~ n + lens[a - 1] + 2 <= MaxWindow
FullRight(lens, hi, b, n) == b < hi /\ ~ n + lens[b + 1] + 2 <= MaxWindow

Within(lens, lo, hi, i, w) ==
    /\ Fitting(lens, lo, hi, i, w.lo, w.hi, w.len)
    /\ w.leftBlocked => FullLeft(lens, lo, w.lo, w.len)
    /\ w.rightBlocked => FullRight(lens, hi, w.hi, w.len)

\* A chunk that did not fit does not fit a longer window.
LEMMA StillFull ==
    ASSUME NEW n \in Int, NEW l \in Nat, NEW k \in Nat, ~ n + k + 2 <= MaxWindow
    PROVE  ~ (n + l + 2) + k + 2 <= MaxWindow
BY ChunkingAssumption

\* A window around chunk i.
LEMMA AroundChunk ==
    ASSUME NEW n \in Nat, NEW lo \in 1..n, NEW hi \in 1..n, NEW i \in 1..n,
           NEW a \in lo..i, NEW b \in i..hi
    PROVE  a \in 1..n /\ b \in 1..n /\ a <= b
OBVIOUS

\* A chunk that fits is taken on the left, and the window still fits.
LEMMA FitsLeft ==
    ASSUME NEW lens \in Seq(Nat),
           NEW lo \in 1..Len(lens), NEW hi \in 1..Len(lens), NEW i \in 1..Len(lens),
           NEW a, NEW b, NEW n, Fitting(lens, lo, hi, i, a, b, n),
           NEW k \in 1..Len(lens), k = a - 1, lo <= k, n + lens[k] + 2 <= MaxWindow
    PROVE  /\ Fitting(lens, lo, hi, i, k, b, n + lens[k] + 2)
           /\ FullRight(lens, hi, b, n) => FullRight(lens, hi, b, n + lens[k] + 2)
<1> DEFINE m == n + lens[k] + 2
<1>1. /\ a \in lo..i /\ b \in i..hi
      /\ n = JoinedLen(lens, a, b) /\ n <= MaxWindow
  BY DEF Fitting
<1>2. a \in 1..Len(lens) /\ b \in 1..Len(lens) /\ a <= b /\ k \in lo..i
  <2>1. Len(lens) \in Nat
    OBVIOUS
  <2>2. a \in 1..Len(lens) /\ b \in 1..Len(lens) /\ a <= b
    BY <1>1, <2>1, AroundChunk, Zenon
  <2>3. k \in lo..i
    BY <1>1
  <2> QED BY <2>2, <2>3
<1>3. n \in Int /\ JoinedLen(lens, k, b) = m
  <2>1. JoinedLen(lens, a, b) \in Int
    BY <1>2, JoinedGrows
  <2>2. JoinedLen(lens, k, b) = JoinedLen(lens, a, b) + lens[k] + 2
    BY <1>2, JoinedLeft, Zenon
  <2> QED BY <1>1, <2>1, <2>2, Zenon
<1>4. FullRight(lens, hi, b, n) => FullRight(lens, hi, b, m)
  <2> HAVE FullRight(lens, hi, b, n)
  <2>1. b < hi /\ ~ n + lens[b + 1] + 2 <= MaxWindow
    BY DEF FullRight
  <2>2. lens[b + 1] \in Nat /\ lens[k] \in Nat
    <3>1. b + 1 \in 1..Len(lens)
      BY <1>2, <2>1
    <3> QED BY <3>1, ElementOf
  <2>3. ~ m + lens[b + 1] + 2 <= MaxWindow
    BY <1>3, <2>1, <2>2, StillFull, Zenon
  <2> QED BY <2>1, <2>3, Zenon DEF FullRight
<1>5. Fitting(lens, lo, hi, i, k, b, m)
  BY <1>1, <1>2, <1>3, Zenon DEF Fitting
<1> QED
  BY <1>4, <1>5, Zenon

\* A chunk that fits is taken on the right, and the window still fits.
LEMMA FitsRight ==
    ASSUME NEW lens \in Seq(Nat),
           NEW lo \in 1..Len(lens), NEW hi \in 1..Len(lens), NEW i \in 1..Len(lens),
           NEW a, NEW b, NEW n, Fitting(lens, lo, hi, i, a, b, n),
           NEW k \in 1..Len(lens), k = b + 1, k <= hi, n + lens[k] + 2 <= MaxWindow
    PROVE  /\ Fitting(lens, lo, hi, i, a, k, n + lens[k] + 2)
           /\ FullLeft(lens, lo, a, n) => FullLeft(lens, lo, a, n + lens[k] + 2)
<1> DEFINE m == n + lens[k] + 2
<1>1. /\ a \in lo..i /\ b \in i..hi
      /\ n = JoinedLen(lens, a, b) /\ n <= MaxWindow
  BY DEF Fitting
<1>2. a \in 1..Len(lens) /\ b \in 1..Len(lens) /\ a <= b /\ k \in i..hi
  <2>1. Len(lens) \in Nat
    OBVIOUS
  <2>2. a \in 1..Len(lens) /\ b \in 1..Len(lens) /\ a <= b
    BY <1>1, <2>1, AroundChunk, Zenon
  <2>3. k \in i..hi
    BY <1>1
  <2> QED BY <2>2, <2>3
<1>3. n \in Int /\ JoinedLen(lens, a, k) = m
  <2>1. JoinedLen(lens, a, b) \in Int
    BY <1>2, JoinedGrows
  <2>2. JoinedLen(lens, a, k) = JoinedLen(lens, a, b) + lens[k] + 2
    BY <1>2, JoinedRight, Zenon
  <2> QED BY <1>1, <2>1, <2>2, Zenon
<1>4. FullLeft(lens, lo, a, n) => FullLeft(lens, lo, a, m)
  <2> HAVE FullLeft(lens, lo, a, n)
  <2>1. lo < a /\ ~ n + lens[a - 1] + 2 <= MaxWindow
    BY DEF FullLeft
  <2>2. lens[a - 1] \in Nat /\ lens[k] \in Nat
    <3>1. a - 1 \in 1..Len(lens)
      BY <1>2, <2>1
    <3> QED BY <3>1, ElementOf
  <2>3. ~ m + lens[a - 1] + 2 <= MaxWindow
    BY <1>3, <2>1, <2>2, StillFull, Zenon
  <2> QED BY <2>1, <2>3, Zenon DEF FullLeft
<1>5. Fitting(lens, lo, hi, i, a, k, m)
  BY <1>1, <1>2, <1>3, Zenon DEF Fitting
<1> QED
  BY <1>4, <1>5, Zenon

\* The attempt on the left keeps what the search has.
LEMMA TryLeftKeeps ==
    ASSUME NEW lens \in Seq(Nat),
           NEW lo \in 1..Len(lens), NEW hi \in 1..Len(lens), NEW i \in 1..Len(lens),
           NEW w \in WindowRecord, Within(lens, lo, hi, i, w), ~ w.leftBlocked,
           NEW k \in 1..Len(lens), k = w.lo - 1, lo <= k
    PROVE  LET v == TryLeft(lens, w, k)
           IN /\ v \in WindowRecord /\ Within(lens, lo, hi, i, v)
              /\ ~ v.leftBlocked => v.lo = k
              /\ v.hi = w.hi /\ (v.rightBlocked <=> w.rightBlocked)
<1>1. Fitting(lens, lo, hi, i, w.lo, w.hi, w.len)
  BY DEF Within
<1>2. w.rightBlocked => FullRight(lens, hi, w.hi, w.len)
  BY DEF Within
<1>3. lens[k] \in Nat
  BY ElementOf
<1>4. w.len \in Int
  BY DEF WindowRecord
<1>5. k \in Int /\ lens[k] \in Nat /\ w.len \in Int
  BY <1>3, <1>4
<1>6. CASE w.len + lens[k] + 2 <= MaxWindow
  <2>1. PICK m \in Int : m = w.len + lens[k] + 2
    <3>1. \A x \in Int, y \in Nat : x + y + 2 \in Int
      OBVIOUS
    <3> QED BY <1>5, <3>1, Zenon
  <2>2. TryLeft(lens, w, k) = LeftTo(w, k, m)
    BY <1>6, <2>1, Zenon DEF TryLeft, Fits, LeftTo
  <2>3. /\ Fitting(lens, lo, hi, i, k, w.hi, m)
        /\ FullRight(lens, hi, w.hi, w.len) => FullRight(lens, hi, w.hi, m)
    BY <1>1, <1>6, <2>1, FitsLeft, Zenon
  <2> DEFINE v == LeftTo(w, k, m)
  <2>4. /\ v \in WindowRecord
        /\ v.lo = k /\ v.hi = w.hi /\ v.len = m
        /\ v.leftBlocked <=> w.leftBlocked
        /\ v.rightBlocked <=> w.rightBlocked
    <3>1. m \in Int
      OBVIOUS
    <3>2. v \in WindowRecord
      BY <1>5, <3>1 DEF LeftTo, WindowRecord
    <3> QED BY <3>2 DEF LeftTo, WindowRecord
  <2> HIDE DEF v
  <2>5. Within(lens, lo, hi, i, v)
    BY <1>2, <2>3, <2>4, Zenon DEF Within
  <2> QED BY <2>2, <2>4, <2>5, Zenon DEF v
<1>7. CASE ~ w.len + lens[k] + 2 <= MaxWindow
  <2>1. TryLeft(lens, w, k) = BlockLeft(w)
    BY <1>7, Zenon DEF TryLeft, Fits, BlockLeft
  <2> DEFINE v == BlockLeft(w)
  <2>2. /\ v \in WindowRecord
        /\ v.lo = w.lo /\ v.hi = w.hi /\ v.len = w.len
        /\ v.leftBlocked
        /\ v.rightBlocked <=> w.rightBlocked
    BY <1>5, WindowUpdates, Zenon
  <2> HIDE DEF v
  <2>3. FullLeft(lens, lo, w.lo, w.len)
    <3>1. lo < w.lo
      BY <1>1 DEF WindowRecord
    <3> QED BY <1>7, <3>1, Zenon DEF FullLeft
  <2>4. Within(lens, lo, hi, i, v)
    BY <1>1, <1>2, <2>2, <2>3, Zenon DEF Within
  <2> QED BY <2>1, <2>2, <2>4, Zenon DEF v
<1> QED
  BY <1>6, <1>7, Zenon

\* The attempt on the right keeps what the search has.
LEMMA TryRightKeeps ==
    ASSUME NEW lens \in Seq(Nat),
           NEW lo \in 1..Len(lens), NEW hi \in 1..Len(lens), NEW i \in 1..Len(lens),
           NEW w \in WindowRecord, Within(lens, lo, hi, i, w), ~ w.rightBlocked,
           NEW k \in 1..Len(lens), k = w.hi + 1, k <= hi
    PROVE  LET v == TryRight(lens, w, k)
           IN /\ v \in WindowRecord /\ Within(lens, lo, hi, i, v)
              /\ ~ v.rightBlocked => v.hi = k
              /\ v.lo = w.lo /\ (v.leftBlocked <=> w.leftBlocked)
<1>1. Fitting(lens, lo, hi, i, w.lo, w.hi, w.len)
  BY DEF Within
<1>2. w.leftBlocked => FullLeft(lens, lo, w.lo, w.len)
  BY DEF Within
<1>3. lens[k] \in Nat
  BY ElementOf
<1>4. w.len \in Int
  BY DEF WindowRecord
<1>5. k \in Int /\ lens[k] \in Nat /\ w.len \in Int
  BY <1>3, <1>4
<1>6. CASE w.len + lens[k] + 2 <= MaxWindow
  <2>1. PICK m \in Int : m = w.len + lens[k] + 2
    <3>1. \A x \in Int, y \in Nat : x + y + 2 \in Int
      OBVIOUS
    <3> QED BY <1>5, <3>1, Zenon
  <2>2. TryRight(lens, w, k) = RightTo(w, k, m)
    BY <1>6, <2>1, Zenon DEF TryRight, Fits, RightTo
  <2>3. /\ Fitting(lens, lo, hi, i, w.lo, k, m)
        /\ FullLeft(lens, lo, w.lo, w.len) => FullLeft(lens, lo, w.lo, m)
    BY <1>1, <1>6, <2>1, FitsRight, Zenon
  <2> DEFINE v == RightTo(w, k, m)
  <2>4. /\ v \in WindowRecord
        /\ v.lo = w.lo /\ v.hi = k /\ v.len = m
        /\ v.leftBlocked <=> w.leftBlocked
        /\ v.rightBlocked <=> w.rightBlocked
    <3>1. m \in Int
      OBVIOUS
    <3>2. v \in WindowRecord
      BY <1>5, <3>1 DEF RightTo, WindowRecord
    <3> QED BY <3>2 DEF RightTo, WindowRecord
  <2> HIDE DEF v
  <2>5. Within(lens, lo, hi, i, v)
    BY <1>2, <2>3, <2>4, Zenon DEF Within
  <2> QED BY <2>2, <2>4, <2>5, Zenon DEF v
<1>7. CASE ~ w.len + lens[k] + 2 <= MaxWindow
  <2>1. TryRight(lens, w, k) = BlockRight(w)
    BY <1>7, Zenon DEF TryRight, Fits, BlockRight
  <2> DEFINE v == BlockRight(w)
  <2>2. /\ v \in WindowRecord
        /\ v.lo = w.lo /\ v.hi = w.hi /\ v.len = w.len
        /\ v.leftBlocked <=> w.leftBlocked
        /\ v.rightBlocked
    BY <1>5, WindowUpdates, Zenon
  <2> HIDE DEF v
  <2>3. FullRight(lens, hi, w.hi, w.len)
    <3>1. w.hi < hi
      BY <1>1 DEF WindowRecord
    <3> QED BY <1>7, <3>1, Zenon DEF FullRight
  <2>4. Within(lens, lo, hi, i, v)
    BY <1>1, <1>2, <2>2, <2>3, Zenon DEF Within
  <2> QED BY <2>1, <2>2, <2>4, Zenon DEF v
<1> QED
  BY <1>6, <1>7, Zenon

\* Where a side that is not blocked has come to after distance d.
LeftAt(lo, i, d, a) == IF i - d >= lo THEN a = i - d ELSE a = lo
RightAt(hi, i, d, b) == IF i + d <= hi THEN b = i + d ELSE b = hi

LeftReached(lo, i, d, w) == ~ w.leftBlocked => LeftAt(lo, i, d, w.lo)
RightReached(hi, i, d, w) == ~ w.rightBlocked => RightAt(hi, i, d, w.hi)

Searched(lens, lo, hi, i, w) == w \in WindowRecord /\ Within(lens, lo, hi, i, w)

\* The left half of a step goes on to the next chunk, or blocks that side.
LEMMA LeftPhase ==
    ASSUME NEW lens \in Seq(Nat),
           NEW lo \in 1..Len(lens), NEW hi \in 1..Len(lens), NEW i \in 1..Len(lens),
           NEW w, Searched(lens, lo, hi, i, w), ~ w.leftBlocked,
           NEW d \in Nat \ {0}, i - d >= lo, LeftReached(lo, i, d - 1, w)
    PROVE  LET v == TryLeft(lens, w, i - d)
           IN /\ Searched(lens, lo, hi, i, v)
              /\ LeftReached(lo, i, d, v)
              /\ v.rightBlocked <=> w.rightBlocked
              /\ \A e : RightReached(hi, i, e, w) => RightReached(hi, i, e, v)
<1> DEFINE v == TryLeft(lens, w, i - d)
<1>1. w \in WindowRecord /\ Within(lens, lo, hi, i, w)
  BY DEF Searched
<1>2. LeftAt(lo, i, d - 1, w.lo)
  BY DEF LeftReached
<1>3. PICK k \in 1..Len(lens) : k = i - d
  OBVIOUS
<1>4. k = w.lo - 1 /\ lo <= k
  <2>1. PICK a \in Int : a = w.lo
    BY <1>1 DEF WindowRecord
  <2>2. LeftAt(lo, i, d - 1, a)
    BY <1>2, <2>1
  <2>3. k = a - 1 /\ lo <= k
    BY <1>3, <2>2 DEF LeftAt
  <2> QED BY <2>1, <2>3
<1>5. /\ v \in WindowRecord /\ Within(lens, lo, hi, i, v)
      /\ ~ v.leftBlocked => v.lo = k
      /\ v.hi = w.hi /\ (v.rightBlocked <=> w.rightBlocked)
  <2>1. LET u == TryLeft(lens, w, k)
        IN /\ u \in WindowRecord /\ Within(lens, lo, hi, i, u)
           /\ ~ u.leftBlocked => u.lo = k
           /\ u.hi = w.hi /\ (u.rightBlocked <=> w.rightBlocked)
    BY <1>1, <1>4, TryLeftKeeps
  <2> QED BY <2>1, <1>3, Zenon
<1> HIDE DEF v
<1>6. LeftAt(lo, i, d, k)
  BY <1>3 DEF LeftAt
<1>7. LeftReached(lo, i, d, v)
  BY <1>5, <1>6, Zenon DEF LeftReached
<1>8. \A e : RightReached(hi, i, e, w) => RightReached(hi, i, e, v)
  BY <1>5, Zenon DEF RightReached
<1> QED
  BY <1>5, <1>7, <1>8, Zenon DEF v, Searched

\* The right half of a step goes on to the next chunk, or blocks that side.
LEMMA RightPhase ==
    ASSUME NEW lens \in Seq(Nat),
           NEW lo \in 1..Len(lens), NEW hi \in 1..Len(lens), NEW i \in 1..Len(lens),
           NEW w, Searched(lens, lo, hi, i, w), ~ w.rightBlocked,
           NEW d \in Nat \ {0}, i + d <= hi, RightReached(hi, i, d - 1, w)
    PROVE  LET v == TryRight(lens, w, i + d)
           IN /\ Searched(lens, lo, hi, i, v)
              /\ RightReached(hi, i, d, v)
              /\ v.leftBlocked <=> w.leftBlocked
              /\ \A e : LeftReached(lo, i, e, w) => LeftReached(lo, i, e, v)
<1> DEFINE v == TryRight(lens, w, i + d)
<1>1. w \in WindowRecord /\ Within(lens, lo, hi, i, w)
  BY DEF Searched
<1>2. RightAt(hi, i, d - 1, w.hi)
  BY DEF RightReached
<1>3. PICK k \in 1..Len(lens) : k = i + d
  OBVIOUS
<1>4. k = w.hi + 1 /\ k <= hi
  <2>1. PICK b \in Int : b = w.hi
    BY <1>1 DEF WindowRecord
  <2>2. RightAt(hi, i, d - 1, b)
    BY <1>2, <2>1
  <2>3. k = b + 1 /\ k <= hi
    BY <1>3, <2>2 DEF RightAt
  <2> QED BY <2>1, <2>3
<1>5. /\ v \in WindowRecord /\ Within(lens, lo, hi, i, v)
      /\ ~ v.rightBlocked => v.hi = k
      /\ v.lo = w.lo /\ (v.leftBlocked <=> w.leftBlocked)
  <2>1. LET u == TryRight(lens, w, k)
        IN /\ u \in WindowRecord /\ Within(lens, lo, hi, i, u)
           /\ ~ u.rightBlocked => u.hi = k
           /\ u.lo = w.lo /\ (u.leftBlocked <=> w.leftBlocked)
    BY <1>1, <1>4, TryRightKeeps
  <2> QED BY <2>1, <1>3, Zenon
<1> HIDE DEF v
<1>6. RightAt(hi, i, d, k)
  BY <1>3 DEF RightAt
<1>7. RightReached(hi, i, d, v)
  BY <1>5, <1>6, Zenon DEF RightReached
<1>8. \A e : LeftReached(lo, i, e, w) => LeftReached(lo, i, e, v)
  BY <1>5, Zenon DEF LeftReached
<1> QED
  BY <1>5, <1>7, <1>8, Zenon DEF v, Searched

\* A step of the search takes it from one distance to the next.
LEMMA WidenKeeps ==
    ASSUME NEW lens \in Seq(Nat),
           NEW lo \in 1..Len(lens), NEW hi \in 1..Len(lens), NEW i \in lo..hi,
           NEW w, NEW d \in 1..(hi - lo),
           Searched(lens, lo, hi, i, w),
           LeftReached(lo, i, d - 1, w), RightReached(hi, i, d - 1, w)
    PROVE  LET v == Widen(lens, lo, hi, w, i, d)
           IN /\ Searched(lens, lo, hi, i, v)
              /\ LeftReached(lo, i, d, v)
              /\ RightReached(hi, i, d, v)
<1> DEFINE l == i - d
           r == i + d
           left == d < i /\ l >= lo /\ ~ w.leftBlocked
           right == r <= hi /\ ~ w.rightBlocked
           v == Widen(lens, lo, hi, w, i, d)
<1>1. d \in Nat \ {0} /\ i \in 1..Len(lens)
  OBVIOUS
<1>2. \A u : u.leftBlocked \/ i - d < lo =>
               (LeftReached(lo, i, d - 1, u) => LeftReached(lo, i, d, u))
  <2>1. \A a : i - d < lo /\ LeftAt(lo, i, d - 1, a) => LeftAt(lo, i, d, a)
    BY DEF LeftAt
  <2> QED BY <2>1, Zenon DEF LeftReached
<1>3. \A u : u.rightBlocked \/ ~ i + d <= hi =>
               (RightReached(hi, i, d - 1, u) => RightReached(hi, i, d, u))
  <2>1. \A b : ~ i + d <= hi /\ RightAt(hi, i, d - 1, b) => RightAt(hi, i, d, b)
    BY DEF RightAt
  <2> QED BY <2>1, Zenon DEF RightReached
<1>4. ~ left => LeftReached(lo, i, d, w)
  <2>1. ~ (d < i /\ i - d >= lo) => i - d < lo
    OBVIOUS
  <2> QED BY <1>2, <2>1, Zenon
<1>5. ~ right => RightReached(hi, i, d, w)
  BY <1>3, Zenon
<1>6. CASE left /\ right
  <2>1. CASE lens[l] <= lens[r]
    <3> DEFINE u == TryLeft(lens, w, l)
    <3>1. /\ Searched(lens, lo, hi, i, u) /\ LeftReached(lo, i, d, u)
          /\ RightReached(hi, i, d - 1, u) /\ ~ u.rightBlocked
      BY <1>1, <1>6, LeftPhase, Zenon
    <3>2. v = TryRight(lens, u, r)
      BY <1>6, <2>1, Zenon DEF Widen
    <3> HIDE DEF u, v
    <3>3. /\ Searched(lens, lo, hi, i, v) /\ RightReached(hi, i, d, v)
          /\ LeftReached(lo, i, d, v)
      BY <1>1, <1>6, <3>1, <3>2, RightPhase, Zenon
    <3> QED BY <3>3 DEF v
  <2>2. CASE ~ lens[l] <= lens[r]
    <3> DEFINE u == TryRight(lens, w, r)
    <3>1. /\ Searched(lens, lo, hi, i, u) /\ RightReached(hi, i, d, u)
          /\ LeftReached(lo, i, d - 1, u) /\ ~ u.leftBlocked
      BY <1>1, <1>6, RightPhase, Zenon
    <3>2. v = TryLeft(lens, u, l)
      BY <1>6, <2>2, Zenon DEF Widen
    <3> HIDE DEF u, v
    <3>3. /\ Searched(lens, lo, hi, i, v) /\ RightReached(hi, i, d, v)
          /\ LeftReached(lo, i, d, v)
      BY <1>1, <1>6, <3>1, <3>2, LeftPhase, Zenon
    <3> QED BY <3>3 DEF v
  <2> QED BY <2>1, <2>2, Zenon
<1>7. CASE left /\ ~ right
  <2>1. v = TryLeft(lens, w, l)
    BY <1>7, Zenon DEF Widen
  <2> HIDE DEF v
  <2>2. /\ Searched(lens, lo, hi, i, v) /\ LeftReached(lo, i, d, v)
        /\ RightReached(hi, i, d, v)
    BY <1>1, <1>5, <1>7, <2>1, LeftPhase, Zenon
  <2> QED BY <2>2 DEF v
<1>8. CASE ~ left /\ right
  <2>1. v = TryRight(lens, w, r)
    BY <1>8, Zenon DEF Widen
  <2> HIDE DEF v
  <2>2. /\ Searched(lens, lo, hi, i, v) /\ LeftReached(lo, i, d, v)
        /\ RightReached(hi, i, d, v)
    BY <1>1, <1>4, <1>8, <2>1, RightPhase, Zenon
  <2> QED BY <2>2 DEF v
<1>9. CASE ~ left /\ ~ right
  <2>1. v = w
    BY <1>9, Zenon DEF Widen
  <2> QED BY <1>4, <1>5, <1>9, <2>1, Zenon
<1> QED
  BY <1>6, <1>7, <1>8, <1>9, Zenon

\* At its end the search has reached the bounds, or a chunk that does not fit.
LEMMA TruncateReaches ==
    ASSUME NEW lens \in Seq(Nat),
           NEW lo \in 1..Len(lens), NEW hi \in 1..Len(lens), NEW i \in lo..hi,
           ~ lens[i] >= MaxWindow
    PROVE  LET t == Truncate(lens, lo, hi, i)
           IN /\ Searched(lens, lo, hi, i, t)
              /\ LeftReached(lo, i, hi - lo, t)
              /\ RightReached(hi, i, hi - lo, t)
<1> DEFINE n == hi - lo
           OK(d, w) == /\ Searched(lens, lo, hi, i, w)
                       /\ LeftReached(lo, i, d, w) /\ RightReached(hi, i, d, w)
           w0 == [lo |-> i, hi |-> i, len |-> lens[i],
                  leftBlocked |-> FALSE, rightBlocked |-> FALSE]
<1>1. /\ i \in 1..Len(lens) /\ lo <= i /\ i <= hi /\ n \in Nat
      /\ lens[i] \in Nat /\ i \in Int
  OBVIOUS
<1>2. PICK v \in [0..n -> WindowRecord] :
              /\ v[0] = w0
              /\ \A d \in 1..n : v[d] = Widen(lens, lo, hi, v[d - 1], i, d)
              /\ Truncate(lens, lo, hi, i) = v[n]
  BY <1>1, TruncateTrace
<1> DEFINE P == {d \in 0..n : OK(d, v[d])}
<1>3. OK(0, w0)
  <2>1. /\ w0 \in WindowRecord /\ w0.lo = i /\ w0.hi = i /\ w0.len = lens[i]
        /\ ~ w0.leftBlocked /\ ~ w0.rightBlocked
    BY <1>1 DEF WindowRecord
  <2>2. Fitting(lens, lo, hi, i, i, i, lens[i])
    <3>1. lens[i] = JoinedLen(lens, i, i)
      BY <1>1, JoinedGrows
    <3>2. i \in lo..i /\ i \in i..hi /\ lens[i] <= MaxWindow
      BY <1>1, ChunkingAssumption
    <3> QED BY <3>1, <3>2, Zenon DEF Fitting
  <2>3. LeftAt(lo, i, 0, i) /\ RightAt(hi, i, 0, i)
    BY <1>1 DEF LeftAt, RightAt
  <2> HIDE DEF w0
  <2>4. Within(lens, lo, hi, i, w0)
    BY <2>1, <2>2, Zenon DEF Within
  <2>5. LeftReached(lo, i, 0, w0) /\ RightReached(hi, i, 0, w0)
    BY <2>1, <2>3, Zenon DEF LeftReached, RightReached
  <2> QED BY <2>1, <2>4, <2>5, Zenon DEF Searched
<1>4. 0 \in P
  <2>1. 0 \in 0..n
    BY <1>1
  <2>2. OK(0, v[0])
    BY <1>2, <1>3, Zenon
  <2> HIDE DEF OK, n
  <2> QED BY <2>1, <2>2
<1>5. \A d \in 1..n : d - 1 \in P => d \in P
  <2> TAKE d \in 1..n
  <2> HAVE d - 1 \in P
  <2>1. OK(d - 1, v[d - 1])
    OBVIOUS
  <2>2. v[d] = Widen(lens, lo, hi, v[d - 1], i, d)
    BY <1>2
  <2> HIDE DEF P
  <2>3. OK(d, Widen(lens, lo, hi, v[d - 1], i, d))
    BY <2>1, WidenKeeps, Zenon
  <2>4. OK(d, v[d])
    BY <2>2, <2>3, Zenon
  <2>5. d \in 0..n
    BY <1>1
  <2> QED BY <2>4, <2>5 DEF P
<1>6. n \in P
  <2> HIDE DEF P
  <2>1. 0..n \subseteq P
    BY <1>1, <1>4, <1>5, UpTo
  <2> QED BY <2>1, <1>1
<1> QED
  BY <1>2, <1>6, Zenon

\* The reach of a window.
LEMMA HalfNat == Half \in Nat
BY ChunkingAssumption DEF Half

\* The window of a chunk is the best one, for every sequence of lengths.
THEOREM WindowOfBest ==
    ASSUME NEW lens \in Seq(Nat), NEW i \in 1..Len(lens)
    PROVE  Best(lens, i, WindowOf(lens, i))
<1> DEFINE lo == IF i > Half THEN i - Half ELSE 1
           hi == Least(Len(lens), i + Half)
           full == [lo |-> lo, hi |-> hi, len |-> JoinedLen(lens, lo, hi)]
           t == Truncate(lens, lo, hi, i)
           cut == [lo |-> t.lo, hi |-> t.hi, len |-> t.len]
<1>1. Half \in Nat /\ Len(lens) \in Nat /\ i \in Nat /\ lens[i] \in Nat
      /\ MaxWindow \in Nat
  BY HalfNat, ChunkingAssumption
<1>2. lo \in 1..Len(lens) /\ hi \in 1..Len(lens) /\ i \in lo..hi
  BY <1>1 DEF Least
<1>3. \A m \in 1..Len(lens) : m = lo - 1 => m + Half < i
  BY <1>1
<1>4. \A m \in 1..Len(lens) : m = hi + 1 => m > i + Half
  BY <1>1 DEF Least
<1>5. WindowOf(lens, i) = IF full.len <= MaxWindow THEN full ELSE cut
  BY DEF WindowOf
<1> HIDE DEF lo, hi
<1>6. full.lo = lo /\ full.hi = hi /\ full.len = JoinedLen(lens, lo, hi)
  OBVIOUS
<1>7. cut.lo = t.lo /\ cut.hi = t.hi /\ cut.len = t.len
  OBVIOUS
<1> HIDE DEF full, cut, t
<1>8. CASE full.len <= MaxWindow
  <2>1. JoinedLen(lens, lo, hi) \in Int
    BY <1>2, JoinedGrows
  <2>2. full.len = Least(MaxWindow, JoinedLen(lens, full.lo, full.hi))
    <3>1. \A x \in Int : x <= MaxWindow => x = Least(MaxWindow, x)
      BY <1>1 DEF Least
    <3> QED BY <1>6, <1>8, <2>1, <3>1, Zenon
  <2>3. full.lo <= i /\ i <= full.hi
    BY <1>2, <1>6
  <2>4. ASSUME NEW m \in DOMAIN lens, m \in {full.lo - 1, full.hi + 1}
        PROVE  m + Half < i \/ m > i + Half
    BY <1>3, <1>4, <1>6, <2>4
  <2>5. JoinedLen(lens, full.lo, full.hi) <= MaxWindow
    BY <1>6, <1>8, Zenon
  <2>6. Best(lens, i, full)
    BY <2>2, <2>3, <2>4, <2>5, Zenon DEF Best
  <2> QED BY <1>5, <1>8, <2>6, Zenon
<1>9. CASE ~ full.len <= MaxWindow /\ lens[i] >= MaxWindow
  <2>1. t.lo = i /\ t.hi = i /\ t.len = MaxWindow
    BY <1>9 DEF t, Truncate
  <2>2. MaxWindow = Least(MaxWindow, JoinedLen(lens, i, i))
    <3>1. JoinedLen(lens, i, i) = lens[i]
      BY <1>1, JoinedGrows
    <3>2. MaxWindow = Least(MaxWindow, lens[i])
      BY <1>1, <1>9 DEF Least
    <3> QED BY <3>1, <3>2, Zenon
  <2>3. i <= i
    BY <1>1
  <2>4. Best(lens, i, cut)
    BY <1>7, <1>9, <2>1, <2>2, <2>3, Zenon DEF Best
  <2> QED BY <1>5, <1>9, <2>4, Zenon
<1>10. CASE ~ full.len <= MaxWindow /\ ~ lens[i] >= MaxWindow
  <2>1. /\ Searched(lens, lo, hi, i, t)
        /\ LeftReached(lo, i, hi - lo, t)
        /\ RightReached(hi, i, hi - lo, t)
    BY <1>2, <1>10, TruncateReaches, Zenon DEF t
  <2>2. Within(lens, lo, hi, i, t) /\ t \in WindowRecord
    BY <2>1 DEF Searched
  <2>3. PICK a, b, n \in Int : a = t.lo /\ b = t.hi /\ n = t.len
    BY <2>2 DEF WindowRecord
  <2>4. /\ a \in lo..i /\ b \in i..hi
        /\ n = JoinedLen(lens, a, b) /\ n <= MaxWindow
    BY <2>2, <2>3, Zenon DEF Within, Fitting
  <2>5. FullLeft(lens, lo, a, n) \/ a = lo
    <3>1. t.leftBlocked => FullLeft(lens, lo, a, n)
      BY <2>2, <2>3, Zenon DEF Within
    <3>2. ~ t.leftBlocked => LeftAt(lo, i, hi - lo, a)
      BY <2>1, <2>3, Zenon DEF LeftReached
    <3>3. LeftAt(lo, i, hi - lo, a) => a = lo
      BY <1>2 DEF LeftAt
    <3> QED BY <3>1, <3>2, <3>3, Zenon
  <2>6. FullRight(lens, hi, b, n) \/ b = hi
    <3>1. t.rightBlocked => FullRight(lens, hi, b, n)
      BY <2>2, <2>3, Zenon DEF Within
    <3>2. ~ t.rightBlocked => RightAt(hi, i, hi - lo, b)
      BY <2>1, <2>3, Zenon DEF RightReached
    <3>3. RightAt(hi, i, hi - lo, b) => b = hi
      BY <1>2 DEF RightAt
    <3> QED BY <3>1, <3>2, <3>3, Zenon
  <2>7. \A l \in Nat : ~ n + l + 2 <= MaxWindow => n + l + 2 > MaxWindow
    BY <1>1
  <2>8. ASSUME NEW m \in DOMAIN lens, m = a - 1
        PROVE  m + Half < i \/ n + lens[m] + 2 > MaxWindow
    <3>1. m \in 1..Len(lens) /\ lens[m] \in Nat
      OBVIOUS
    <3>2. CASE a = lo
      BY <1>3, <2>8, <3>1, <3>2, Zenon
    <3>3. CASE FullLeft(lens, lo, a, n)
      BY <2>7, <2>8, <3>1, <3>3, Zenon DEF FullLeft
    <3> QED BY <2>5, <3>2, <3>3, Zenon
  <2>9. ASSUME NEW m \in DOMAIN lens, m = b + 1
        PROVE  m > i + Half \/ n + lens[m] + 2 > MaxWindow
    <3>1. m \in 1..Len(lens) /\ lens[m] \in Nat
      OBVIOUS
    <3>2. CASE b = hi
      BY <1>4, <2>9, <3>1, <3>2, Zenon
    <3>3. CASE FullRight(lens, hi, b, n)
      BY <2>7, <2>9, <3>1, <3>3, Zenon DEF FullRight
    <3> QED BY <2>6, <3>2, <3>3, Zenon
  <2>10. n = Least(MaxWindow, n)
    BY <1>1, <2>4 DEF Least
  <2>11. a <= i /\ i <= b
    BY <1>2, <2>4
  <2>12. Best(lens, i, cut)
    BY <1>7, <2>3, <2>4, <2>8, <2>9, <2>10, <2>11, Zenon DEF Best
  <2> QED BY <1>5, <1>10, <2>12, Zenon
<1> QED
  BY <1>8, <1>9, <1>10, Zenon

-----------------------------------------------------------------------------
(* Ranges that take every character once.                                  *)

RangeRecord == [lo : Nat, hi : Nat]

\* The ranges lie between m and e, follow one another, and take the characters
\* in S.
Follows(rs, m, e, S) ==
    /\ rs \in Seq(RangeRecord)
    /\ \A i \in 1..Len(rs) : m <= rs[i].lo /\ rs[i].lo <= rs[i].hi /\ rs[i].hi <= e
    /\ \A i, j \in 1..Len(rs) : i < j => rs[i].hi <= rs[j].lo
    /\ \A x : x \in S <=> \E i \in 1..Len(rs) : x \in Chars(rs[i])

\* The fields of a range.
LEMMA RangeFields ==
    ASSUME NEW r \in Seq(RangeRecord)
    PROVE  \A i \in 1..Len(r) : r[i].lo \in Nat /\ r[i].hi \in Nat
<1> TAKE i \in 1..Len(r)
<1>1. r[i] \in RangeRecord
  OBVIOUS
<1> QED
  BY <1>1 DEF RangeRecord

\* The elements of two joined sequences.
LEMMA Joined ==
    ASSUME NEW R, NEW r \in Seq(R), NEW s \in Seq(R)
    PROVE  /\ r \o s \in Seq(R) /\ Len(r \o s) = Len(r) + Len(s)
           /\ \A i \in 1..Len(r) : i \in 1..Len(r \o s) /\ (r \o s)[i] = r[i]
           /\ \A i \in 1..Len(s) : /\ Len(r) + i \in 1..Len(r \o s)
                                   /\ (r \o s)[Len(r) + i] = s[i]
           /\ \A k \in 1..Len(r \o s) :
                 \/ k \in 1..Len(r)
                 \/ \E i \in 1..Len(s) : k = Len(r) + i
<1>1. /\ r \o s \in Seq(R) /\ Len(r \o s) = Len(r) + Len(s)
      /\ Len(r) \in Nat /\ Len(s) \in Nat
  OBVIOUS
<1>2. ASSUME NEW k \in 1..Len(r \o s), k \notin 1..Len(r)
      PROVE  \E i \in 1..Len(s) : k = Len(r) + i
  <2>1. k - Len(r) \in 1..Len(s) /\ k = Len(r) + (k - Len(r))
    BY <1>1, <1>2
  <2> QED BY <2>1
<1>3. ASSUME NEW i \in 1..Len(r)
      PROVE  i \in 1..Len(r \o s) /\ (r \o s)[i] = r[i]
  BY <1>1
<1>4. ASSUME NEW i \in 1..Len(s)
      PROVE  Len(r) + i \in 1..Len(r \o s) /\ (r \o s)[Len(r) + i] = s[i]
  <2>1. Len(r) + i \in 1..(Len(r) + Len(s)) /\ Len(r) + i > Len(r)
        /\ (Len(r) + i) - Len(r) = i
    BY <1>1
  <2> QED BY <1>1, <2>1
<1> QED
  BY <1>1, <1>2, <1>3, <1>4

\* Ranges that follow one another can be joined.
LEMMA FollowsJoin ==
    ASSUME NEW r, NEW s, NEW m \in Int, NEW e \in Int, NEW f \in Int, NEW S, NEW T,
           Follows(r, m, e, S), Follows(s, e, f, T), m <= e, e <= f
    PROVE  Follows(r \o s, m, f, S \cup T)
<1> DEFINE q == r \o s
<1>1. /\ r \in Seq(RangeRecord)
      /\ \A i \in 1..Len(r) : m <= r[i].lo /\ r[i].lo <= r[i].hi /\ r[i].hi <= e
      /\ \A i, j \in 1..Len(r) : i < j => r[i].hi <= r[j].lo
      /\ \A x : x \in S <=> \E i \in 1..Len(r) : x \in Chars(r[i])
  BY DEF Follows
<1>2. /\ s \in Seq(RangeRecord)
      /\ \A i \in 1..Len(s) : e <= s[i].lo /\ s[i].lo <= s[i].hi /\ s[i].hi <= f
      /\ \A i, j \in 1..Len(s) : i < j => s[i].hi <= s[j].lo
      /\ \A x : x \in T <=> \E i \in 1..Len(s) : x \in Chars(s[i])
  BY DEF Follows
<1>3. /\ q \in Seq(RangeRecord)
      /\ \A i \in 1..Len(r) : i \in 1..Len(q) /\ q[i] = r[i]
      /\ \A i \in 1..Len(s) : Len(r) + i \in 1..Len(q) /\ q[Len(r) + i] = s[i]
      /\ \A k \in 1..Len(q) :
            k \in 1..Len(r) \/ \E i \in 1..Len(s) : k = Len(r) + i
  BY <1>1, <1>2, Joined
<1> HIDE DEF q
<1>4. /\ \A i \in 1..Len(r) : r[i].lo \in Nat /\ r[i].hi \in Nat
      /\ \A i \in 1..Len(s) : s[i].lo \in Nat /\ s[i].hi \in Nat
  BY <1>1, <1>2, RangeFields
<1>5. ASSUME NEW k \in 1..Len(q)
      PROVE  m <= q[k].lo /\ q[k].lo <= q[k].hi /\ q[k].hi <= f
  <2>1. CASE k \in 1..Len(r)
    <3>1. q[k] = r[k] /\ m <= r[k].lo /\ r[k].lo <= r[k].hi /\ r[k].hi <= e
      BY <1>1, <1>3, <2>1
    <3>2. r[k].hi <= f
      BY <1>4, <2>1, <3>1
    <3> QED BY <3>1, <3>2
  <2>2. ASSUME NEW i \in 1..Len(s), k = Len(r) + i
        PROVE  m <= q[k].lo /\ q[k].lo <= q[k].hi /\ q[k].hi <= f
    <3>1. q[k] = s[i] /\ e <= s[i].lo /\ s[i].lo <= s[i].hi /\ s[i].hi <= f
      BY <1>2, <1>3, <2>2
    <3>2. m <= s[i].lo
      BY <1>4, <3>1
    <3> QED BY <3>1, <3>2
  <2> QED BY <1>3, <2>1, <2>2
<1>6. ASSUME NEW k \in 1..Len(q), NEW l \in 1..Len(q), k < l
      PROVE  q[k].hi <= q[l].lo
  <2>1. Len(r) \in Nat
    BY <1>1
  <2>2. CASE k \in 1..Len(r) /\ l \in 1..Len(r)
    BY <1>1, <1>3, <1>6, <2>2
  <2>3. ASSUME k \in 1..Len(r), NEW i \in 1..Len(s), l = Len(r) + i
        PROVE  q[k].hi <= q[l].lo
    <3>1. q[k] = r[k] /\ q[l] = s[i] /\ r[k].hi <= e /\ e <= s[i].lo
      BY <1>1, <1>2, <1>3, <2>3
    <3>2. r[k].hi <= s[i].lo
      <4>1. r[k].hi \in Int /\ s[i].lo \in Int
        BY <1>4, <2>3
      <4>2. \A x, y, z \in Int : x <= y /\ y <= z => x <= z
        OBVIOUS
      <4> QED BY <3>1, <4>1, <4>2, Zenon
    <3> QED BY <3>1, <3>2
  <2>4. ASSUME NEW i \in 1..Len(s), k = Len(r) + i, l \in 1..Len(r)
        PROVE  FALSE
    BY <1>6, <2>1, <2>4
  <2>5. ASSUME NEW i \in 1..Len(s), k = Len(r) + i, NEW j \in 1..Len(s), l = Len(r) + j
        PROVE  q[k].hi <= q[l].lo
    <3>1. i < j
      BY <1>6, <2>1, <2>5
    <3> QED BY <1>2, <1>3, <2>5, <3>1
  <2> QED BY <1>3, <2>2, <2>3, <2>4, <2>5
<1>7. ASSUME NEW x
      PROVE  x \in S \cup T <=> \E k \in 1..Len(q) : x \in Chars(q[k])
  <2>1. ASSUME x \in S PROVE \E k \in 1..Len(q) : x \in Chars(q[k])
    BY <1>1, <1>3, <2>1
  <2>2. ASSUME x \in T PROVE \E k \in 1..Len(q) : x \in Chars(q[k])
    BY <1>2, <1>3, <2>2
  <2>3. ASSUME NEW k \in 1..Len(q), x \in Chars(q[k]) PROVE x \in S \cup T
    <3>1. CASE k \in 1..Len(r)
      BY <1>1, <1>3, <2>3, <3>1
    <3>2. ASSUME NEW i \in 1..Len(s), k = Len(r) + i PROVE x \in T
      BY <1>2, <1>3, <2>3, <3>2
    <3> QED BY <1>3, <3>1, <3>2
  <2> QED BY <2>1, <2>2, <2>3
<1>8. Follows(q, m, f, S \cup T)
  BY <1>3, <1>5, <1>6, <1>7, Zenon DEF Follows
<1> QED
  BY <1>8 DEF q

\* One range.
LEMMA FollowsOne ==
    ASSUME NEW m \in Nat, NEW e \in Nat, m <= e
    PROVE  Follows(<<[lo |-> m, hi |-> e]>>, m, e, m..(e - 1))
<1> DEFINE r == <<[lo |-> m, hi |-> e]>>
<1>1. r \in Seq(RangeRecord) /\ Len(r) = 1 /\ r[1] = [lo |-> m, hi |-> e]
  BY DEF RangeRecord
<1>2. r[1].lo = m /\ r[1].hi = e
  BY <1>1
<1> HIDE DEF r
<1>3. \A i \in 1..Len(r) : i = 1
  BY <1>1
<1>4. Chars(r[1]) = m..(e - 1)
  BY <1>2 DEF Chars
<1>5. \A i \in 1..Len(r) : m <= r[i].lo /\ r[i].lo <= r[i].hi /\ r[i].hi <= e
  BY <1>2, <1>3
<1>6. \A i, j \in 1..Len(r) : i < j => r[i].hi <= r[j].lo
  BY <1>3
<1>7. \A x : x \in m..(e - 1) <=> \E i \in 1..Len(r) : x \in Chars(r[i])
  <2>1. 1 \in 1..Len(r)
    BY <1>1
  <2> QED BY <1>3, <1>4, <2>1, Zenon
<1>8. Follows(r, m, e, m..(e - 1))
  BY <1>1, <1>5, <1>6, <1>7, Zenon DEF Follows
<1> QED
  BY <1>8 DEF r

\* The bounds can be widened.
LEMMA FollowsWithin ==
    ASSUME NEW r, NEW m \in Int, NEW e \in Int, NEW n \in Int, NEW f \in Int, NEW S,
           Follows(r, m, e, S), n <= m, e <= f
    PROVE  Follows(r, n, f, S)
<1>1. /\ r \in Seq(RangeRecord)
      /\ \A i \in 1..Len(r) : m <= r[i].lo /\ r[i].lo <= r[i].hi /\ r[i].hi <= e
      /\ \A i, j \in 1..Len(r) : i < j => r[i].hi <= r[j].lo
      /\ \A x : x \in S <=> \E i \in 1..Len(r) : x \in Chars(r[i])
  BY DEF Follows
<1>2. \A i \in 1..Len(r) : r[i].lo \in Nat /\ r[i].hi \in Nat
  BY <1>1, RangeFields
<1>3. \A i \in 1..Len(r) : n <= r[i].lo /\ r[i].lo <= r[i].hi /\ r[i].hi <= f
  BY <1>1, <1>2
<1> QED
  BY <1>1, <1>3, Zenon DEF Follows

\* No range.
LEMMA FollowsNone ==
    ASSUME NEW m \in Int
    PROVE  Follows(<<>>, m, m, {})
BY DEF Follows

\* Concatenations go through the concatenations of the first sequences.
LEMMA ConcatTrace ==
    ASSUME NEW R, NEW ss \in Seq(Seq(R))
    PROVE  \E v \in [0..Len(ss) -> Seq(R)] :
              /\ v[0] = <<>>
              /\ \A k \in 1..Len(ss) : v[k] = v[k - 1] \o ss[k]
              /\ Concat(ss) = v[Len(ss)]
<1> DEFINE n == Len(ss)
           Step(it, S) == IF S = {} THEN <<>>
                          ELSE it[S \ {Max(S)}] \o ss[Max(S)]
           Eq(it) == it = [S \in SUBSET DOMAIN ss |-> Step(it, S)]
           it0 == CHOOSE it : Eq(it)
           G == [x \in (1..n) \X Seq(R) |-> x[2] \o ss[x[1]]]
           b0 == <<>>
<1>1. Concat(ss) = it0[DOMAIN ss]
  BY DEF Concat, FoldLeft, MapThenFoldSet
<1>2. n \in Nat /\ DOMAIN ss = 1..n
  OBVIOUS
<1>3. /\ b0 \in Seq(R)
      /\ \A k \in 1..n, w \in Seq(R) : w \o ss[k] \in Seq(R)
  BY <1>2
<1>4. G \in [(1..n) \X Seq(R) -> Seq(R)]
  BY <1>3
<1>5. \A k \in 1..n, w \in Seq(R) : G[<<k, w>>] = w \o ss[k]
  OBVIOUS
<1> HIDE DEF G, n, b0
<1>6. \E it : Eq(it)
  <2>1. PICK it \in [SUBSET (1..n) -> Seq(R)] : Folds(n, b0, G, it)
    BY <1>2, <1>3, <1>4, FoldExists
  <2>2. ASSUME NEW S \in SUBSET (1..n)
        PROVE  it[S] = Step(it, S)
    <3>1. it[S] = IF S = {} THEN b0 ELSE G[<<Max(S), it[S \ {Max(S)}]>>]
      BY <2>1 DEF Folds
    <3>2. S # {} => Max(S) \in 1..n /\ it[S \ {Max(S)}] \in Seq(R)
      <4> HAVE S # {}
      <4>1. Max(S) \in 1..n
        BY <1>2, MaxAndRest
      <4> QED BY <4>1
    <3> QED BY <3>1, <3>2, <1>5 DEF b0
  <2> HIDE DEF Step
  <2>3. it = [S \in SUBSET (1..n) |-> Step(it, S)]
    BY <2>2
  <2>4. Eq(it)
    BY <2>3, <1>2
  <2> HIDE DEF Eq
  <2> QED BY <2>4
<1>7. Eq(it0)
  <2> HIDE DEF Eq
  <2> QED BY <1>6
<1> HIDE DEF it0
<1>8. it0[{}] = b0
  <2>1. {} \in SUBSET DOMAIN ss
    OBVIOUS
  <2> QED BY <1>7, <2>1 DEF b0
<1>9. \A k \in 1..n : it0[1..(k - 1)] \in Seq(R) =>
                         it0[1..k] = G[<<k, it0[1..(k - 1)]>>]
  <2> TAKE k \in 1..n
  <2> HAVE it0[1..(k - 1)] \in Seq(R)
  <2>1. 1..k \in SUBSET DOMAIN ss /\ k \in Nat \ {0}
    BY <1>2
  <2>2. Max(1..k) = k /\ (1..k) \ {k} = 1..(k - 1) /\ 1..k # {}
    BY <2>1, InitialSegment
  <2>3. it0[1..k] = it0[1..(k - 1)] \o ss[k]
    BY <1>7, <2>1, <2>2
  <2> QED BY <2>3, <1>5
<1> HIDE DEF Eq
<1>10. Follow(n, Seq(R), b0, G, it0)
  BY <1>8, <1>9 DEF Follow
<1>11. PICK v \in [0..n -> Seq(R)] : Leads(n, b0, G, it0, v)
  BY <1>2, <1>3, <1>4, <1>10, FoldSteps
<1>12. ASSUME NEW k \in 1..n PROVE v[k] = v[k - 1] \o ss[k]
  <2>1. v[k] = G[<<k, v[k - 1]>>]
    BY <1>11 DEF Leads, Trace
  <2>2. v[k - 1] \in Seq(R)
    BY <1>2
  <2> QED BY <2>1, <2>2, <1>5
<1>13. it0[1..n] = v[n] /\ v[0] = <<>>
  BY <1>11 DEF Leads, Trace, b0
<1>14. Concat(ss) = v[n]
  BY <1>1, <1>2, <1>13
<1> QED
  BY <1>12, <1>13, <1>14 DEF n

\* A step of either program.
LStep(program, st, n) == IF program = "base" THEN BaseLongStep(st, n) ELSE LongStep(st, n)

\* The steps do not leave V.
LongKeeps(program, par, V) ==
    \A w \in V, k \in 1..Len(par) : LStep(program, w, par[k]) \in V

\* _split_long_paragraph goes through the steps v.
LongSteps(program, par, at, start, v) ==
    /\ v[0] = LongStart(at, start)
    /\ \A k \in 1..Len(par) : v[k] = LStep(program, v[k - 1], par[k])
    /\ SplitLong(program, par, at, start) = Flush(v[Len(par)]).out

\* _split_long_paragraph goes through the sentences in turn.
LEMMA LongTrace ==
    ASSUME NEW program, NEW at, NEW start, NEW par \in Seq(Nat), NEW V,
           LongStart(at, start) \in V,
           LongKeeps(program, par, V)
    PROVE  \E v \in [0..Len(par) -> V] : LongSteps(program, par, at, start, v)
<1> DEFINE n == Len(par)
           Step(it, S) == IF S = {} THEN LongStart(at, start)
                          ELSE LStep(program, it[S \ {Max(S)}], par[Max(S)])
           Eq(it) == it = [S \in SUBSET DOMAIN par |-> Step(it, S)]
           it0 == CHOOSE it : Eq(it)
           G == [x \in (1..n) \X V |-> LStep(program, x[2], par[x[1]])]
           b0 == LongStart(at, start)
<1>1. SplitLong(program, par, at, start) = Flush(it0[DOMAIN par]).out
  BY DEF SplitLong, LStep, FoldLeft, MapThenFoldSet
<1>2. n \in Nat /\ DOMAIN par = 1..n
  OBVIOUS
<1>3. /\ b0 \in V
      /\ \A k \in 1..n, w \in V : LStep(program, w, par[k]) \in V
  BY DEF LongKeeps
<1>4. G \in [(1..n) \X V -> V]
  BY <1>3
<1>5. \A k \in 1..n, w \in V : G[<<k, w>>] = LStep(program, w, par[k])
  OBVIOUS
<1> HIDE DEF G, n, b0
<1>6. \E it : Eq(it)
  <2>1. PICK it \in [SUBSET (1..n) -> V] : Folds(n, b0, G, it)
    BY <1>2, <1>3, <1>4, FoldExists
  <2>2. ASSUME NEW S \in SUBSET (1..n)
        PROVE  it[S] = Step(it, S)
    <3>1. it[S] = IF S = {} THEN b0 ELSE G[<<Max(S), it[S \ {Max(S)}]>>]
      BY <2>1 DEF Folds
    <3>2. S # {} => Max(S) \in 1..n /\ it[S \ {Max(S)}] \in V
      <4> HAVE S # {}
      <4>1. Max(S) \in 1..n
        BY <1>2, MaxAndRest
      <4> QED BY <4>1
    <3> QED BY <3>1, <3>2, <1>5 DEF b0
  <2> HIDE DEF Step
  <2>3. it = [S \in SUBSET (1..n) |-> Step(it, S)]
    BY <2>2
  <2>4. Eq(it)
    BY <2>3, <1>2
  <2> HIDE DEF Eq
  <2> QED BY <2>4
<1>7. Eq(it0)
  <2> HIDE DEF Eq
  <2> QED BY <1>6
<1> HIDE DEF it0
<1>8. it0[{}] = b0
  <2>1. {} \in SUBSET DOMAIN par
    OBVIOUS
  <2> QED BY <1>7, <2>1 DEF b0
<1>9. \A k \in 1..n : it0[1..(k - 1)] \in V =>
                         it0[1..k] = G[<<k, it0[1..(k - 1)]>>]
  <2> TAKE k \in 1..n
  <2> HAVE it0[1..(k - 1)] \in V
  <2>1. 1..k \in SUBSET DOMAIN par /\ k \in Nat \ {0}
    BY <1>2
  <2>2. Max(1..k) = k /\ (1..k) \ {k} = 1..(k - 1) /\ 1..k # {}
    BY <2>1, InitialSegment
  <2>3. it0[1..k] = LStep(program, it0[1..(k - 1)], par[k])
    BY <1>7, <2>1, <2>2
  <2> QED BY <2>3, <1>5
<1> HIDE DEF Eq
<1>10. Follow(n, V, b0, G, it0)
  BY <1>8, <1>9 DEF Follow
<1>11. PICK v \in [0..n -> V] : Leads(n, b0, G, it0, v)
  BY <1>2, <1>3, <1>4, <1>10, FoldSteps
<1>12. ASSUME NEW k \in 1..n PROVE v[k] = LStep(program, v[k - 1], par[k])
  <2>1. v[k] = G[<<k, v[k - 1]>>]
    BY <1>11 DEF Leads, Trace
  <2>2. v[k - 1] \in V
    BY <1>2
  <2> QED BY <2>1, <2>2, <1>5
<1>13. it0[1..n] = v[n] /\ v[0] = LongStart(at, start)
  BY <1>11 DEF Leads, Trace, b0
<1>14. SplitLong(program, par, at, start) = Flush(v[n]).out
  BY <1>1, <1>2, <1>13
<1> QED
  BY <1>12, <1>13, <1>14 DEF n, LongSteps

NoGroup == [out |-> <<>>, group |-> <<>>, tokens |-> 0]

\* The paragraphs of a section with their places.
Paragraphs(sec, at) ==
    [i \in DOMAIN sec |->
        [par |-> sec[i], len |-> ParLen(sec[i]), at |-> at + ParAt(sec, i),
         start |-> at + ParLine(i)]]

\* The steps do not leave V.
ParKeeps(program, ps, V) ==
    \A w \in V, k \in 1..Len(ps) : ParStep(program, w, ps[k]) \in V

\* _split_by_tokens goes through the steps v.
ParSteps(program, sec, at, ps, v) ==
    /\ v[0] = NoGroup
    /\ \A k \in 1..Len(ps) : v[k] = ParStep(program, v[k - 1], ps[k])
    /\ SplitSection(program, sec, at) = FlushGroup(v[Len(ps)]).out

\* _split_by_tokens goes through the paragraphs in turn.
LEMMA ParTrace ==
    ASSUME NEW program, NEW sec \in Seq(Seq(Nat)), NEW at, NEW V, NEW P, NEW ps \in Seq(P),
           ps = Paragraphs(sec, at), ~ Tokens(SecLen(sec)) <= ChunkTokens,
           NoGroup \in V, ParKeeps(program, ps, V)
    PROVE  \E v \in [0..Len(ps) -> V] : ParSteps(program, sec, at, ps, v)
<1> DEFINE n == Len(ps)
           Step(it, S) == IF S = {} THEN NoGroup
                          ELSE ParStep(program, it[S \ {Max(S)}], ps[Max(S)])
           Eq(it) == it = [S \in SUBSET DOMAIN ps |-> Step(it, S)]
           it0 == CHOOSE it : Eq(it)
           G == [x \in (1..n) \X V |-> ParStep(program, x[2], ps[x[1]])]
           b0 == NoGroup
<1>1. SplitSection(program, sec, at) = FlushGroup(it0[DOMAIN ps]).out
  BY DEF SplitSection, Paragraphs, NoGroup, FoldLeft, MapThenFoldSet
<1>2. n \in Nat /\ DOMAIN ps = 1..n
  OBVIOUS
<1>3. /\ b0 \in V
      /\ \A k \in 1..n, w \in V : ParStep(program, w, ps[k]) \in V
  BY DEF ParKeeps
<1>4. G \in [(1..n) \X V -> V]
  BY <1>3
<1>5. \A k \in 1..n, w \in V : G[<<k, w>>] = ParStep(program, w, ps[k])
  OBVIOUS
<1> HIDE DEF G, n, b0
<1>6. \E it : Eq(it)
  <2>1. PICK it \in [SUBSET (1..n) -> V] : Folds(n, b0, G, it)
    BY <1>2, <1>3, <1>4, FoldExists
  <2>2. ASSUME NEW S \in SUBSET (1..n)
        PROVE  it[S] = Step(it, S)
    <3>1. it[S] = IF S = {} THEN b0 ELSE G[<<Max(S), it[S \ {Max(S)}]>>]
      BY <2>1 DEF Folds
    <3>2. S # {} => Max(S) \in 1..n /\ it[S \ {Max(S)}] \in V
      <4> HAVE S # {}
      <4>1. Max(S) \in 1..n
        BY <1>2, MaxAndRest
      <4> QED BY <4>1
    <3> QED BY <3>1, <3>2, <1>5 DEF b0
  <2> HIDE DEF Step
  <2>3. it = [S \in SUBSET (1..n) |-> Step(it, S)]
    BY <2>2
  <2>4. Eq(it)
    BY <2>3, <1>2
  <2> HIDE DEF Eq
  <2> QED BY <2>4
<1>7. Eq(it0)
  <2> HIDE DEF Eq
  <2> QED BY <1>6
<1> HIDE DEF it0
<1>8. it0[{}] = b0
  <2>1. {} \in SUBSET DOMAIN ps
    OBVIOUS
  <2> QED BY <1>7, <2>1 DEF b0
<1>9. \A k \in 1..n : it0[1..(k - 1)] \in V =>
                         it0[1..k] = G[<<k, it0[1..(k - 1)]>>]
  <2> TAKE k \in 1..n
  <2> HAVE it0[1..(k - 1)] \in V
  <2>1. 1..k \in SUBSET DOMAIN ps /\ k \in Nat \ {0}
    BY <1>2
  <2>2. Max(1..k) = k /\ (1..k) \ {k} = 1..(k - 1) /\ 1..k # {}
    BY <2>1, InitialSegment
  <2>3. it0[1..k] = ParStep(program, it0[1..(k - 1)], ps[k])
    BY <1>7, <2>1, <2>2
  <2> QED BY <2>3, <1>5
<1> HIDE DEF Eq
<1>10. Follow(n, V, b0, G, it0)
  BY <1>8, <1>9 DEF Follow
<1>11. PICK v \in [0..n -> V] : Leads(n, b0, G, it0, v)
  BY <1>2, <1>3, <1>4, <1>10, FoldSteps
<1>12. ASSUME NEW k \in 1..n PROVE v[k] = ParStep(program, v[k - 1], ps[k])
  <2>1. v[k] = G[<<k, v[k - 1]>>]
    BY <1>11 DEF Leads, Trace
  <2>2. v[k - 1] \in V
    BY <1>2
  <2> QED BY <2>1, <2>2, <1>5
<1>13. it0[1..n] = v[n] /\ v[0] = NoGroup
  BY <1>11 DEF Leads, Trace, b0
<1>14. SplitSection(program, sec, at) = FlushGroup(v[n]).out
  BY <1>1, <1>2, <1>13
<1> QED
  BY <1>12, <1>13, <1>14 DEF n, ParSteps

Associative(r, s, t) == (r \o s) \o t = r \o (s \o t)

\* Joining is associative.
LEMMA JoinAssociative ==
    ASSUME NEW R, NEW r \in Seq(R), NEW s \in Seq(R), NEW t \in Seq(R)
    PROVE  Associative(r, s, t)
BY ConcatAssociative DEF Associative

\* Concatenations of joined lists.
LEMMA ConcatJoin ==
    ASSUME NEW R, NEW a \in Seq(Seq(R)), NEW b \in Seq(Seq(R))
    PROVE  Concat(a \o b) = Concat(a) \o Concat(b)
<1> DEFINE m == Len(a)
           n == Len(b)
           c == a \o b
<1>1. /\ m \in Nat /\ n \in Nat /\ c \in Seq(Seq(R)) /\ Len(c) = m + n
      /\ \A k \in 1..m : k \in 1..Len(c) /\ c[k] = a[k]
      /\ \A k \in 1..n : m + k \in 1..Len(c) /\ c[m + k] = b[k]
  BY Joined
<1>2. PICK v \in [0..m -> Seq(R)] :
              /\ v[0] = <<>>
              /\ \A k \in 1..m : v[k] = v[k - 1] \o a[k]
              /\ Concat(a) = v[m]
  BY ConcatTrace
<1>3. PICK w \in [0..n -> Seq(R)] :
              /\ w[0] = <<>>
              /\ \A k \in 1..n : w[k] = w[k - 1] \o b[k]
              /\ Concat(b) = w[n]
  BY ConcatTrace
<1>4. PICK u \in [0..Len(c) -> Seq(R)] :
              /\ u[0] = <<>>
              /\ \A k \in 1..Len(c) : u[k] = u[k - 1] \o c[k]
              /\ Concat(c) = u[Len(c)]
  BY <1>1, ConcatTrace
<1>5. /\ \A k \in 1..m : a[k] \in Seq(R)
      /\ \A k \in 1..n : b[k] \in Seq(R)
  OBVIOUS
<1> HIDE DEF m, n, c
<1> DEFINE P == {k \in 0..m : u[k] = v[k]}
           Q == {k \in 0..n : u[m + k] = v[m] \o w[k]}
<1>6. m \in P
  <2>1. 0 \in P
    BY <1>1, <1>2, <1>4
  <2>2. \A k \in 1..m : k - 1 \in P => k \in P
    <3> TAKE k \in 1..m
    <3> HAVE k - 1 \in P
    <3>1. u[k] = u[k - 1] \o c[k] /\ c[k] = a[k] /\ u[k - 1] = v[k - 1]
      BY <1>1, <1>4
    <3>2. v[k] = v[k - 1] \o a[k]
      BY <1>2
    <3>3. k \in 0..m
      BY <1>1
    <3> QED BY <3>1, <3>2, <3>3
  <2> HIDE DEF P
  <2>3. 0..m \subseteq P
    BY <1>1, <2>1, <2>2, UpTo
  <2> QED BY <1>1, <2>3
<1>7. n \in Q
  <2>1. 0 \in Q
    <3>1. u[m] = v[m] /\ v[m] \in Seq(R)
      BY <1>1, <1>6
    <3>2. m + 0 = m /\ 0 \in 0..n /\ v[m] \o <<>> = v[m]
      BY <1>1, <3>1
    <3> QED BY <1>3, <3>1, <3>2
  <2>2. \A k \in 1..n : k - 1 \in Q => k \in Q
    <3> TAKE k \in 1..n
    <3> HAVE k - 1 \in Q
    <3>1. m + k \in 1..Len(c) /\ (m + k) - 1 = m + (k - 1) /\ k \in 0..n
          /\ k - 1 \in 0..n /\ m \in 0..m
      BY <1>1
    <3>2. u[m + k] = u[m + (k - 1)] \o b[k]
      BY <1>1, <1>4, <3>1
    <3>3. u[m + (k - 1)] = v[m] \o w[k - 1]
      OBVIOUS
    <3>4. v[m] \in Seq(R) /\ w[k - 1] \in Seq(R) /\ b[k] \in Seq(R)
      BY <1>1, <1>5, <3>1
    <3>5. (v[m] \o w[k - 1]) \o b[k] = v[m] \o (w[k - 1] \o b[k])
      <4>1. Associative(v[m], w[k - 1], b[k])
        BY <3>4, JoinAssociative
      <4> QED BY <4>1, Zenon DEF Associative
    <3>6. w[k] = w[k - 1] \o b[k]
      BY <1>3
    <3> QED BY <3>1, <3>2, <3>3, <3>5, <3>6, Zenon
  <2> HIDE DEF Q
  <2>3. 0..n \subseteq Q
    BY <1>1, <2>1, <2>2, UpTo
  <2> QED BY <1>1, <2>3
<1> QED
  BY <1>1, <1>2, <1>3, <1>4, <1>7 DEF c

\* The concatenation of one sequence, and of none.
LEMMA ConcatOne ==
    ASSUME NEW R, NEW s \in Seq(R)
    PROVE  Concat(<<s>>) = s
<1>1. <<s>> \in Seq(Seq(R)) /\ Len(<<s>>) = 1 /\ <<s>>[1] = s
  OBVIOUS
<1>2. PICK v \in [0..1 -> Seq(R)] :
              /\ v[0] = <<>>
              /\ \A k \in 1..1 : v[k] = v[k - 1] \o <<s>>[k]
              /\ Concat(<<s>>) = v[1]
  <2>1. \E v \in [0..Len(<<s>>) -> Seq(R)] :
              /\ v[0] = <<>>
              /\ \A k \in 1..Len(<<s>>) : v[k] = v[k - 1] \o <<s>>[k]
              /\ Concat(<<s>>) = v[Len(<<s>>)]
    BY <1>1, ConcatTrace, Zenon
  <2> QED BY <1>1, <2>1
<1>3. v[1] = <<>> \o s
  <2>1. 1 \in 1..1 /\ 1 - 1 = 0
    OBVIOUS
  <2> QED BY <1>1, <1>2, <2>1
<1> QED
  BY <1>2, <1>3

LEMMA ConcatNone == Concat(<<>>) = <<>>
<1>1. <<>> \in Seq(Seq(Nat)) /\ Len(<<>>) = 0
  OBVIOUS
<1>2. \E v \in [0..Len(<<>>) -> Seq(Nat)] :
              /\ v[0] = <<>>
              /\ \A k \in 1..Len(<<>>) : v[k] = v[k - 1] \o <<>>[k]
              /\ Concat(<<>>) = v[Len(<<>>)]
  BY <1>1, ConcatTrace, Zenon
<1> QED
  BY <1>1, <1>2

-----------------------------------------------------------------------------
(* Sound lists of chunks.                                                  *)

ChunkRecord == [text : Seq(RangeRecord), start : Int, tokens : Nat, pieces : Nat]

StartsBefore(c) == c.text # <<>> /\ c.start <= c.text[1].lo /\ TextLen(c) \in Nat
InLimit(c) == TextLen(c) <= 4 * ChunkTokens + 5 * c.pieces

\* The chunks take the characters in S, which lie between m and e, once and in
\* order, start no further down than their text, and those of the service keep
\* their limit or are the rest of a cut.
Sound(program, cs, m, e, S) ==
    /\ cs \in Seq(ChunkRecord)
    /\ Follows(Concat(Texts(cs)), m, e, S)
    /\ \A i \in 1..Len(cs) : StartsBefore(cs[i])
    /\ program # "base" => \A i \in 1..Len(cs) : CutRest(cs, i) \/ InLimit(cs[i])

\* The texts of chunks are sequences of ranges.
LEMMA TextsType ==
    ASSUME NEW cs \in Seq(ChunkRecord)
    PROVE  /\ Texts(cs) \in Seq(Seq(RangeRecord)) /\ Len(Texts(cs)) = Len(cs)
           /\ \A i \in 1..Len(cs) : Texts(cs)[i] = cs[i].text
<1>1. \A i \in 1..Len(cs) : cs[i].text \in Seq(RangeRecord)
  <2> TAKE i \in 1..Len(cs)
  <2>1. cs[i] \in ChunkRecord
    OBVIOUS
  <2> QED BY <2>1 DEF ChunkRecord
<1>2. Len(cs) \in Nat /\ Texts(cs) = [i \in 1..Len(cs) |-> cs[i].text]
  BY DEF Texts
<1> QED
  BY <1>1, <1>2

\* The texts of joined lists.
LEMMA TextsJoin ==
    ASSUME NEW a \in Seq(ChunkRecord), NEW b \in Seq(ChunkRecord)
    PROVE  Concat(Texts(a \o b)) = Concat(Texts(a)) \o Concat(Texts(b))
<1>1. /\ a \o b \in Seq(ChunkRecord) /\ Len(a \o b) = Len(a) + Len(b)
      /\ Len(a) \in Nat /\ Len(b) \in Nat
  OBVIOUS
<1>2. /\ Texts(a) \in Seq(Seq(RangeRecord)) /\ Len(Texts(a)) = Len(a)
      /\ Texts(b) \in Seq(Seq(RangeRecord)) /\ Len(Texts(b)) = Len(b)
      /\ Texts(a \o b) \in Seq(Seq(RangeRecord)) /\ Len(Texts(a \o b)) = Len(a \o b)
  BY <1>1, TextsType
<1>3. /\ \A i \in 1..Len(a) : Texts(a)[i] = a[i].text
      /\ \A i \in 1..Len(b) : Texts(b)[i] = b[i].text
      /\ \A i \in 1..Len(a \o b) : Texts(a \o b)[i] = (a \o b)[i].text
  BY <1>1, TextsType
<1>4. Texts(a \o b) = Texts(a) \o Texts(b)
  <2> DEFINE q == Texts(a) \o Texts(b)
  <2>1. /\ q \in Seq(Seq(RangeRecord)) /\ Len(q) = Len(a) + Len(b)
        /\ \A i \in 1..Len(a) : q[i] = Texts(a)[i]
        /\ \A i \in 1..Len(b) : q[Len(a) + i] = Texts(b)[i]
    <3> DEFINE r == Texts(a)
               s == Texts(b)
    <3>1. r \in Seq(Seq(RangeRecord)) /\ s \in Seq(Seq(RangeRecord))
      BY <1>2
    <3>2. Len(r) = Len(a) /\ Len(s) = Len(b)
      BY <1>2
    <3> HIDE DEF r, s
    <3>3. /\ r \o s \in Seq(Seq(RangeRecord)) /\ Len(r \o s) = Len(r) + Len(s)
          /\ \A i \in 1..Len(r) : (r \o s)[i] = r[i]
          /\ \A i \in 1..Len(s) : (r \o s)[Len(r) + i] = s[i]
      BY <3>1, Joined
    <3> QED BY <3>2, <3>3, Zenon DEF r, s
  <2>2. /\ \A i \in 1..Len(a) : (a \o b)[i] = a[i]
        /\ \A i \in 1..Len(b) : (a \o b)[Len(a) + i] = b[i]
        /\ \A k \in 1..Len(a \o b) :
              k \in 1..Len(a) \/ \E i \in 1..Len(b) : k = Len(a) + i
    BY Joined
  <2>3. ASSUME NEW k \in 1..Len(a \o b)
        PROVE  Texts(a \o b)[k] = q[k]
    <3>1. CASE k \in 1..Len(a)
      BY <1>3, <2>1, <2>2, <3>1
    <3>2. ASSUME NEW i \in 1..Len(b), k = Len(a) + i
          PROVE  Texts(a \o b)[k] = q[k]
      <4>1. Texts(a \o b)[k] = (a \o b)[k].text
        BY <1>3
      <4>2. (a \o b)[k] = b[i] /\ q[k] = Texts(b)[i]
        BY <2>1, <2>2, <3>2, Zenon
      <4>3. Texts(b)[i] = b[i].text
        BY <1>3
      <4> QED BY <4>1, <4>2, <4>3, Zenon
    <3> QED BY <2>2, <3>1, <3>2
  <2> HIDE DEF q
  <2>4. Texts(a \o b) = q
    BY <1>1, <1>2, <2>1, <2>3, SeqEqual
  <2> QED BY <2>4 DEF q
<1> QED
  BY <1>2, <1>4, ConcatJoin

\* Sound lists that adjoin can be joined.
LEMMA SoundJoin ==
    ASSUME NEW program, NEW a, NEW b, NEW m \in Int, NEW e \in Int, NEW f \in Int,
           NEW S, NEW T, m <= e, e <= f,
           Sound(program, a, m, e, S), Sound(program, b, e, f, T)
    PROVE  Sound(program, a \o b, m, f, S \cup T)
<1> DEFINE q == a \o b
<1>1. a \in Seq(ChunkRecord) /\ b \in Seq(ChunkRecord)
  BY DEF Sound
<1>2. Follows(Concat(Texts(q)), m, f, S \cup T)
  <2>1. Follows(Concat(Texts(a)), m, e, S) /\ Follows(Concat(Texts(b)), e, f, T)
    BY DEF Sound
  <2>2. Follows(Concat(Texts(a)) \o Concat(Texts(b)), m, f, S \cup T)
    BY <2>1, FollowsJoin
  <2> QED BY <1>1, <2>2, TextsJoin
<1>3. /\ q \in Seq(ChunkRecord)
      /\ \A i \in 1..Len(a) : i \in 1..Len(q) /\ q[i] = a[i]
      /\ \A i \in 1..Len(b) : Len(a) + i \in 1..Len(q) /\ q[Len(a) + i] = b[i]
      /\ \A k \in 1..Len(q) :
            k \in 1..Len(a) \/ \E i \in 1..Len(b) : k = Len(a) + i
  <2>1. q \in Seq(ChunkRecord)
    BY <1>1
  <2>2. \A i \in 1..Len(a) : i \in 1..Len(q) /\ q[i] = a[i]
    BY <1>1, Joined
  <2>3. \A i \in 1..Len(b) : Len(a) + i \in 1..Len(q) /\ q[Len(a) + i] = b[i]
    BY <1>1, Joined
  <2>4. \A k \in 1..Len(q) :
           k \in 1..Len(a) \/ \E i \in 1..Len(b) : k = Len(a) + i
    BY <1>1, Joined
  <2> QED BY <2>1, <2>2, <2>3, <2>4
<1>4. Len(a) \in Nat
  BY <1>1
<1> HIDE DEF q
<1>5. ASSUME NEW k \in 1..Len(q) PROVE StartsBefore(q[k])
  <2>1. \A i \in 1..Len(a) : StartsBefore(a[i])
    BY DEF Sound
  <2>2. \A i \in 1..Len(b) : StartsBefore(b[i])
    BY DEF Sound
  <2> QED BY <1>3, <2>1, <2>2
<1>6. ASSUME program # "base", NEW k \in 1..Len(q)
      PROVE  CutRest(q, k) \/ InLimit(q[k])
  <2>1. CASE k \in 1..Len(a)
    <3>1. CutRest(a, k) \/ InLimit(a[k])
      BY <1>6, <2>1 DEF Sound
    <3>2. k > 1 => k - 1 \in 1..Len(a)
      BY <1>4, <2>1
    <3>3. q[k] = a[k] /\ (k > 1 => q[k - 1] = a[k - 1])
      BY <1>3, <2>1, <3>2
    <3> QED BY <3>1, <3>3 DEF CutRest
  <2>2. ASSUME NEW i \in 1..Len(b), k = Len(a) + i
        PROVE  CutRest(q, k) \/ InLimit(q[k])
    <3>1. CutRest(b, i) \/ InLimit(b[i])
      BY <1>6 DEF Sound
    <3>2. i > 1 => k > 1 /\ i - 1 \in 1..Len(b) /\ k - 1 = Len(a) + (i - 1)
      BY <1>4, <2>2
    <3>3. q[k] = b[i] /\ (i > 1 => q[k - 1] = b[i - 1])
      BY <1>3, <2>2, <3>2
    <3> QED BY <3>1, <3>2, <3>3 DEF CutRest
  <2> QED BY <1>3, <2>1, <2>2
<1>7. Sound(program, q, m, f, S \cup T)
  BY <1>2, <1>3, <1>5, <1>6, Zenon DEF Sound
<1> QED
  BY <1>7 DEF q

\* No chunk.
LEMMA SoundNone ==
    ASSUME NEW program, NEW m \in Int
    PROVE  Sound(program, <<>>, m, m, {})
<1>1. Concat(Texts(<<>>)) = <<>>
  <2>1. Texts(<<>>) = <<>>
    BY DEF Texts
  <2> QED BY <2>1, ConcatNone
<1>2. <<>> \in Seq(ChunkRecord) /\ \A i \in 1..Len(<<>>) : FALSE
  OBVIOUS
<1> QED
  BY <1>1, <1>2, FollowsNone, Zenon DEF Sound

\* One chunk.
LEMMA SoundOne ==
    ASSUME NEW program, NEW c \in ChunkRecord, NEW m \in Int, NEW e \in Int, NEW S,
           Follows(c.text, m, e, S), StartsBefore(c), program # "base" => InLimit(c)
    PROVE  Sound(program, <<c>>, m, e, S)
<1> DEFINE q == <<c>>
<1>1. q \in Seq(ChunkRecord) /\ Len(q) = 1 /\ q[1] = c /\ c.text \in Seq(RangeRecord)
  BY DEF ChunkRecord
<1>2. Concat(Texts(q)) = c.text
  <2>1. Texts(q) = <<c.text>>
    <3>1. /\ Texts(q) \in Seq(Seq(RangeRecord)) /\ Len(Texts(q)) = 1
          /\ Texts(q)[1] = c.text
      <4> HIDE DEF q
      <4>1. 1 \in 1..Len(q)
        BY <1>1
      <4> QED BY <1>1, <4>1, TextsType
    <3> HIDE DEF q
    <3> QED BY <3>1
  <2> QED BY <1>1, <2>1, ConcatOne
<1> HIDE DEF q
<1>3. \A i \in 1..Len(q) : q[i] = c
  BY <1>1
<1>4. Sound(program, q, m, e, S)
  BY <1>1, <1>2, <1>3, Zenon DEF Sound
<1> QED
  BY <1>4 DEF q

\* The estimate of _count_tokens rounds down by less than a token.
LEMMA TokensBound ==
    ASSUME NEW n \in Nat
    PROVE  Tokens(n) \in Nat /\ 4 * Tokens(n) <= n /\ n <= 4 * Tokens(n) + 3
BY DEF Tokens

\* The length of a text of one range.
LEMMA TextLenOne ==
    ASSUME NEW c, NEW m \in Nat, NEW e \in Nat, m <= e,
           c.text = <<[lo |-> m, hi |-> e]>>
    PROVE  TextLen(c) = e - m
<1> DEFINE s == [i \in DOMAIN c.text |-> c.text[i].hi - c.text[i].lo]
<1>1. DOMAIN c.text = 1..1 /\ Len(c.text) = 1 /\ c.text[1].lo = m /\ c.text[1].hi = e
  OBVIOUS
<1>2. e - m \in Nat
  OBVIOUS
<1>3. s = [i \in 1..1 |-> e - m]
  BY <1>1
<1>4. s \in Seq(Nat) /\ Len(s) = 1 /\ s[1] = e - m
  BY <1>2, <1>3
<1>5. TextLen(c) = Sum(s) + 2 * (1 - 1)
  BY <1>1 DEF TextLen
<1> HIDE DEF s
<1>6. PICK v \in [0..Len(s) -> Nat] :
              /\ v[0] = 0
              /\ \A k \in 1..Len(s) : v[k] = v[k - 1] + s[k]
              /\ Sum(s) = v[Len(s)]
  BY <1>4, SumTrace
<1>7. Sum(s) = e - m
  <2>1. 1 \in 1..Len(s) /\ 1 - 1 = 0
    BY <1>4
  <2>2. v[1] = v[0] + s[1]
    BY <1>6, <2>1
  <2> QED BY <1>2, <1>4, <1>6, <2>2
<1> QED
  BY <1>2, <1>5, <1>7

\* The chunk of one range.
LEMMA RangeChunk ==
    ASSUME NEW program, NEW m \in Nat, NEW e \in Nat, m <= e, NEW start \in Int,
           NEW tokens \in Nat, NEW pieces \in Nat, start <= m,
           program # "base" => e - m <= 4 * ChunkTokens + 5 * pieces
    PROVE  Sound(program, <<Chunk(<<[lo |-> m, hi |-> e]>>, start, tokens, pieces)>>,
                 m, e, m..(e - 1))
<1> DEFINE t == <<[lo |-> m, hi |-> e]>>
           c == Chunk(t, start, tokens, pieces)
<1>1. t \in Seq(RangeRecord) /\ t # <<>> /\ t[1].lo = m
  BY DEF RangeRecord
<1>2. Follows(t, m, e, m..(e - 1))
  BY FollowsOne
<1>3. c.text = t /\ c.start = start /\ c.pieces = pieces
  BY DEF Chunk
<1>4. c \in ChunkRecord
  <2> HIDE DEF t
  <2> QED BY <1>1 DEF Chunk, ChunkRecord
<1>5. TextLen(c) = e - m
  <2> HIDE DEF c
  <2> QED BY <1>3, TextLenOne
<1> HIDE DEF c, t
<1>6. StartsBefore(c)
  <2>1. e - m \in Nat
    OBVIOUS
  <2> QED BY <1>1, <1>3, <1>5, <2>1 DEF StartsBefore
<1>7. program # "base" => InLimit(c)
  BY <1>3, <1>5 DEF InLimit
<1>8. Sound(program, <<c>>, m, e, m..(e - 1))
  BY <1>2, <1>3, <1>4, <1>6, <1>7, SoundOne
<1> QED
  BY <1>8 DEF c, t

\* Two sequences of one element each.
LEMMA PairJoin ==
    ASSUME NEW R, NEW a \in R, NEW b \in R
    PROVE  <<a>> \o <<b>> = <<a, b>>
<1> DEFINE q == <<a>> \o <<b>>
           r == <<a, b>>
<1>1. <<a>> \in Seq(R) /\ <<b>> \in Seq(R) /\ Len(<<a>>) = 1 /\ Len(<<b>>) = 1
  OBVIOUS
<1>2. /\ q \in Seq(R) /\ Len(q) = 2
      /\ r \in Seq(R) /\ Len(r) = 2 
  BY <1>1
<1>3. q[1] = r[1] /\ q[2] = r[2]
  <2>1. q[1] = a 
    BY <1>1
  <2>2. q[2] = b
    BY <1>1
  <2>3. r[1] = a /\ r[2] = b
    OBVIOUS
  <2> QED BY <2>1, <2>2, <2>3
<1> HIDE DEF q, r
<1>4. \A i \in 1..Len(q) : q[i] = r[i]
  BY <1>2, <1>3
<1>5. q = r
  BY <1>2, <1>4, SeqEqual
<1> QED BY <1>5 DEF q, r

\* The two chunks of a sentence that is cut.
LEMMA CutChunks ==
    ASSUME NEW program, NEW m \in Nat, NEW e \in Nat, NEW start \in Int, start <= m,
           NEW x \in Nat, NEW y \in Nat, m + 4 * ChunkTokens <= e
    PROVE  LET cut == m + 4 * ChunkTokens
               a == Chunk(<<[lo |-> m, hi |-> cut]>>, start, x, 1)
               b == Chunk(<<[lo |-> cut, hi |-> e]>>, start + 4 * ChunkTokens, y, 1)
           IN Sound(program, <<a, b>>, m, e, m..(e - 1))
<1> DEFINE cut == m + 4 * ChunkTokens
           a == Chunk(<<[lo |-> m, hi |-> cut]>>, start, x, 1)
           b == Chunk(<<[lo |-> cut, hi |-> e]>>, start + 4 * ChunkTokens, y, 1)
           q == <<a>> \o <<b>>
<1>1. /\ cut \in Nat /\ m <= cut /\ cut <= e /\ cut - m = 4 * ChunkTokens
      /\ start + 4 * ChunkTokens \in Int /\ start + 4 * ChunkTokens <= cut
  BY ChunkingAssumption
<1>2. cut - m <= 4 * ChunkTokens + 5 * 1
  BY <1>1, ChunkingAssumption
<1>3. a.text[1].hi = cut /\ a.text[1].lo = m /\ b.text[1].lo = cut
  BY DEF Chunk
<1> HIDE DEF cut
<1>4. Sound(program, <<a>>, m, cut, m..(cut - 1))
  BY <1>1, <1>2, RangeChunk
<1>5. Sound("base", <<b>>, cut, e, cut..(e - 1)) /\ Sound("base", <<a>>, m, cut, m..(cut - 1))
  BY <1>1, RangeChunk
<1>6. m..(cut - 1) \cup cut..(e - 1) = m..(e - 1)
  BY <1>1
<1> HIDE DEF a, b
<1>7. Sound("base", q, m, e, m..(e - 1))
  <2>1. Sound("base", q, m, e, m..(cut - 1) \cup cut..(e - 1))
    BY <1>1, <1>5, SoundJoin
  <2> QED BY <1>6, <2>1
<1> HIDE DEF q
<1>8. q = <<a, b>> /\ Len(q) = 2 /\ q[1] = a /\ q[2] = b
  <2>1. a \in {a, b} /\ b \in {a, b}
    OBVIOUS
  <2>2. q = <<a, b>>
    BY <2>1, PairJoin DEF q
  <2> QED BY <2>2
<1>9. ASSUME program # "base", NEW i \in 1..Len(q)
      PROVE  CutRest(q, i) \/ InLimit(q[i])
  <2>1. CASE i = 1
    <3>1. <<a>>[1] = a /\ ~ CutRest(<<a>>, 1) /\ 1 \in 1..Len(<<a>>)
      BY DEF CutRest
    <3>2. InLimit(a)
      BY <1>4, <1>9, <3>1 DEF Sound
    <3> QED BY <1>8, <2>1, <3>2
  <2>2. CASE i = 2
    <3>1. 2 > 1 /\ 2 - 1 = 1
      OBVIOUS
    <3>2. CutRest(q, 2)
      BY <1>1, <1>3, <1>8, <3>1 DEF CutRest
    <3> QED BY <2>2, <3>2
  <2> QED BY <1>8, <2>1, <2>2
<1>10. Sound(program, q, m, e, m..(e - 1))
  BY <1>7, <1>9, Zenon DEF Sound
<1> QED
  BY <1>8, <1>10 DEF a, b, cut

-----------------------------------------------------------------------------
(* The sentences of a long paragraph.                                      *)

LongRecord == [out : Seq(ChunkRecord), part : Seq(RangeRecord), pieces : Nat,
               tokens : Nat, start : Int, at : Nat]

\* Nothing is collected: the chunks end where the next sentence begins.
LongEmpty(program, from, out, part, tokens, start, at) ==
    /\ part = <<>> /\ tokens = 0
    /\ from <= at /\ start <= at
    /\ Sound(program, out, from, at, from..(at - 1))

\* The chunks end at p, where what is collected begins.
LongPart(program, from, out, part, pieces, tokens, start, at, p) ==
    /\ part = <<[lo |-> p, hi |-> at]>>
    /\ from <= p /\ p <= at /\ start <= p
    /\ Sound(program, out, from, p, from..(p - 1))
    /\ program # "base" => at - p <= 4 * tokens + 3 * pieces /\ tokens <= ChunkTokens

LongSound(program, from, st) ==
    /\ st \in LongRecord
    /\ \/ LongEmpty(program, from, st.out, st.part, st.tokens, st.start, st.at)
       \/ \E p \in Nat : LongPart(program, from, st.out, st.part, st.pieces,
                                  st.tokens, st.start, st.at, p)

LongFields(st, out, part, pieces, tokens, start, at) ==
    /\ st \in LongRecord
    /\ st.out = out /\ st.part = part /\ st.pieces = pieces /\ st.tokens = tokens
    /\ st.start = start /\ st.at = at

\* What a flush changes, field by field.
LEMMA FlushFields ==
    ASSUME NEW st \in LongRecord, NEW p \in Nat, p <= st.at,
           st.part = <<[lo |-> p, hi |-> st.at]>>
    PROVE  LongFields(Flush(st),
              Append(st.out, Chunk(st.part, st.start, st.tokens, st.pieces)),
              <<>>, 0, 0, st.start + (st.at - p), st.at)
<1> DEFINE c == Chunk(st.part, st.start, st.tokens, st.pieces)
<1>1. /\ st.out \in Seq(ChunkRecord) /\ st.part \in Seq(RangeRecord)
      /\ st.pieces \in Nat /\ st.tokens \in Nat /\ st.start \in Int /\ st.at \in Nat
  BY DEF LongRecord
<1>2. c \in ChunkRecord
  BY <1>1 DEF Chunk, ChunkRecord
<1>3. st.part # <<>> /\ st.part[1].hi - st.part[1].lo = st.at - p
  <2>1. st.part[1] = [lo |-> p, hi |-> st.at]
    OBVIOUS
  <2>2. st.part[1].hi = st.at /\ st.part[1].lo = p
    BY <2>1
  <2>3. st.part # <<>>
    OBVIOUS
  <2> QED BY <2>2, <2>3
<1> HIDE DEF c
<1>4. PICK o \in Seq(ChunkRecord) : o = Append(st.out, c)
  <2>1. \A r \in Seq(ChunkRecord), x \in ChunkRecord : Append(r, x) \in Seq(ChunkRecord)
    OBVIOUS
  <2> QED BY <1>1, <1>2, <2>1, Zenon
<1>5. PICK s \in Int : s = st.start + (st.at - p)
  <2>1. \A x \in Int, y, z \in Nat : x + (y - z) \in Int
    OBVIOUS
  <2> QED BY <1>1, <2>1, Zenon
<1>6. Flush(st) = [st EXCEPT !.out = o, !.start = s, !.part = <<>>,
                             !.pieces = 0, !.tokens = 0]
  BY <1>3, <1>4, <1>5, Zenon DEF Flush, c
<1>7. LongFields(Flush(st), o, <<>>, 0, 0, s, st.at)
  <2> DEFINE f == [st EXCEPT !.out = o, !.start = s, !.part = <<>>,
                             !.pieces = 0, !.tokens = 0]
  <2>1. f \in LongRecord
    <3>1. <<>> \in Seq(RangeRecord)
      OBVIOUS
    <3> QED BY <3>1 DEF LongRecord
  <2>2. /\ f.out = o /\ f.part = <<>> /\ f.pieces = 0 /\ f.tokens = 0
        /\ f.start = s /\ f.at = st.at
    BY DEF LongRecord
  <2> QED BY <1>6, <2>1, <2>2, Zenon DEF LongFields
<1> QED
  BY <1>4, <1>5, <1>7, Zenon DEF c

\* What a further sentence changes, field by field.
LEMMA ExtendFields ==
    ASSUME NEW st \in LongRecord, NEW n \in Nat
    PROVE  /\ st.part = <<>> =>
                 LongFields(Extend(st, n), st.out, <<[lo |-> st.at, hi |-> st.at + n]>>,
                            st.pieces + 1, st.tokens + Tokens(n), st.start, st.at + n)
           /\ \A p \in Nat : st.part = <<[lo |-> p, hi |-> st.at]>> =>
                 LongFields(Extend(st, n), st.out, <<[lo |-> p, hi |-> st.at + n]>>,
                            st.pieces + 1, st.tokens + Tokens(n), st.start, st.at + n)
<1>1. /\ st.out \in Seq(ChunkRecord) /\ st.part \in Seq(RangeRecord)
      /\ st.pieces \in Nat /\ st.tokens \in Nat /\ st.start \in Int /\ st.at \in Nat
      /\ Tokens(n) \in Nat
  BY TokensBound DEF LongRecord
<1>2. PICK e \in Nat : e = st.at + n
  BY <1>1
<1>3. PICK t \in Nat : t = st.tokens + Tokens(n)
  BY <1>1
<1>4. PICK k \in Nat : k = st.pieces + 1
  BY <1>1
<1>5. ASSUME NEW p \in Nat, NEW q,
             q = IF st.part = <<>> THEN <<Span(st.at, n)>>
                 ELSE <<[st.part[1] EXCEPT !.hi = st.at + n]>>,
             q = <<[lo |-> p, hi |-> e]>>
      PROVE  LongFields(Extend(st, n), st.out, q, k, t, st.start, e)
  <2> DEFINE f == [st EXCEPT !.part = q, !.pieces = k, !.tokens = t, !.at = e]
  <2>1. Extend(st, n) = f
    <3>1. Extend(st, n) =
             [st EXCEPT !.part = IF st.part = <<>> THEN <<Span(st.at, n)>>
                                 ELSE <<[st.part[1] EXCEPT !.hi = st.at + n]>>,
                        !.pieces = st.pieces + 1,
                        !.tokens = st.tokens + Tokens(n),
                        !.at = st.at + n]
      BY DEF Extend
    <3> QED BY <1>2, <1>3, <1>4, <1>5, <3>1, Zenon
  <2>2. q \in Seq(RangeRecord)
    <3>1. <<[lo |-> p, hi |-> e]>> \in Seq(RangeRecord)
      BY DEF RangeRecord
    <3> QED BY <1>5, <3>1, Zenon
  <2>3. f \in LongRecord
    BY <2>2 DEF LongRecord
  <2>4. /\ f.out = st.out /\ f.part = q /\ f.pieces = k /\ f.tokens = t
        /\ f.start = st.start /\ f.at = e
    BY <2>2 DEF LongRecord
  <2> QED BY <2>1, <2>3, <2>4, Zenon DEF LongFields
<1>6. ASSUME st.part = <<>>
      PROVE  LongFields(Extend(st, n), st.out, <<[lo |-> st.at, hi |-> e]>>,
                        k, t, st.start, e)
  <2>1. Span(st.at, n) = [lo |-> st.at, hi |-> e]
    BY <1>2 DEF Span
  <2>2. <<Span(st.at, n)>> = IF st.part = <<>> THEN <<Span(st.at, n)>>
                             ELSE <<[st.part[1] EXCEPT !.hi = st.at + n]>>
    BY <1>6, Zenon
  <2>3. <<Span(st.at, n)>> = <<[lo |-> st.at, hi |-> e]>>
    BY <2>1
  <2>4. LongFields(Extend(st, n), st.out, <<Span(st.at, n)>>, k, t, st.start, e)
    BY <1>1, <1>5, <2>2, <2>3, Zenon
  <2> QED BY <2>3, <2>4, Zenon
<1>7. ASSUME NEW p \in Nat, st.part = <<[lo |-> p, hi |-> st.at]>>
      PROVE  LongFields(Extend(st, n), st.out, <<[lo |-> p, hi |-> e]>>,
                        k, t, st.start, e)
  <2>1. st.part # <<>> /\ st.part[1] = [lo |-> p, hi |-> st.at]
    BY <1>7
  <2> DEFINE q == <<[st.part[1] EXCEPT !.hi = st.at + n]>>
  <2>2. q = <<[lo |-> p, hi |-> e]>>
    <3>1. [st.part[1] EXCEPT !.hi = e] = [lo |-> p, hi |-> e]
      BY <2>1
    <3> QED BY <1>2, <3>1, Zenon
  <2>3. q = IF st.part = <<>> THEN <<Span(st.at, n)>> ELSE q
    BY <2>1, Zenon
  <2>4. LongFields(Extend(st, n), st.out, q, k, t, st.start, e)
    BY <1>5, <2>2, <2>3, Zenon
  <2> HIDE DEF q
  <2> QED BY <2>2, <2>4, Zenon
<1> QED
  BY <1>2, <1>3, <1>4, <1>6, <1>7, Zenon

\* A sentence that fits is collected.
LEMMA ExtendSound ==
    ASSUME NEW program, NEW from \in Int, NEW st, LongSound(program, from, st),
           NEW n \in Nat,
           program # "base" => st.tokens + Tokens(n) <= ChunkTokens
    PROVE  LongSound(program, from, Extend(st, n)) /\ Extend(st, n).at = st.at + n
<1> DEFINE f == Extend(st, n)
<1>1. st \in LongRecord
  BY DEF LongSound
<1>2. /\ st.pieces \in Nat /\ st.tokens \in Nat /\ st.start \in Int /\ st.at \in Nat
      /\ Tokens(n) \in Nat /\ n <= 4 * Tokens(n) + 3 /\ ChunkTokens \in Nat
  BY <1>1, TokensBound, ChunkingAssumption DEF LongRecord
<1>3. PICK e \in Nat : e = st.at + n
  BY <1>2
<1>4. PICK t \in Nat : t = st.tokens + Tokens(n)
  BY <1>2
<1>5. PICK k \in Nat : k = st.pieces + 1
  BY <1>2
<1>6. ASSUME NEW p \in Nat,
             LongFields(f, st.out, <<[lo |-> p, hi |-> e]>>, k, t, st.start, e),
             from <= p, p <= st.at, st.start <= p,
             Sound(program, st.out, from, p, from..(p - 1)),
             program # "base" => st.at - p <= 4 * st.tokens + 3 * st.pieces
      PROVE  LongSound(program, from, f) /\ f.at = e
  <2>1. p <= e
    <3>1. \A x, y, z, m \in Nat : z = y + m /\ x <= y => x <= z
      OBVIOUS
    <3> QED BY <1>2, <1>3, <1>6, <3>1, Zenon
  <2>2. program # "base" => e - p <= 4 * t + 3 * k /\ t <= ChunkTokens
    <3> HAVE program # "base"
    <3>1. st.at - p <= 4 * st.tokens + 3 * st.pieces
          /\ st.tokens + Tokens(n) <= ChunkTokens
      BY <1>6
    <3> QED BY <1>2, <1>3, <1>4, <1>5, <3>1
  <2>3. LongPart(program, from, f.out, f.part, f.pieces, f.tokens, f.start, f.at, p)
    BY <1>6, <2>1, <2>2, Zenon DEF LongFields, LongPart
  <2>4. f \in LongRecord /\ f.at = e
    BY <1>6, Zenon DEF LongFields
  <2> QED BY <2>3, <2>4, Zenon DEF LongSound
<1>7. CASE LongEmpty(program, from, st.out, st.part, st.tokens, st.start, st.at)
  <2>1. /\ st.part = <<>> /\ st.tokens = 0 /\ from <= st.at /\ st.start <= st.at
        /\ Sound(program, st.out, from, st.at, from..(st.at - 1))
    BY <1>7 DEF LongEmpty
  <2>2. LongFields(f, st.out, <<[lo |-> st.at, hi |-> st.at + n]>>,
                   st.pieces + 1, st.tokens + Tokens(n), st.start, st.at + n)
    BY <1>1, <2>1, ExtendFields, Zenon
  <2>3. LongFields(f, st.out, <<[lo |-> st.at, hi |-> e]>>, k, t, st.start, e)
    BY <2>2, <1>3, <1>4, <1>5, Zenon
  <2>4. st.at <= st.at /\ st.at - st.at <= 4 * st.tokens + 3 * st.pieces
    BY <1>2
  <2> HIDE DEF f
  <2>5. LongSound(program, from, f) /\ f.at = e
    BY <1>2, <1>6, <2>1, <2>3, <2>4
  <2> QED BY <1>3, <2>5 DEF f
<1>8. ASSUME NEW p \in Nat,
             LongPart(program, from, st.out, st.part, st.pieces, st.tokens,
                      st.start, st.at, p)
      PROVE  LongSound(program, from, f) /\ f.at = st.at + n
  <2>1. /\ st.part = <<[lo |-> p, hi |-> st.at]>>
        /\ from <= p /\ p <= st.at /\ st.start <= p
        /\ Sound(program, st.out, from, p, from..(p - 1))
        /\ program # "base" => st.at - p <= 4 * st.tokens + 3 * st.pieces
    BY <1>8 DEF LongPart
  <2>2. LongFields(f, st.out, <<[lo |-> p, hi |-> st.at + n]>>,
                   st.pieces + 1, st.tokens + Tokens(n), st.start, st.at + n)
    BY <1>1, <2>1, ExtendFields, Zenon
  <2>3. LongFields(f, st.out, <<[lo |-> p, hi |-> e]>>, k, t, st.start, e)
    BY <2>2, <1>3, <1>4, <1>5, Zenon
  <2> HIDE DEF f
  <2>4. LongSound(program, from, f) /\ f.at = e
    BY <1>6, <2>1, <2>3, Zenon
  <2> QED BY <1>3, <2>4 DEF f
<1> QED
  BY <1>7, <1>8, Zenon DEF LongSound

Adjoins(a, b, c) == a..(b - 1) \cup b..(c - 1) = a..(c - 1)

\* Adjoining intervals.
LEMMA Adjoin ==
    ASSUME NEW a \in Int, NEW b \in Int, NEW c \in Int, a <= b, b <= c
    PROVE  Adjoins(a, b, c)
BY DEF Adjoins

\* A flush keeps the chunks sound, and nothing is collected after it.
LEMMA FlushSound ==
    ASSUME NEW program, NEW from \in Int, NEW st, LongSound(program, from, st)
    PROVE  /\ LongSound(program, from, Flush(st))
           /\ Flush(st).part = <<>> /\ Flush(st).tokens = 0
           /\ Flush(st).at = st.at
<1> DEFINE f == Flush(st)
<1>1. st \in LongRecord
  BY DEF LongSound
<1>2. /\ st.pieces \in Nat /\ st.tokens \in Nat /\ st.start \in Int /\ st.at \in Nat
      /\ st.out \in Seq(ChunkRecord) /\ st.part \in Seq(RangeRecord)
      /\ ChunkTokens \in Nat
  BY <1>1, ChunkingAssumption DEF LongRecord
<1>3. CASE LongEmpty(program, from, st.out, st.part, st.tokens, st.start, st.at)
  <2>1. st.part = <<>> /\ st.tokens = 0
    BY <1>3 DEF LongEmpty
  <2>2. f = st
    BY <2>1 DEF Flush
  <2> QED BY <2>1, <2>2
<1>4. ASSUME NEW p \in Nat,
             LongPart(program, from, st.out, st.part, st.pieces, st.tokens,
                      st.start, st.at, p)
      PROVE  /\ LongSound(program, from, f)
             /\ f.part = <<>> /\ f.tokens = 0 /\ f.at = st.at
  <2>1. /\ st.part = <<[lo |-> p, hi |-> st.at]>>
        /\ from <= p /\ p <= st.at /\ st.start <= p
        /\ Sound(program, st.out, from, p, from..(p - 1))
        /\ program # "base" => st.at - p <= 4 * st.tokens + 3 * st.pieces
                               /\ st.tokens <= ChunkTokens
    BY <1>4 DEF LongPart
  <2> DEFINE c == Chunk(<<[lo |-> p, hi |-> st.at]>>, st.start, st.tokens, st.pieces)
             out == st.out \o <<c>>
             start == st.start + (st.at - p)
  <2>2. program # "base" => st.at - p <= 4 * ChunkTokens + 5 * st.pieces
    <3> HAVE program # "base"
    <3>1. st.at - p <= 4 * st.tokens + 3 * st.pieces /\ st.tokens <= ChunkTokens
      BY <2>1
    <3>2. \A x, y, t, k, m \in Nat :
             x - y <= 4 * t + 3 * k /\ t <= m => x - y <= 4 * m + 5 * k
      OBVIOUS
    <3> QED BY <1>2, <3>1, <3>2, Zenon
  <2>3. Sound(program, <<c>>, p, st.at, p..(st.at - 1))
    BY <1>2, <2>1, <2>2, RangeChunk
  <2>4. Append(st.out, c) = out
    <3>1. c \in ChunkRecord
      <4>1. <<[lo |-> p, hi |-> st.at]>> \in Seq(RangeRecord)
        BY <1>2 DEF RangeRecord
      <4> QED BY <1>2, <4>1 DEF Chunk, ChunkRecord
    <3> HIDE DEF c
    <3> QED BY <1>2, <3>1, AppendIsConcat, Zenon
  <2> HIDE DEF c
  <2>5. LongFields(f, Append(st.out, c), <<>>, 0, 0, start, st.at)
    <3>1. LongFields(Flush(st),
              Append(st.out, Chunk(st.part, st.start, st.tokens, st.pieces)),
              <<>>, 0, 0, st.start + (st.at - p), st.at)
      BY <1>1, <2>1, FlushFields, Zenon
    <3> QED BY <2>1, <3>1, Zenon DEF c
  <2>6. Sound(program, out, from, st.at, from..(st.at - 1))
    <3>1. Sound(program, out, from, st.at, from..(p - 1) \cup p..(st.at - 1))
      BY <1>2, <2>1, <2>3, SoundJoin
    <3>2. from..(p - 1) \cup p..(st.at - 1) = from..(st.at - 1)
      <4>1. Adjoins(from, p, st.at)
        BY <1>2, <2>1, Adjoin
      <4> QED BY <4>1, Zenon DEF Adjoins
    <3> HIDE DEF out
    <3> QED BY <3>1, <3>2
  <2>7. from <= st.at /\ start <= st.at
    BY <1>2, <2>1
  <2> HIDE DEF out, start, f
  <2>8. /\ f \in LongRecord /\ f.out = out /\ f.part = <<>> /\ f.tokens = 0
        /\ f.start = start /\ f.at = st.at
    BY <2>4, <2>5, Zenon DEF LongFields
  <2>9. LongEmpty(program, from, f.out, f.part, f.tokens, f.start, f.at)
    BY <2>6, <2>7, <2>8, Zenon DEF LongEmpty
  <2> QED BY <2>8, <2>9, Zenon DEF LongSound
<1> QED
  BY <1>3, <1>4, Zenon DEF LongSound

\* Nothing is collected at the beginning.
LEMMA EmptySound ==
    ASSUME NEW program, NEW from, NEW st, LongSound(program, from, st), st.part = <<>>
    PROVE  /\ st.tokens = 0 /\ from <= st.at /\ st.start <= st.at
           /\ Sound(program, st.out, from, st.at, from..(st.at - 1))
<1>1. ASSUME NEW p \in Nat,
             LongPart(program, from, st.out, st.part, st.pieces, st.tokens,
                      st.start, st.at, p)
      PROVE  FALSE
  <2>1. <<[lo |-> p, hi |-> st.at]>> # <<>>
    OBVIOUS
  <2> QED BY <1>1, <2>1, Zenon DEF LongPart
<1>2. LongEmpty(program, from, st.out, st.part, st.tokens, st.start, st.at)
  BY <1>1, Zenon DEF LongSound
<1> QED
  BY <1>2 DEF LongEmpty

\* A sentence that is cut yields two sound chunks.
LEMMA CutSound ==
    ASSUME NEW program, NEW from \in Int, NEW st, LongSound(program, from, st),
           st.part = <<>>, NEW n \in Nat, Tokens(n) > ChunkTokens
    PROVE  /\ LongSound(program, from, HardCut(st, n))
           /\ HardCut(st, n).at = st.at + n
<1> DEFINE f == HardCut(st, n)
<1>1. st \in LongRecord
  BY DEF LongSound
<1>2. /\ st.pieces \in Nat /\ st.tokens \in Nat /\ st.start \in Int /\ st.at \in Nat
      /\ st.out \in Seq(ChunkRecord) /\ st.part \in Seq(RangeRecord)
      /\ ChunkTokens \in Nat
  BY <1>1, ChunkingAssumption DEF LongRecord
<1>3. /\ st.tokens = 0 /\ from <= st.at /\ st.start <= st.at
      /\ Sound(program, st.out, from, st.at, from..(st.at - 1))
  BY EmptySound
<1>4. PICK m \in Nat : m = 4 * ChunkTokens
  BY <1>2
<1>5. m <= n
  <2>1. Tokens(n) \in Nat /\ 4 * Tokens(n) <= n
    BY TokensBound
  <2> QED BY <1>2, <1>4, <2>1
<1>6. Tokens(m) \in Nat /\ Tokens(n - m) \in Nat
  <2>1. n - m \in Nat
    BY <1>5
  <2> QED BY <2>1, TokensBound
<1>7. PICK e \in Nat : e = st.at + n
  BY <1>2
<1>8. PICK c \in Nat : c = st.at + m
  BY <1>2
<1> DEFINE a == Chunk(<<[lo |-> st.at, hi |-> c]>>, st.start, Tokens(m), 1)
           b == Chunk(<<[lo |-> c, hi |-> e]>>, st.start + m, Tokens(n - m), 1)
           out == st.out \o <<a, b>>
<1>9. Sound(program, <<a, b>>, st.at, e, st.at..(e - 1))
  <2>1. st.at + 4 * ChunkTokens <= e
    BY <1>2, <1>4, <1>5, <1>7
  <2> QED BY <1>2, <1>3, <1>4, <1>6, <1>8, <2>1, CutChunks, Zenon
<1>10. Sound(program, out, from, e, from..(e - 1))
  <2>1. st.at <= e
    BY <1>2, <1>7
  <2>2. from..(st.at - 1) \cup st.at..(e - 1) = from..(e - 1)
    <3>1. Adjoins(from, st.at, e)
      BY <1>2, <1>3, <2>1, Adjoin
    <3> QED BY <3>1, Zenon DEF Adjoins
  <2>3. Sound(program, out, from, e, from..(st.at - 1) \cup st.at..(e - 1))
    <3> DEFINE q == <<a, b>>
    <3>1. Sound(program, q, st.at, e, st.at..(e - 1)) /\ from <= st.at
          /\ Sound(program, st.out, from, st.at, from..(st.at - 1))
          /\ st.at \in Int /\ e \in Int
      BY <1>2, <1>3, <1>9
    <3> HIDE DEF q
    <3>2. Sound(program, st.out \o q, from, e, from..(st.at - 1) \cup st.at..(e - 1))
      BY <2>1, <3>1, SoundJoin
    <3> QED BY <3>2 DEF q
  <2> HIDE DEF out
  <2> QED BY <2>2, <2>3
<1>11. f = [st EXCEPT !.out = out, !.at = e]
  <2>1. c + (n - m) = e /\ st.at + m = c
    BY <1>2, <1>7, <1>8, <1>5
  <2>2. Span(st.at, m) = [lo |-> st.at, hi |-> c]
    BY <2>1 DEF Span
  <2>3. Span(st.at + m, n - m) = [lo |-> c, hi |-> e]
    BY <2>1 DEF Span
  <2>4. f = [st EXCEPT !.out = st.out \o
                 <<Chunk(<<Span(st.at, m)>>, st.start, Tokens(m), 1),
                   Chunk(<<Span(st.at + m, n - m)>>, st.start + m,
                         Tokens(n - m), 1)>>,
               !.at = st.at + n]
    BY <1>4, Zenon DEF HardCut
  <2> QED BY <1>7, <2>2, <2>3, <2>4, Zenon
<1>12. out \in Seq(ChunkRecord)
  BY <1>10 DEF Sound
<1> HIDE DEF out
<1>13. LongFields(f, out, st.part, st.pieces, st.tokens, st.start, e)
  <2> DEFINE g == [st EXCEPT !.out = out, !.at = e]
  <2>1. g \in LongRecord
    BY <1>1, <1>12 DEF LongRecord
  <2>2. /\ g.out = out /\ g.part = st.part /\ g.pieces = st.pieces
        /\ g.tokens = st.tokens /\ g.start = st.start /\ g.at = e
    BY <1>1, <1>12 DEF LongRecord
  <2> QED BY <1>11, <2>1, <2>2, Zenon DEF LongFields
<1>14. from <= e /\ st.start <= e
  BY <1>2, <1>3, <1>7
<1> HIDE DEF f
<1>15. LongEmpty(program, from, f.out, f.part, f.tokens, f.start, f.at)
  BY <1>3, <1>10, <1>13, <1>14, Zenon DEF LongFields, LongEmpty
<1>16. f \in LongRecord /\ f.at = e
  BY <1>13, Zenon DEF LongFields
<1>17. LongSound(program, from, f) /\ f.at = st.at + n
  BY <1>7, <1>15, <1>16, Zenon DEF LongSound
<1> QED
  BY <1>17 DEF f

\* A step goes over n characters and keeps the chunks sound.
LongMoves(program, from, st, n) ==
    /\ LongSound(program, from, LStep(program, st, n))
    /\ LStep(program, st, n).at = st.at + n

\* Every step does, in either program.
LEMMA LongStepSound ==
    ASSUME NEW program, NEW from \in Int, NEW st, LongSound(program, from, st),
           NEW n \in Nat
    PROVE  LongMoves(program, from, st, n)
<1> DEFINE fl == Flush(st)
           More(s, k) == s.tokens + Tokens(k) <= ChunkTokens
<1>1. /\ LongSound(program, from, fl) /\ fl.part = <<>> /\ fl.tokens = 0
      /\ fl.at = st.at
  BY FlushSound
<1>2. st.tokens \in Nat /\ Tokens(n) \in Nat /\ ChunkTokens \in Nat
  BY TokensBound, ChunkingAssumption DEF LongSound, LongRecord
<1>3. CASE More(st, n)
  <2>1. LStep(program, st, n) = Extend(st, n)
    BY <1>3, Zenon DEF LStep, LongStep, BaseLongStep
  <2>2. LongSound(program, from, Extend(st, n)) /\ Extend(st, n).at = st.at + n
    BY <1>3, ExtendSound
  <2> QED BY <2>1, <2>2, Zenon DEF LongMoves
<1>4. ASSUME ~ More(st, n), LStep(program, st, n) = HardCut(fl, n), Tokens(n) > ChunkTokens
      PROVE  LongMoves(program, from, st, n)
  <2> HIDE DEF fl
  <2>1. LongSound(program, from, HardCut(fl, n)) /\ HardCut(fl, n).at = fl.at + n
    BY <1>1, <1>4, CutSound
  <2> QED BY <1>1, <1>4, <2>1, Zenon DEF LongMoves
<1>5. ASSUME LStep(program, st, n) = Extend(fl, n),
             program # "base" => ~ Tokens(n) > ChunkTokens
      PROVE  LongMoves(program, from, st, n)
  <2> HIDE DEF fl
  <2>1. program # "base" => fl.tokens + Tokens(n) <= ChunkTokens
    BY <1>1, <1>2, <1>5
  <2>2. LongSound(program, from, Extend(fl, n)) /\ Extend(fl, n).at = fl.at + n
    BY <1>1, <2>1, ExtendSound
  <2> QED BY <1>1, <1>5, <2>2, Zenon DEF LongMoves
<1>6. CASE ~ More(st, n) /\ program # "base" /\ Tokens(n) > ChunkTokens
  <2>1. LStep(program, st, n) = HardCut(fl, n)
    BY <1>6, Zenon DEF LStep, LongStep
  <2> HIDE DEF fl, More
  <2> QED BY <1>4, <1>6, <2>1, Zenon
<1>7. CASE ~ More(st, n) /\ program # "base" /\ ~ Tokens(n) > ChunkTokens
  <2>1. LStep(program, st, n) = Extend(fl, n)
    BY <1>7, Zenon DEF LStep, LongStep
  <2> HIDE DEF fl, More
  <2> QED BY <1>5, <1>7, <2>1, Zenon
<1>8. CASE ~ More(st, n) /\ program = "base" /\ st.part = <<>>
  <2>1. fl = st
    BY <1>8, Zenon DEF Flush
  <2>2. LStep(program, st, n) = HardCut(st, n)
    BY <1>8, Zenon DEF LStep, BaseLongStep
  <2>3. Tokens(n) > ChunkTokens
    <3>1. st.tokens = 0
      BY <1>1, <2>1
    <3> QED BY <1>2, <1>8, <3>1
  <2> HIDE DEF fl, More
  <2> QED BY <1>4, <1>8, <2>1, <2>2, <2>3, Zenon
<1>9. CASE ~ More(st, n) /\ program = "base" /\ st.part # <<>>
  <2>1. LStep(program, st, n) = Extend(fl, n)
    BY <1>9, Zenon DEF LStep, BaseLongStep
  <2> HIDE DEF fl, More
  <2> QED BY <1>5, <1>9, <2>1, Zenon
<1> HIDE DEF More
<1> QED
  BY <1>3, <1>6, <1>7, <1>8, <1>9, Zenon

\* The chunks of a long paragraph are sound.
LEMMA SplitLongSound ==
    ASSUME NEW program, NEW par \in Seq(Nat), NEW at \in Nat, NEW start \in Int,
           start <= at
    PROVE  \E e \in Nat : /\ e = at + ParLen(par) /\ at <= e
                          /\ Sound(program, SplitLong(program, par, at, start),
                                   at, e, at..(e - 1))
<1> DEFINE n == Len(par)
           V == {st \in LongRecord : LongSound(program, at, st)}
           init == LongStart(at, start)
<1>1. init \in V /\ init.at = at
  <2>1. init \in LongRecord
    <3>1. <<>> \in Seq(ChunkRecord) /\ <<>> \in Seq(RangeRecord)
      OBVIOUS
    <3> QED BY <3>1 DEF LongStart, LongRecord
  <2>2. /\ init.out = <<>> /\ init.part = <<>> /\ init.tokens = 0
        /\ init.start = start /\ init.at = at
    BY DEF LongStart
  <2>3. Sound(program, <<>>, at, at, at..(at - 1))
    <3>1. at..(at - 1) = {}
      OBVIOUS
    <3> QED BY <3>1, SoundNone
  <2>4. at <= at
    OBVIOUS
  <2> HIDE DEF init
  <2>5. LongEmpty(program, at, init.out, init.part, init.tokens, init.start, init.at)
    BY <2>2, <2>3, <2>4, Zenon DEF LongEmpty
  <2> QED BY <2>1, <2>2, <2>5, Zenon DEF LongSound
<1>2. ASSUME NEW w \in V, NEW k \in 1..n
      PROVE  /\ LStep(program, w, par[k]) \in V
             /\ LStep(program, w, par[k]).at = w.at + par[k]
  <2>1. PICK x \in Nat : x = par[k]
    OBVIOUS
  <2>2. at \in Int /\ LongSound(program, at, w)
    OBVIOUS
  <2>3. /\ LongSound(program, at, LStep(program, w, x))
        /\ LStep(program, w, x).at = w.at + x
    <3> HIDE DEF V, n, init
    <3>1. LongMoves(program, at, w, x)
      BY <2>2, LongStepSound
    <3> QED BY <3>1, Zenon DEF LongMoves
  <2> QED BY <2>1, <2>3, Zenon DEF LongSound
<1> HIDE DEF V
<1>3. PICK v \in [0..n -> V] :
              /\ v[0] = init
              /\ \A k \in 1..n : v[k] = LStep(program, v[k - 1], par[k])
              /\ SplitLong(program, par, at, start) = Flush(v[n]).out
  <2>1. LongStart(at, start) \in V
    BY <1>1
  <2> HIDE DEF init
  <2>2. LongKeeps(program, par, V)
    BY <1>2 DEF LongKeeps
  <2>3. \E v \in [0..Len(par) -> V] : LongSteps(program, par, at, start, v)
    BY <2>1, <2>2, LongTrace
  <2> QED BY <2>3 DEF init, LongSteps
<1>4. PICK u \in [0..n -> Nat] :
              /\ u[0] = 0
              /\ \A k \in 1..n : u[k] = u[k - 1] + par[k]
              /\ ParLen(par) = u[n]
  BY SumTrace DEF ParLen
<1>5. n \in Nat
  OBVIOUS
<1> HIDE DEF n, init
<1> DEFINE P == {k \in 0..n : v[k].at = at + u[k]}
<1>6. n \in P
  <2>1. 0 \in P
    BY <1>1, <1>3, <1>4, <1>5
  <2>2. \A k \in 1..n : k - 1 \in P => k \in P
    <3> TAKE k \in 1..n
    <3> HAVE k - 1 \in P
    <3>1. k \in 0..n /\ k - 1 \in 0..n
      BY <1>5
    <3>2. v[k] = LStep(program, v[k - 1], par[k]) /\ v[k - 1] \in V
      BY <1>3, <3>1
    <3>3. v[k].at = v[k - 1].at + par[k]
      BY <1>2, <3>2
    <3>4. v[k - 1].at = at + u[k - 1] /\ u[k] = u[k - 1] + par[k]
      BY <1>4
    <3>5. u[k - 1] \in Nat /\ par[k] \in Nat
      <4>1. par[k] \in Nat
        BY DEF n
      <4> QED BY <3>1, <4>1
    <3>6. v[k].at = at + u[k]
      BY <3>3, <3>4, <3>5
    <3> QED BY <3>1, <3>6
  <2> HIDE DEF P
  <2>3. 0..n \subseteq P
    BY <1>5, <2>1, <2>2, UpTo
  <2> QED BY <1>5, <2>3
<1> DEFINE fl == Flush(v[n])
<1>7. LongSound(program, at, fl) /\ fl.part = <<>> /\ fl.at = v[n].at
  <2>1. v[n] \in V
    BY <1>3, <1>5
  <2>2. LongSound(program, at, v[n]) /\ at \in Int
    BY <2>1 DEF V
  <2> QED BY <2>2, FlushSound
<1>8. fl.at = at + ParLen(par) /\ fl.at \in Nat
  BY <1>4, <1>6, <1>7 DEF LongSound, LongRecord
<1>9. /\ at <= fl.at
      /\ Sound(program, fl.out, at, fl.at, at..(fl.at - 1))
  <2> HIDE DEF fl
  <2> QED BY <1>7, EmptySound
<1> QED
  BY <1>3, <1>8, <1>9, Zenon

-----------------------------------------------------------------------------
(* The places of the paragraphs of a section.                              *)

\* A sum of lengths is a length.
LEMMA SumNat ==
    ASSUME NEW s \in Seq(Nat)
    PROVE  Sum(s) \in Nat
<1>1. PICK v \in [0..Len(s) -> Nat] :
              /\ v[0] = 0
              /\ \A k \in 1..Len(s) : v[k] = v[k - 1] + s[k]
              /\ Sum(s) = v[Len(s)]
  BY SumTrace
<1>2. Len(s) \in 0..Len(s)
  OBVIOUS
<1> QED
  BY <1>1, <1>2

\* v is the sequence of the sums of the first elements of s.
SumsTo(s, v) ==
    /\ v \in [0..Len(s) -> Nat] /\ v[0] = 0
    /\ \A k \in 1..Len(s) : v[k] = v[k - 1] + s[k]

\* The sum of the first elements is that of the sequence so far.
LEMMA PrefixSum ==
    ASSUME NEW s \in Seq(Nat), NEW v, SumsTo(s, v), NEW m \in 0..Len(s)
    PROVE  Sum([j \in 1..m |-> s[j]]) = v[m]
<1> DEFINE t == [j \in 1..m |-> s[j]]
<1>1. m \in Nat /\ m <= Len(s) /\ Len(s) \in Nat
  OBVIOUS
<1>2. t \in Seq(Nat) /\ Len(t) = m /\ \A k \in 1..m : t[k] = s[k]
  <2>1. \A j \in 1..m : s[j] \in Nat
    BY <1>1
  <2> QED BY <1>1, <2>1
<1>3. PICK u \in [0..m -> Nat] :
              /\ u[0] = 0
              /\ \A k \in 1..m : u[k] = u[k - 1] + t[k]
              /\ Sum(t) = u[m]
  <2> HIDE DEF t
  <2>1. \E u \in [0..Len(t) -> Nat] :
              /\ u[0] = 0
              /\ \A k \in 1..Len(t) : u[k] = u[k - 1] + t[k]
              /\ Sum(t) = u[Len(t)]
    BY <1>2, SumTrace
  <2> QED BY <1>2, <2>1
<1> HIDE DEF t
<1> DEFINE P == {k \in 0..m : u[k] = v[k]}
<1>4. 0 \in P
  BY <1>1, <1>3 DEF SumsTo
<1>5. \A k \in 1..m : k - 1 \in P => k \in P
  <2> TAKE k \in 1..m
  <2> HAVE k - 1 \in P
  <2>1. k \in 0..m /\ k \in 1..Len(s)
    BY <1>1
  <2>2. u[k] = u[k - 1] + s[k] /\ v[k] = v[k - 1] + s[k] /\ u[k - 1] = v[k - 1]
    BY <1>2, <1>3, <2>1 DEF SumsTo
  <2> QED BY <2>1, <2>2
<1> HIDE DEF P
<1>6. m \in P
  <2>1. 0..m \subseteq P
    BY <1>1, <1>4, <1>5, UpTo
  <2> QED BY <1>1, <2>1
<1>7. Sum(t) = v[m]
  BY <1>3, <1>6 DEF P
<1> QED
  BY <1>7 DEF t

\* Paragraph k of a section at `at` is at a[k] and ends at e[k].
Ends(sec, at, a, e) ==
    /\ a \in [1..Len(sec) -> Nat] /\ e \in [0..Len(sec) -> Nat]
    /\ e[0] = at /\ a[1] = at /\ e[Len(sec)] = at + SecLen(sec)
    /\ \A k \in 1..Len(sec) :
          /\ a[k] = at + ParAt(sec, k) /\ at + ParLine(k) <= a[k]
          /\ ParLen(sec[k]) \in Nat /\ e[k] = a[k] + ParLen(sec[k])
          /\ e[k - 1] <= a[k]

\* The places of the paragraphs of a section.
LEMMA EndsExist ==
    ASSUME NEW sec \in Seq(Seq(Nat)), sec # <<>>, NEW at \in Nat
    PROVE  \E a, e : Ends(sec, at, a, e)
<1> DEFINE n == Len(sec)
           s == [k \in 1..n |-> ParLen(sec[k])]
<1>1. n \in Nat /\ n >= 1 /\ DOMAIN sec = 1..n
  <2>1. Len(sec) # 0
    BY EmptySeq
  <2> QED BY <2>1
<1>2. \A k \in 1..n : ParLen(sec[k]) \in Nat
  <2> TAKE k \in 1..n
  <2>1. sec[k] \in Seq(Nat)
    OBVIOUS
  <2> QED BY <2>1, SumNat DEF ParLen
<1>3. s \in Seq(Nat) /\ Len(s) = n /\ \A k \in 1..n : s[k] = ParLen(sec[k])
  BY <1>1, <1>2
<1>4. SecLen(sec) = Sum(s) + 2 * (n - 1)
  BY <1>1 DEF SecLen
<1>5. \A k \in 1..n : ParAt(sec, k) = Sum([j \in 1..(k - 1) |-> s[j]]) + 2 * (k - 1)
  <2> TAKE k \in 1..n
  <2>1. [j \in 1..(k - 1) |-> s[j]] = [j \in 1..(k - 1) |-> ParLen(sec[j])]
    <3>1. \A j \in 1..(k - 1) : s[j] = ParLen(sec[j])
      BY <1>1
    <3> HIDE DEF s
    <3> QED BY <3>1
  <2> HIDE DEF s
  <2> QED BY <2>1 DEF ParAt
<1> HIDE DEF s, n
<1>6. PICK v : SumsTo(s, v) /\ Sum(s) = v[n]
  <2>1. \E v \in [0..Len(s) -> Nat] :
              /\ v[0] = 0
              /\ \A k \in 1..Len(s) : v[k] = v[k - 1] + s[k]
              /\ Sum(s) = v[Len(s)]
    BY <1>3, SumTrace
  <2> QED BY <1>3, <2>1 DEF SumsTo
<1>7. /\ v \in [0..n -> Nat] /\ v[0] = 0
      /\ \A k \in 1..n : v[k] = v[k - 1] + ParLen(sec[k])
  BY <1>3, <1>6 DEF SumsTo
<1>8. \A k \in 1..n : ParAt(sec, k) = v[k - 1] + 2 * (k - 1)
  <2> TAKE k \in 1..n
  <2> DEFINE m == k - 1
  <2>1. m \in 0..Len(s)
    BY <1>1, <1>3
  <2> HIDE DEF m
  <2>2. Sum([j \in 1..m |-> s[j]]) = v[m]
    BY <1>3, <1>6, <2>1, PrefixSum
  <2> QED BY <1>5, <2>2, Zenon DEF m
<1> DEFINE a == [k \in 1..n |-> at + v[k - 1] + 2 * (k - 1)]
           e == [k \in 0..n |-> IF k = 0 THEN at ELSE at + v[k] + 2 * (k - 1)]
<1>9. a \in [1..n -> Nat]
  <2>1. ASSUME NEW k \in 1..n PROVE at + v[k - 1] + 2 * (k - 1) \in Nat
    <3>1. v[k - 1] \in Nat /\ k - 1 \in Nat
      BY <1>1, <1>7
    <3> QED BY <3>1
  <2> QED BY <2>1
<1>10. e \in [0..n -> Nat]
  <2>1. ASSUME NEW k \in 0..n
        PROVE  (IF k = 0 THEN at ELSE at + v[k] + 2 * (k - 1)) \in Nat
    <3>1. v[k] \in Nat
      BY <1>7
    <3> QED BY <1>1, <3>1
  <2> QED BY <2>1
<1>11. e[0] = at /\ a[1] = at
  <2>1. 1 \in 1..n /\ 0 \in 0..n /\ 1 - 1 = 0
    BY <1>1
  <2> QED BY <1>7, <2>1
<1>12. e[n] = at + SecLen(sec)
  <2>1. n \in 0..n /\ n # 0
    BY <1>1
  <2>2. e[n] = at + v[n] + 2 * (n - 1)
    BY <2>1
  <2>3. v[n] \in Nat
    BY <1>7, <2>1
  <2> HIDE DEF e
  <2> QED BY <1>1, <1>4, <1>6, <2>2, <2>3
<1>13. ASSUME NEW k \in 1..n
       PROVE  /\ a[k] = at + ParAt(sec, k) /\ at + ParLine(k) <= a[k]
              /\ e[k] = a[k] + ParLen(sec[k])
              /\ e[k - 1] <= a[k]
  <2>1. PICK x \in Nat : x = v[k - 1]
    BY <1>1, <1>7
  <2>2. PICK y \in Nat : y = ParLen(sec[k])
    BY <1>2 DEF n
  <2>3. k \in 0..n /\ k - 1 \in 0..n /\ k # 0
    BY <1>1
  <2>4. a[k] = at + x + 2 * (k - 1)
    BY <2>1
  <2>5. e[k] = at + (x + y) + 2 * (k - 1)
    BY <1>7, <2>1, <2>2, <2>3
  <2>6. e[k - 1] = IF k = 1 THEN at ELSE at + x + 2 * ((k - 1) - 1)
    BY <1>1, <2>1, <2>3
  <2> HIDE DEF a, e
  <2>7. ParAt(sec, k) = x + 2 * (k - 1)
    BY <1>8, <2>1
  <2>8. a[k] = at + ParAt(sec, k)
    BY <1>1, <2>4, <2>7
  <2>9. at + ParLine(k) <= a[k]
    BY <1>1, <2>4 DEF ParLine
  <2>10. e[k] = a[k] + y
    BY <1>1, <2>4, <2>5
  <2>11. e[k - 1] <= a[k]
    BY <1>1, <2>4, <2>6
  <2> QED BY <2>2, <2>8, <2>9, <2>10, <2>11
<1> HIDE DEF a, e
<1>14. Ends(sec, at, a, e)
  BY <1>2, <1>9, <1>10, <1>11, <1>12, <1>13 DEF Ends, n
<1> QED
  BY <1>14

\* Paragraphs end in their order.
LEMMA EndsGrow ==
    ASSUME NEW sec \in Seq(Seq(Nat)), NEW at \in Nat, NEW a, NEW e,
           Ends(sec, at, a, e), NEW j \in 0..Len(sec), NEW k \in j..Len(sec)
    PROVE  e[j] <= e[k]
<1> DEFINE n == Len(sec)
           P == {m \in 0..(n - j) : e[j] <= e[j + m]}
<1>1. n \in Nat /\ j \in Nat /\ j <= n /\ n - j \in Nat /\ j + 0 = j
  OBVIOUS
<1>2. e \in [0..n -> Nat] /\ \A m \in 1..n : e[m - 1] <= e[m]
  <2>1. e \in [0..n -> Nat] /\ a \in [1..n -> Nat]
    BY DEF Ends
  <2>2. ASSUME NEW m \in 1..n PROVE e[m - 1] <= e[m]
    <3>1. e[m - 1] <= a[m] /\ e[m] = a[m] + ParLen(sec[m]) /\ ParLen(sec[m]) \in Nat
      BY DEF Ends
    <3>2. m - 1 \in 0..n
      BY <1>1
    <3>3. e[m - 1] \in Nat /\ a[m] \in Nat
      BY <2>1, <3>2
    <3>4. \A x, y, z \in Nat : x <= y => x <= y + z
      OBVIOUS
    <3> QED BY <3>1, <3>3, <3>4
  <2> QED BY <2>1, <2>2
<1> HIDE DEF n
<1>3. 0 \in P
  BY <1>1, <1>2
<1>4. \A m \in 1..(n - j) : m - 1 \in P => m \in P
  <2> TAKE m \in 1..(n - j)
  <2> HAVE m - 1 \in P
  <2>1. j + m \in 1..n /\ (j + m) - 1 = j + (m - 1) /\ m \in 0..(n - j)
        /\ j + m \in 0..n /\ j + (m - 1) \in 0..n
    BY <1>1
  <2>2. e[j] <= e[j + (m - 1)]
    OBVIOUS
  <2>3. e[(j + m) - 1] <= e[j + m]
    BY <1>2, <2>1
  <2>4. e[j] \in Nat /\ e[j + (m - 1)] \in Nat /\ e[j + m] \in Nat
    BY <1>1, <1>2, <2>1
  <2>5. e[j] <= e[j + m]
    <3>1. \A x, y, z \in Nat : x <= y /\ y <= z => x <= z
      OBVIOUS
    <3> QED BY <2>1, <2>2, <2>3, <2>4, <3>1, Zenon
  <2> QED BY <2>1, <2>5
<1> HIDE DEF P
<1>5. 0..(n - j) \subseteq P
  BY <1>1, <1>3, <1>4, UpTo
<1>6. k - j \in 0..(n - j) /\ j + (k - j) = k
  BY <1>1 DEF n
<1>7. k - j \in P
  BY <1>5, <1>6
<1> QED
  BY <1>6, <1>7 DEF P

\* A paragraph is behind those before it.
LEMMA EndsOrder ==
    ASSUME NEW sec \in Seq(Seq(Nat)), NEW at \in Nat, NEW a, NEW e,
           Ends(sec, at, a, e), NEW j \in 0..Len(sec), NEW k \in (j + 1)..Len(sec)
    PROVE  /\ e[j] \in Nat /\ a[k] \in Nat /\ e[k] \in Nat
           /\ e[j] <= a[k] /\ a[k] <= e[k]
<1>1. /\ Len(sec) \in Nat /\ k \in 1..Len(sec) /\ k \in 0..Len(sec)
      /\ k - 1 \in j..Len(sec) /\ k - 1 \in 0..Len(sec)
  OBVIOUS
<1>2. a \in [1..Len(sec) -> Nat] /\ e \in [0..Len(sec) -> Nat]
  BY DEF Ends
<1>3. e[j] \in Nat /\ a[k] \in Nat /\ e[k] \in Nat /\ e[k - 1] \in Nat
  BY <1>1, <1>2
<1>4. /\ e[k - 1] <= a[k] /\ e[k] = a[k] + ParLen(sec[k]) /\ ParLen(sec[k]) \in Nat
  BY <1>1 DEF Ends
<1>5. e[j] <= e[k - 1]
  BY <1>1, EndsGrow
<1>6. \A x, y, z \in Nat : x <= y /\ y <= z => x <= z
  OBVIOUS
<1>7. \A x, z \in Nat : x <= x + z
  OBVIOUS
<1>8. a[k] <= e[k]
  BY <1>3, <1>4, <1>7, Zenon
<1> QED
  BY <1>3, <1>4, <1>5, <1>6, <1>8, Zenon

PlaceRecord == [par : Seq(Nat), len : Nat, at : Nat, start : Nat]

\* The paragraphs as _split_by_paragraphs hands them on.
Placed(sec, a, e, ps) ==
    /\ ps \in Seq(PlaceRecord) /\ Len(ps) = Len(sec)
    /\ \A k \in 1..Len(sec) :
          /\ ps[k].par = sec[k] /\ ps[k].len = ParLen(sec[k])
          /\ ps[k].at = a[k] /\ ps[k].start <= a[k]

\* The paragraphs are handed on with their places.
LEMMA ParagraphsPlaced ==
    ASSUME NEW sec \in Seq(Seq(Nat)), NEW at \in Nat, NEW a, NEW e,
           Ends(sec, at, a, e)
    PROVE  Placed(sec, a, e, Paragraphs(sec, at))
<1> DEFINE n == Len(sec)
           P(k) == [par |-> sec[k], len |-> ParLen(sec[k]),
                    at |-> at + ParAt(sec, k), start |-> at + ParLine(k)]
           ps == [k \in 1..n |-> P(k)]
<1>1. n \in Nat /\ Paragraphs(sec, at) = ps
  BY DEF Paragraphs
<1>2. ASSUME NEW k \in 1..n
      PROVE  /\ P(k) \in PlaceRecord
             /\ P(k).par = sec[k] /\ P(k).len = ParLen(sec[k])
             /\ P(k).at = a[k] /\ P(k).start <= a[k]
  <2>1. /\ a[k] \in Nat /\ ParLen(sec[k]) \in Nat
        /\ a[k] = at + ParAt(sec, k) /\ at + ParLine(k) <= a[k]
    BY DEF Ends
  <2>2. at + ParLine(k) \in Nat
    BY DEF ParLine
  <2>3. sec[k] \in Seq(Nat)
    OBVIOUS
  <2> QED BY <2>1, <2>2, <2>3 DEF PlaceRecord
<1> HIDE DEF P
<1>3. ps \in Seq(PlaceRecord) /\ Len(ps) = n /\ \A k \in 1..n : ps[k] = P(k)
  BY <1>1, <1>2
<1> HIDE DEF ps, n
<1>4. Placed(sec, a, e, ps)
  BY <1>2, <1>3 DEF Placed, n
<1> QED
  BY <1>1, <1>4

-----------------------------------------------------------------------------
(* Groups of paragraphs.                                                   *)

\* g are the paragraphs from j + 1 to k.
Stretch(ps, j, k, g) ==
    /\ g \in Seq(PlaceRecord) /\ Len(g) = k - j
    /\ \A i \in 1..(k - j) : g[i] = ps[j + i]

GroupText(g) == [i \in DOMAIN g |-> Span(g[i].at, g[i].len)]

\* The characters of the paragraphs from j + 1 to k.
Inside(a, e, j, k) == UNION {a[i]..(e[i] - 1) : i \in (j + 1)..k}

InsideJoins(a, e, i, j, k) ==
    Inside(a, e, i, j) \cup Inside(a, e, j, k) = Inside(a, e, i, k)

\* The characters of adjoining stretches of paragraphs.
LEMMA InsideJoin ==
    ASSUME NEW a, NEW e, NEW i \in Int, NEW j \in Int, NEW k \in Int, i <= j, j <= k
    PROVE  InsideJoins(a, e, i, j, k)
<1>1. \A m : m \in (i + 1)..k <=> m \in (i + 1)..j \/ m \in (j + 1)..k
  OBVIOUS
<1> QED
  BY <1>1, Zenon DEF Inside, InsideJoins

\* The text of a stretch takes the characters of its paragraphs.
LEMMA StretchFollows ==
    ASSUME NEW sec \in Seq(Seq(Nat)), NEW at \in Nat, NEW a, NEW e, NEW ps,
           Ends(sec, at, a, e), Placed(sec, a, e, ps),
           NEW k \in 1..Len(sec), NEW j \in 0..(k - 1), NEW g, Stretch(ps, j, k, g)
    PROVE  Follows(GroupText(g), e[j], e[k], Inside(a, e, j, k))
<1> DEFINE n == Len(sec)
           m == k - j
           rs == GroupText(g)
<1>1. /\ n \in Nat /\ k \in Nat /\ j \in Nat /\ j + m = k /\ m \in Nat /\ k <= n
      /\ \A i \in 1..m : j + i \in (j + 1)..n /\ j + i \in 1..n
  OBVIOUS
<1>2. g \in Seq(PlaceRecord) /\ Len(g) = m /\ \A i \in 1..m : g[i] = ps[j + i]
  BY DEF Stretch
<1> HIDE DEF n, m
<1>3. ASSUME NEW i \in 1..m
      PROVE  /\ a[j + i] \in Nat /\ e[j + i] \in Nat
             /\ a[j + i] <= e[j + i]
             /\ Span(g[i].at, g[i].len) = [lo |-> a[j + i], hi |-> e[j + i]]
  <2>1. /\ g[i].at = a[j + i] /\ g[i].len = ParLen(sec[j + i])
        /\ e[j + i] = a[j + i] + ParLen(sec[j + i])
    BY <1>1, <1>2 DEF Placed, Ends, n
  <2>2. a[j + i] \in Nat /\ e[j + i] \in Nat /\ a[j + i] <= e[j + i]
    <3>1. j \in 0..Len(sec) /\ j + i \in (j + 1)..Len(sec)
      BY <1>1 DEF n
    <3> QED BY <3>1, EndsOrder
  <2> QED BY <2>1, <2>2, Zenon DEF Span
<1>4. rs = [i \in 1..m |-> [lo |-> a[j + i], hi |-> e[j + i]]]
  <2>1. DOMAIN g = 1..m
    BY <1>1, <1>2
  <2> QED BY <1>3, <2>1 DEF GroupText
<1> HIDE DEF rs
<1>5. /\ rs \in Seq(RangeRecord) /\ Len(rs) = m
      /\ \A i \in 1..m : rs[i].lo = a[j + i] /\ rs[i].hi = e[j + i]
  <2> DEFINE R(i) == [lo |-> a[j + i], hi |-> e[j + i]]
  <2>1. \A i \in 1..m : /\ R(i) \in RangeRecord
                        /\ R(i).lo = a[j + i] /\ R(i).hi = e[j + i]
    BY <1>3 DEF RangeRecord
  <2>2. rs = [i \in 1..m |-> R(i)]
    BY <1>4
  <2> HIDE DEF R
  <2>3. /\ rs \in Seq(RangeRecord) /\ Len(rs) = m
        /\ \A i \in 1..m : rs[i] = R(i)
    BY <1>1, <2>1, <2>2
  <2> QED BY <2>1, <2>3
<1>6. ASSUME NEW i \in 1..m
      PROVE  e[j] <= a[j + i] /\ a[j + i] <= e[j + i] /\ e[j + i] <= e[k]
  <2>1. e[j] <= a[j + i]
    <3>1. j \in 0..Len(sec) /\ j + i \in (j + 1)..Len(sec)
      BY <1>1 DEF n
    <3> QED BY <3>1, EndsOrder
  <2>2. e[j + i] <= e[k]
    <3>1. j + i \in 0..Len(sec) /\ k \in (j + i)..Len(sec)
      BY <1>1 DEF n
    <3> QED BY <3>1, EndsGrow
  <2> QED BY <1>3, <2>1, <2>2
<1>7. ASSUME NEW i \in 1..m, NEW l \in 1..m, i < l
      PROVE  e[j + i] <= a[j + l]
  <2>1. j + i \in 0..Len(sec) /\ j + l \in ((j + i) + 1)..Len(sec)
    BY <1>1, <1>7 DEF n
  <2> QED BY <2>1, EndsOrder
<1>8. ASSUME NEW x
      PROVE  x \in Inside(a, e, j, k) <=> \E i \in 1..m : x \in Chars(rs[i])
  <2>1. \A i \in 1..m : Chars(rs[i]) = a[j + i]..(e[j + i] - 1)
    BY <1>5 DEF Chars
  <2>2. \A i \in (j + 1)..k : i - j \in 1..m /\ j + (i - j) = i
    BY <1>1
  <2>3. \A i \in 1..m : j + i \in (j + 1)..k
    BY <1>1
  <2>4. ASSUME NEW i \in (j + 1)..k, x \in a[i]..(e[i] - 1)
        PROVE  \E l \in 1..m : x \in Chars(rs[l])
    <3>1. x \in Chars(rs[i - j])
      BY <2>1, <2>2, <2>4
    <3> QED BY <2>2, <3>1
  <2> QED BY <2>1, <2>3, <2>4, Zenon DEF Inside
<1>9. Follows(rs, e[j], e[k], Inside(a, e, j, k))
  <2>1. \A i \in 1..m : e[j] <= rs[i].lo /\ rs[i].lo <= rs[i].hi /\ rs[i].hi <= e[k]
    BY <1>5, <1>6, Zenon
  <2>2. \A i, l \in 1..m : i < l => rs[i].hi <= rs[l].lo
    BY <1>5, <1>7, Zenon
  <2> QED BY <1>5, <1>8, <2>1, <2>2, Zenon DEF Follows
<1> QED
  BY <1>9 DEF rs

\* The length of the text of a group.
GroupLen(g) == Sum([i \in DOMAIN g |-> g[i].len]) + 2 * (Len(g) - 1)

\* The text of the paragraphs from j + 1 to k, as one chunk.
GroupChunk(g, start, tokens) == Chunk(GroupText(g), start, tokens, Len(g))

\* The chunk of a group is as long as the group.
LEMMA GroupTextLen ==
    ASSUME NEW g \in Seq(PlaceRecord), NEW start, NEW tokens
    PROVE  TextLen(GroupChunk(g, start, tokens)) = GroupLen(g)
<1> DEFINE t == GroupText(g)
<1>1. Len(g) \in Nat /\ DOMAIN g = 1..Len(g)
  OBVIOUS
<1>2. DOMAIN t = 1..Len(g) /\ Len(t) = Len(g)
  BY <1>1 DEF GroupText
<1>3. ASSUME NEW i \in 1..Len(g)
      PROVE  t[i].hi - t[i].lo = g[i].len
  <2>1. g[i].at \in Nat /\ g[i].len \in Nat
    <3>1. g[i] \in PlaceRecord
      OBVIOUS
    <3> QED BY <3>1 DEF PlaceRecord
  <2>2. t[i].lo = g[i].at /\ t[i].hi = g[i].at + g[i].len
    BY <1>1 DEF GroupText, Span
  <2> HIDE DEF t
  <2>3. \A x, y \in Nat : (x + y) - x = y
    OBVIOUS
  <2>4. (g[i].at + g[i].len) - g[i].at = g[i].len
    BY <2>1, <2>3, Zenon
  <2> QED BY <2>2, <2>4, Zenon
<1>4. GroupChunk(g, start, tokens).text = t
  BY DEF GroupChunk, Chunk
<1> HIDE DEF t
<1>5. [i \in DOMAIN t |-> t[i].hi - t[i].lo] = [i \in DOMAIN g |-> g[i].len]
  BY <1>1, <1>2, <1>3
<1> QED
  BY <1>2, <1>4, <1>5, Zenon DEF TextLen, GroupLen

\* The sum of a sequence with one element more.
LEMMA SumAppend ==
    ASSUME NEW s \in Seq(Nat), NEW x \in Nat
    PROVE  Sum(Append(s, x)) = Sum(s) + x
<1> DEFINE t == Append(s, x)
           n == Len(s)
<1>1. /\ n \in Nat /\ t \in Seq(Nat) /\ Len(t) = n + 1 /\ t[n + 1] = x
      /\ \A k \in 1..n : t[k] = s[k]
  OBVIOUS
<1> HIDE DEF t
<1>2. PICK u \in [0..Len(t) -> Nat] :
              /\ u[0] = 0
              /\ \A k \in 1..Len(t) : u[k] = u[k - 1] + t[k]
              /\ Sum(t) = u[Len(t)]
  BY <1>1, SumTrace
<1>3. SumsTo(t, u)
  BY <1>2 DEF SumsTo
<1>4. n \in 0..Len(t) /\ n + 1 \in 1..Len(t) /\ (n + 1) - 1 = n
  BY <1>1
<1>5. Sum([j \in 1..n |-> t[j]]) = u[n]
  <2> HIDE DEF n
  <2> QED BY <1>1, <1>3, <1>4, PrefixSum
<1>6. [j \in 1..n |-> t[j]] = s
  BY <1>1
<1>7. Sum(t) = u[n] + x
  BY <1>1, <1>2, <1>4
<1> QED
  BY <1>5, <1>6, <1>7 DEF t

\* A group grows by a paragraph and its separator.
LEMMA GroupGrows ==
    ASSUME NEW g \in Seq(PlaceRecord), NEW p \in PlaceRecord
    PROVE  GroupLen(Append(g, p)) = GroupLen(g) + p.len + 2
<1> DEFINE h == Append(g, p)
           s == [i \in DOMAIN g |-> g[i].len]
           t == [i \in DOMAIN h |-> h[i].len]
<1>1. /\ h \in Seq(PlaceRecord) /\ Len(h) = Len(g) + 1 /\ h[Len(g) + 1] = p
      /\ \A i \in 1..Len(g) : h[i] = g[i]
      /\ DOMAIN g = 1..Len(g) /\ DOMAIN h = 1..(Len(g) + 1) /\ Len(g) \in Nat
  OBVIOUS
<1>2. p.len \in Nat /\ \A i \in 1..Len(g) : g[i].len \in Nat
  <2>1. \A q \in PlaceRecord : q.len \in Nat
    BY DEF PlaceRecord
  <2> QED BY <2>1
<1> HIDE DEF h
<1>3. s \in Seq(Nat) /\ Len(s) = Len(g) /\ \A i \in 1..Len(g) : s[i] = g[i].len
  BY <1>1, <1>2
<1>4. t = Append(s, p.len)
  <2>1. \A i \in 1..(Len(g) + 1) : h[i].len = IF i \in 1..Len(g) THEN g[i].len ELSE p.len
    BY <1>1
  <2>2. t = [i \in 1..(Len(g) + 1) |-> IF i \in 1..Len(g) THEN g[i].len ELSE p.len]
    BY <1>1, <2>1
  <2> HIDE DEF t, s
  <2>3. /\ t \in Seq(Nat) /\ Len(t) = Len(g) + 1
        /\ \A i \in 1..(Len(g) + 1) : t[i] = IF i \in 1..Len(g) THEN g[i].len ELSE p.len
    BY <1>1, <1>2, <2>2
  <2> DEFINE r == Append(s, p.len)
  <2>4. /\ r \in Seq(Nat) /\ Len(r) = Len(g) + 1 /\ r[Len(g) + 1] = p.len
        /\ \A i \in 1..Len(g) : r[i] = s[i]
    BY <1>2, <1>3
  <2> HIDE DEF r
  <2>5. \A i \in 1..Len(t) : t[i] = r[i]
    <3>1. \A i \in 1..(Len(g) + 1) : i \in 1..Len(g) \/ i = Len(g) + 1
      BY <1>1
    <3> QED BY <1>3, <2>3, <2>4, <3>1
  <2>6. t = r
    BY <2>3, <2>4, <2>5, SeqEqual
  <2> QED BY <2>6 DEF r
<1> HIDE DEF s, t
<1>5. Sum(t) = Sum(s) + p.len /\ Sum(s) \in Nat
  BY <1>2, <1>3, <1>4, SumAppend, SumNat
<1>6. GroupLen(h) = Sum(t) + 2 * (Len(h) - 1) /\ GroupLen(g) = Sum(s) + 2 * (Len(g) - 1)
  BY DEF GroupLen, s, t
<1>7. GroupLen(h) = GroupLen(g) + p.len + 2
  <2>1. PICK x \in Nat : x = Sum(s)
    BY <1>5
  <2>2. PICK y \in Nat : y = p.len
    BY <1>2
  <2> QED BY <1>1, <1>5, <1>6, <2>1, <2>2
<1> QED
  BY <1>7 DEF h

\* The length of a group, and that of no paragraph.
LEMMA GroupLenInt ==
    ASSUME NEW g \in Seq(PlaceRecord)
    PROVE  GroupLen(g) \in Int /\ (Len(g) > 0 => GroupLen(g) \in Nat)
<1>1. DOMAIN g = 1..Len(g) /\ Len(g) \in Nat
  OBVIOUS
<1>2. \A i \in 1..Len(g) : g[i].len \in Nat
  <2>1. \A q \in PlaceRecord : q.len \in Nat
    BY DEF PlaceRecord
  <2> QED BY <2>1
<1>3. [i \in DOMAIN g |-> g[i].len] \in Seq(Nat)
  BY <1>1, <1>2
<1>4. Sum([i \in DOMAIN g |-> g[i].len]) \in Nat
  BY <1>3, SumNat
<1> QED
  BY <1>1, <1>4 DEF GroupLen

LEMMA GroupLenNone == GroupLen(<<>>) = -2
<1>1. <<>> \in Seq(Nat) /\ Len(<<>>) = 0 /\ [i \in DOMAIN <<>> |-> <<>>[i].len] = <<>>
  OBVIOUS
<1>2. PICK v \in [0..0 -> Nat] : v[0] = 0 /\ Sum(<<>>) = v[0]
  <2> DEFINE s == <<>>
  <2>1. s \in Seq(Nat) /\ Len(s) = 0
    OBVIOUS
  <2> HIDE DEF s
  <2>2. \E v \in [0..0 -> Nat] : v[0] = 0 /\ Sum(s) = v[0]
    BY <2>1, SumTrace
  <2> QED BY <2>2 DEF s
<1> QED
  BY <1>1, <1>2 DEF GroupLen

\* The characters of one paragraph, and of none.
LEMMA InsideOne ==
    ASSUME NEW a, NEW e, NEW k \in Int
    PROVE  Inside(a, e, k - 1, k) = a[k]..(e[k] - 1) /\ Inside(a, e, k, k) = {}
<1>1. ((k - 1) + 1)..k = {k} /\ (k + 1)..k = {}
  OBVIOUS
<1> QED
  BY <1>1, Zenon DEF Inside

\* A sound list also lies between wider bounds.
LEMMA SoundWithin ==
    ASSUME NEW program, NEW cs, NEW m \in Int, NEW e \in Int, NEW f \in Int, NEW S,
           NEW h \in Int, Sound(program, cs, m, e, S), f <= m, e <= h
    PROVE  Sound(program, cs, f, h, S)
<1>1. Follows(Concat(Texts(cs)), m, e, S)
  BY DEF Sound
<1>2. Follows(Concat(Texts(cs)), f, h, S)
  BY <1>1, FollowsWithin
<1> QED
  BY <1>2, Zenon DEF Sound

\* A group that keeps the limit is a sound chunk.
LEMMA GroupSound ==
    ASSUME NEW program, NEW sec \in Seq(Seq(Nat)), NEW at \in Nat, NEW a, NEW e, NEW ps,
           Ends(sec, at, a, e), Placed(sec, a, e, ps),
           NEW k \in 1..Len(sec), NEW j \in 0..(k - 1), NEW g, Stretch(ps, j, k, g),
           NEW start \in Int, start <= a[j + 1], NEW tokens \in Nat,
           GroupLen(g) <= 4 * ChunkTokens + 5 * Len(g)
    PROVE  Sound(program, <<GroupChunk(g, start, tokens)>>, e[j], e[k], Inside(a, e, j, k))
<1> DEFINE c == GroupChunk(g, start, tokens)
           t == GroupText(g)
<1>1. Follows(t, e[j], e[k], Inside(a, e, j, k))
  BY StretchFollows
<1>2. t \in Seq(RangeRecord)
  BY <1>1 DEF Follows
<1>3. /\ g \in Seq(PlaceRecord) /\ Len(g) = k - j /\ Len(g) \in Nat
      /\ DOMAIN g = 1..Len(g) /\ 1 \in DOMAIN g /\ g[1] = ps[j + 1]
  BY DEF Stretch
<1>4. t # <<>> /\ t[1].lo = a[j + 1]
  <2>1. g[1].at = a[j + 1]
    BY <1>3 DEF Placed
  <2>2. t[1].lo = g[1].at
    BY <1>3 DEF GroupText, Span
  <2>3. 1 \in DOMAIN t
    BY <1>3 DEF GroupText
  <2> HIDE DEF t
  <2> QED BY <2>1, <2>2, <2>3
<1>5. /\ c.text = t /\ c.start = start /\ c.pieces = Len(g) /\ TextLen(c) = GroupLen(g)
      /\ c \in ChunkRecord
  <2>1. TextLen(c) = GroupLen(g)
    BY <1>3, GroupTextLen
  <2> HIDE DEF t
  <2>2. c = [text |-> t, start |-> start, tokens |-> tokens, pieces |-> Len(g)]
    BY Zenon DEF GroupChunk, Chunk, t
  <2> QED BY <1>2, <1>3, <2>1, <2>2 DEF ChunkRecord
<1> HIDE DEF c, t
<1>6. StartsBefore(c) /\ InLimit(c) /\ Follows(c.text, e[j], e[k], Inside(a, e, j, k))
  <2>1. GroupLen(g) \in Nat
    BY <1>3, GroupLenInt
  <2> QED BY <1>1, <1>4, <1>5, <2>1, Zenon DEF StartsBefore, InLimit
<1>7. e[j] \in Int /\ e[k] \in Int
  <2>1. e \in [0..Len(sec) -> Nat]
    BY Zenon DEF Ends
  <2>2. j \in 0..Len(sec) /\ k \in 0..Len(sec)
    OBVIOUS
  <2>3. e[j] \in Nat /\ e[k] \in Nat
    BY <2>1, <2>2
  <2> QED BY <2>3
<1>8. Sound(program, <<c>>, e[j], e[k], Inside(a, e, j, k))
  BY <1>5, <1>6, <1>7, SoundOne
<1> QED
  BY <1>8 DEF c

ParRecord == [out : Seq(ChunkRecord), group : Seq(PlaceRecord), tokens : Nat]

\* After k paragraphs: the chunks end at paragraph j, the group are the others.
ParBehind(program, at, a, e, ps, k, j, out, group) ==
    /\ Stretch(ps, j, k, group)
    /\ Sound(program, out, at, e[j], Inside(a, e, 0, j))

ParSound(program, at, a, e, ps, k, st) ==
    /\ st \in ParRecord /\ st.tokens <= ChunkTokens
    /\ GroupLen(st.group) <= 4 * st.tokens + 5 * Len(st.group) - 2
    /\ \E j \in 0..k : ParBehind(program, at, a, e, ps, k, j, st.out, st.group)

\* A flush of the group keeps the chunks sound.
LEMMA FlushGroupSound ==
    ASSUME NEW program, NEW sec \in Seq(Seq(Nat)), NEW at \in Nat, NEW a, NEW e, NEW ps,
           Ends(sec, at, a, e), Placed(sec, a, e, ps), NEW k \in 0..Len(sec),
           NEW st, ParSound(program, at, a, e, ps, k, st)
    PROVE  /\ FlushGroup(st) \in ParRecord /\ FlushGroup(st).group = <<>>
           /\ Sound(program, FlushGroup(st).out, at, e[k], Inside(a, e, 0, k))
<1> DEFINE f == FlushGroup(st)
           g == st.group
<1>1. /\ st \in ParRecord /\ st.tokens <= ChunkTokens
      /\ GroupLen(g) <= 4 * st.tokens + 5 * Len(g) - 2
  BY DEF ParSound
<1>2. PICK j \in 0..k : ParBehind(program, at, a, e, ps, k, j, st.out, g)
  BY DEF ParSound
<1>3. Stretch(ps, j, k, g) /\ Sound(program, st.out, at, e[j], Inside(a, e, 0, j))
  BY <1>2 DEF ParBehind
<1>4. /\ st.out \in Seq(ChunkRecord) /\ g \in Seq(PlaceRecord) /\ st.tokens \in Nat
      /\ ChunkTokens \in Nat /\ Len(g) = k - j /\ Len(g) \in Nat
  BY <1>1, <1>3, ChunkingAssumption DEF ParRecord, Stretch
<1>5. CASE g = <<>>
  <2>1. j = k
    <3>1. Len(g) = 0
      BY <1>5
    <3> QED BY <1>4, <3>1
  <2>2. f = st
    BY <1>5 DEF FlushGroup
  <2> QED BY <1>1, <1>3, <1>5, <2>1, <2>2
<1>6. CASE g # <<>>
  <2>1. Len(g) # 0
    BY <1>4, <1>6, EmptySeq
  <2>2. k \in 1..Len(sec) /\ j \in 0..(k - 1) /\ j + 1 \in 1..Len(sec)
        /\ 1 \in 1..(k - j)
    BY <1>4, <2>1
  <2> DEFINE start == g[1].start
             tokens == Sum([i \in DOMAIN g |-> Tokens(g[i].len)])
             c == GroupChunk(g, start, tokens)
  <2>3. start \in Nat /\ start <= a[j + 1]
    <3>1. g[1] = ps[j + 1] /\ 1 \in 1..Len(g)
      BY <1>3, <1>4, <2>2 DEF Stretch
    <3>2. g[1] \in PlaceRecord
      BY <1>4, <3>1, ElementOf
    <3>3. ps[j + 1].start <= a[j + 1]
      BY <2>2 DEF Placed
    <3> QED BY <3>1, <3>2, <3>3 DEF PlaceRecord
  <2>4. tokens \in Nat
    <3>1. ASSUME NEW i \in 1..Len(g) PROVE Tokens(g[i].len) \in Nat
      <4>1. g[i] \in PlaceRecord
        BY <1>4
      <4>2. g[i].len \in Nat
        BY <4>1 DEF PlaceRecord
      <4> QED BY <4>2, TokensBound
    <3>2. [i \in DOMAIN g |-> Tokens(g[i].len)] \in Seq(Nat)
      <4>1. DOMAIN g = 1..Len(g)
        BY <1>4
      <4> HIDE DEF g
      <4> QED BY <1>4, <3>1, <4>1
    <3> QED BY <3>2, SumNat
  <2>5. f = [out |-> Append(st.out, c), group |-> <<>>, tokens |-> 0]
    BY <1>6, Zenon DEF FlushGroup, Group, GroupChunk, GroupText
  <2> HIDE DEF tokens, start
  <2>6. GroupLen(g) <= 4 * ChunkTokens + 5 * Len(g)
    <3>1. \A x, y, q \in Nat, l \in Int :
             l <= 4 * x + 5 * q - 2 /\ x <= y => l <= 4 * y + 5 * q
      OBVIOUS
    <3>2. GroupLen(g) \in Int
      BY <1>4, GroupLenInt
    <3> QED BY <1>1, <1>4, <3>1, <3>2
  <2>7. Sound(program, <<c>>, e[j], e[k], Inside(a, e, j, k))
    <3>1. start \in Int
      BY <2>3
    <3> HIDE DEF g
    <3> QED BY <1>3, <2>2, <2>3, <2>4, <2>6, <3>1, GroupSound
  <2> HIDE DEF c
  <2>8. Sound(program, st.out \o <<c>>, at, e[k], Inside(a, e, 0, k))
    <3>1. /\ e[j] \in Int /\ e[k] \in Int /\ at \in Int /\ at <= e[j] /\ e[j] <= e[k]
      <4>1. e \in [0..Len(sec) -> Nat] /\ e[0] = at
        BY DEF Ends
      <4>2. j \in 0..Len(sec) /\ k \in j..Len(sec) /\ 0 \in 0..Len(sec)
            /\ j \in 0..Len(sec)
        BY <2>2
      <4>3. e[j] \in Nat /\ e[k] \in Nat
        BY <4>1, <4>2, <2>2
      <4>4. e[0] <= e[j]
        BY <4>2, EndsGrow
      <4>5. e[j] <= e[k]
        BY <4>2, EndsGrow
      <4> QED BY <4>1, <4>3, <4>4, <4>5
    <3>2. Sound(program, st.out \o <<c>>, at, e[k],
                Inside(a, e, 0, j) \cup Inside(a, e, j, k))
      BY <1>3, <2>7, <3>1, SoundJoin
    <3>3. Inside(a, e, 0, j) \cup Inside(a, e, j, k) = Inside(a, e, 0, k)
      <4>1. 0 \in Int /\ j \in Int /\ k \in Int /\ 0 <= j /\ j <= k
        OBVIOUS
      <4>2. InsideJoins(a, e, 0, j, k)
        BY <4>1, InsideJoin
      <4> QED BY <4>2 DEF InsideJoins
    <3> QED BY <3>2, <3>3
  <2>9. st.out \o <<c>> \in Seq(ChunkRecord) /\ c \in ChunkRecord
    <3>1. <<c>> \in Seq(ChunkRecord)
      BY <2>7 DEF Sound
    <3>2. c = <<c>>[1] /\ 1 \in 1..Len(<<c>>)
      OBVIOUS
    <3>3. \A q \in Seq(ChunkRecord) : \A i \in 1..Len(q) : q[i] \in ChunkRecord
      OBVIOUS
    <3>4. c \in ChunkRecord
      BY <3>1, <3>2, <3>3
    <3> QED BY <1>4, <3>1, <3>4
  <2>10. Append(st.out, c) = st.out \o <<c>>
    BY <1>4, <2>9, AppendIsConcat
  <2>11. f = [out |-> st.out \o <<c>>, group |-> <<>>, tokens |-> 0]
    BY <2>5, <2>10, Zenon
  <2> HIDE DEF f
  <2>12. f \in ParRecord /\ f.group = <<>> /\ f.out = st.out \o <<c>>
    <3>1. <<>> \in Seq(PlaceRecord) /\ 0 \in Nat
      OBVIOUS
    <3> QED BY <2>9, <2>11, <3>1 DEF ParRecord
  <2>13. /\ f \in ParRecord /\ f.group = <<>>
         /\ Sound(program, f.out, at, e[k], Inside(a, e, 0, k))
    BY <2>8, <2>12
  <2> QED BY <2>13 DEF f
<1> QED
  BY <1>5, <1>6

\* A step over a paragraph keeps the chunks sound, in either program.
LEMMA ParStepSound ==
    ASSUME NEW program, NEW sec \in Seq(Seq(Nat)), NEW at \in Nat, NEW a, NEW e, NEW ps,
           Ends(sec, at, a, e), Placed(sec, a, e, ps), NEW k \in 1..Len(sec),
           NEW st, ParSound(program, at, a, e, ps, k - 1, st)
    PROVE  ParSound(program, at, a, e, ps, k, ParStep(program, st, ps[k]))
<1> DEFINE p == ps[k]
           g == st.group
           fl == FlushGroup(st)
           T == Tokens(p.len)
           next == ParStep(program, st, p)
<1>1. /\ st \in ParRecord /\ st.tokens <= ChunkTokens
      /\ GroupLen(g) <= 4 * st.tokens + 5 * Len(g) - 2
  BY DEF ParSound
<1>2. /\ k - 1 \in 0..Len(sec) /\ k \in 0..Len(sec) /\ k \in Nat /\ k - 1 \in Nat
      /\ k - 1 \in 0..k /\ k \in 0..k
  OBVIOUS
<1>3. /\ fl \in ParRecord /\ fl.group = <<>>
      /\ Sound(program, fl.out, at, e[k - 1], Inside(a, e, 0, k - 1))
  <2> DEFINE m == k - 1
  <2>1. m \in 0..Len(sec) /\ ParSound(program, at, a, e, ps, m, st)
    BY <1>2
  <2> HIDE DEF m
  <2>2. /\ fl \in ParRecord /\ fl.group = <<>>
        /\ Sound(program, fl.out, at, e[m], Inside(a, e, 0, m))
    BY <2>1, FlushGroupSound
  <2> QED BY <2>2 DEF m
<1>4. PICK j \in 0..(k - 1) :
         ParBehind(program, at, a, e, ps, k - 1, j, st.out, g)
  BY DEF ParSound
<1>5. /\ Stretch(ps, j, k - 1, g)
      /\ Sound(program, st.out, at, e[j], Inside(a, e, 0, j))
  BY <1>4 DEF ParBehind
<1>6. /\ st.out \in Seq(ChunkRecord) /\ g \in Seq(PlaceRecord) /\ st.tokens \in Nat
      /\ ChunkTokens \in Nat /\ Len(g) = (k - 1) - j /\ Len(g) \in Nat
  BY <1>1, <1>5, ChunkingAssumption DEF ParRecord, Stretch
<1>7. /\ p \in PlaceRecord /\ p.par = sec[k] /\ p.len = ParLen(sec[k]) /\ p.at = a[k]
      /\ p.start <= a[k]
  BY DEF Placed
<1>8. /\ p.par \in Seq(Nat) /\ p.len \in Nat /\ p.start \in Nat /\ p.at \in Nat
      /\ T \in Nat /\ p.len <= 4 * T + 3
  <2>1. /\ p.par \in Seq(Nat) /\ p.len \in Nat /\ p.start \in Nat /\ p.at \in Nat
    BY <1>7 DEF PlaceRecord
  <2> HIDE DEF p
  <2> QED BY <2>1, TokensBound
<1>9. /\ e[k - 1] \in Nat /\ a[k] \in Nat /\ e[k] \in Nat
      /\ at <= e[k - 1] /\ e[k - 1] <= a[k] /\ a[k] <= e[k] /\ e[k] = a[k] + p.len
  <2>1. /\ e[k] = a[k] + ParLen(sec[k]) /\ e[0] = at
    BY DEF Ends
  <2>2. k \in ((k - 1) + 1)..Len(sec) /\ 0 \in 0..Len(sec) /\ k - 1 \in 0..Len(sec)
    BY <1>2
  <2>3. e[k - 1] \in Nat /\ a[k] \in Nat /\ e[k] \in Nat
        /\ e[k - 1] <= a[k] /\ a[k] <= e[k]
    BY <2>2, EndsOrder
  <2>4. e[0] <= e[k - 1]
    BY <2>2, EndsGrow
  <2> QED BY <1>7, <2>1, <2>3, <2>4
<1>10. InsideJoins(a, e, 0, k - 1, k) /\ Inside(a, e, k - 1, k) = a[k]..(e[k] - 1)
  <2>1. 0 \in Int /\ k - 1 \in Int /\ k \in Int /\ 0 <= k - 1 /\ k - 1 <= k
    OBVIOUS
  <2> QED BY <2>1, InsideJoin, InsideOne
<1>11. ASSUME NEW f \in ParRecord, f.tokens <= ChunkTokens, NEW i \in 0..k,
              Stretch(ps, i, k, f.group), Sound(program, f.out, at, e[i], Inside(a, e, 0, i)),
              GroupLen(f.group) <= 4 * f.tokens + 5 * Len(f.group) - 2
       PROVE  ParSound(program, at, a, e, ps, k, f)
  <2>1. ParBehind(program, at, a, e, ps, k, i, f.out, f.group)
    BY <1>11, Zenon DEF ParBehind
  <2> QED BY <1>11, <2>1, Zenon DEF ParSound
<1>12. CASE T > ChunkTokens
  <2> DEFINE cs == SplitLong(program, p.par, p.at, p.start)
             out == fl.out \o cs
             f == [fl EXCEPT !.out = out]
  <2>1. next = [fl EXCEPT !.out = out]
    BY <1>12, Zenon DEF ParStep
  <2>2. Sound(program, cs, a[k], e[k], a[k]..(e[k] - 1))
    <3>1. PICK z \in Nat : /\ z = p.at + ParLen(p.par) /\ p.at <= z
                           /\ Sound(program, cs, p.at, z, p.at..(z - 1))
      <4>1. p.par \in Seq(Nat) /\ p.at \in Nat /\ p.start \in Int /\ p.start <= p.at
        BY <1>7, <1>8
      <4> HIDE DEF p
      <4> QED BY <4>1, SplitLongSound
    <3>2. z = e[k] /\ p.at = a[k]
      BY <1>7, <1>9, <3>1
    <3> QED BY <3>1, <3>2, Zenon
  <2> HIDE DEF cs
  <2>3. Sound(program, cs, e[k - 1], e[k], a[k]..(e[k] - 1))
    <3>1. /\ e[k - 1] \in Int /\ a[k] \in Int /\ e[k] \in Int
          /\ e[k - 1] <= a[k] /\ e[k] <= e[k]
      BY <1>9
    <3> QED BY <2>2, <3>1, SoundWithin
  <2>4. Sound(program, out, at, e[k], Inside(a, e, 0, k))
    <3>1. at \in Int /\ e[k - 1] \in Int /\ e[k] \in Int
          /\ at <= e[k - 1] /\ e[k - 1] <= e[k]
      BY <1>9
    <3> HIDE DEF fl
    <3>2. Sound(program, fl.out \o cs, at, e[k],
                Inside(a, e, 0, k - 1) \cup a[k]..(e[k] - 1))
      BY <1>3, <2>3, <3>1, SoundJoin
    <3> QED BY <1>10, <3>2 DEF InsideJoins
  <2>5. out \in Seq(ChunkRecord)
    BY <2>4 DEF Sound
  <2> HIDE DEF out, fl
  <2>6. f \in ParRecord /\ f.out = out /\ f.group = <<>> /\ f.tokens = fl.tokens
    <3>1. f \in ParRecord
      BY <1>3, <2>5 DEF ParRecord
    <3>2. f.out = out /\ f.group = fl.group /\ f.tokens = fl.tokens
      BY <1>3, <2>5 DEF ParRecord
    <3> QED BY <1>3, <3>1, <3>2
  <2>7. fl.tokens \in Nat /\ fl.tokens <= ChunkTokens
    <3>1. fl.tokens = st.tokens \/ fl.tokens = 0
      BY Zenon DEF FlushGroup, fl
    <3> QED BY <1>1, <1>6, <3>1
  <2> HIDE DEF f
  <2>8. Stretch(ps, k, k, f.group) /\ GroupLen(f.group) = -2 /\ Len(f.group) = 0
    <3>1. /\ <<>> \in Seq(PlaceRecord) /\ Len(<<>>) = 0 /\ Len(<<>>) = k - k
          /\ \A i \in 1..(k - k) : <<>>[i] = ps[k + i]
      BY <1>2
    <3>2. GroupLen(<<>>) = -2
      BY GroupLenNone
    <3> QED BY <2>6, <3>1, <3>2, Zenon DEF Stretch
  <2>9. GroupLen(f.group) <= 4 * f.tokens + 5 * Len(f.group) - 2
    BY <2>6, <2>7, <2>8
  <2>10. f.tokens <= ChunkTokens /\ Sound(program, f.out, at, e[k], Inside(a, e, 0, k))
    BY <2>4, <2>6, <2>7, Zenon
  <2>11. ParSound(program, at, a, e, ps, k, f)
    BY <1>2, <1>11, <2>6, <2>8, <2>9, <2>10
  <2> QED BY <2>1, <2>11 DEF f
<1>13. CASE ~ T > ChunkTokens /\ st.tokens + T <= ChunkTokens
  <2> DEFINE h == Append(g, p)
             f == [st EXCEPT !.group = h, !.tokens = st.tokens + T]
  <2>1. next = f
    BY <1>13, Zenon DEF ParStep
  <2>2. /\ h \in Seq(PlaceRecord) /\ Len(h) = k - j
        /\ \A i \in 1..(k - j) : h[i] = ps[j + i]
    <3>1. h \in Seq(PlaceRecord) /\ Len(h) = Len(g) + 1 /\ h[Len(g) + 1] = p
          /\ \A i \in 1..Len(g) : h[i] = g[i]
      <4>1. g \in Seq(PlaceRecord) /\ p \in PlaceRecord
        BY <1>6, <1>7
      <4>2. /\ Append(g, p) \in Seq(PlaceRecord) /\ Len(Append(g, p)) = Len(g) + 1
            /\ Append(g, p)[Len(g) + 1] = p
            /\ \A i \in 1..Len(g) : Append(g, p)[i] = g[i]
        <5> HIDE DEF p, g, h, f, fl, T, next
        <5> QED BY <4>1, Appended
      <4> HIDE DEF p, g
      <4> QED BY <4>2, Zenon
    <3>2. \A i \in 1..Len(g) : g[i] = ps[j + i]
      BY <1>5, <1>6 DEF Stretch
    <3>3. /\ Len(g) + 1 = k - j /\ j + (Len(g) + 1) = k
          /\ \A i \in 1..(k - j) : i \in 1..Len(g) \/ i = Len(g) + 1
      BY <1>2, <1>6
    <3> HIDE DEF h
    <3> QED BY <3>1, <3>2, <3>3
  <2>3. GroupLen(h) = GroupLen(g) + p.len + 2
    <3> HIDE DEF p, g
    <3> QED BY <1>6, <1>7, GroupGrows
  <2> HIDE DEF h
  <2>4. PICK t \in Nat : t = st.tokens + T
    <3>1. \A x, y \in Nat : x + y \in Nat
      OBVIOUS
    <3>2. st.tokens + T \in Nat
      BY <1>6, <1>8, <3>1, Zenon
    <3> QED BY <3>2, Zenon
  <2>5. f \in ParRecord /\ f.out = st.out /\ f.group = h /\ f.tokens = t
    <3>1. f = [st EXCEPT !.group = h, !.tokens = t]
      BY <2>4, Zenon
    <3> HIDE DEF f
    <3> QED BY <1>1, <2>2, <3>1 DEF ParRecord
  <2> HIDE DEF f
  <2>6. GroupLen(f.group) <= 4 * f.tokens + 5 * Len(f.group) - 2
    <3>1. PICK x \in Int : x = GroupLen(g)
      BY <1>6, GroupLenInt
    <3>2. Len(h) = Len(g) + 1
      BY <1>2, <1>6, <2>2
    <3>3. GroupLen(h) = x + p.len + 2
      BY <2>3, <3>1
    <3>4. \A y, q, u, w \in Nat :
             x <= 4 * y + 5 * q - 2 /\ u <= 4 * w + 3 =>
             x + u + 2 <= 4 * (y + w) + 5 * (q + 1) - 2
      OBVIOUS
    <3>5. x + p.len + 2 <= 4 * (st.tokens + T) + 5 * (Len(g) + 1) - 2
      BY <1>1, <1>6, <1>8, <3>1, <3>4, Zenon
    <3> QED BY <2>4, <2>5, <3>2, <3>3, <3>5, Zenon
  <2>7. Stretch(ps, j, k, f.group)
    BY <2>2, <2>5, Zenon DEF Stretch
  <2>8. j \in 0..k /\ f.tokens <= ChunkTokens
        /\ Sound(program, f.out, at, e[j], Inside(a, e, 0, j))
    <3>1. j \in 0..k
      BY <1>2
    <3> QED BY <1>5, <1>13, <2>4, <2>5, <3>1, Zenon
  <2>9. ParSound(program, at, a, e, ps, k, f)
    BY <1>11, <2>5, <2>6, <2>7, <2>8
  <2> QED BY <2>1, <2>9 DEF f
<1>14. CASE ~ T > ChunkTokens /\ ~ st.tokens + T <= ChunkTokens
  <2> DEFINE h == <<p>>
             f == [fl EXCEPT !.group = h, !.tokens = T]
  <2>1. next = f
    BY <1>14, Zenon DEF ParStep
  <2>2. /\ h \in Seq(PlaceRecord) /\ Len(h) = 1 /\ h[1] = p
    BY <1>7
  <2>3. GroupLen(h) = p.len
    <3>1. <<p>> = Append(<<>>, p) /\ <<>> \in Seq(PlaceRecord)
      OBVIOUS
    <3>2. GroupLen(Append(<<>>, p)) = GroupLen(<<>>) + p.len + 2
      <4> HIDE DEF p
      <4> QED BY <1>7, <3>1, GroupGrows
    <3>3. GroupLen(<<>>) = -2
      BY GroupLenNone
    <3>4. \A u \in Nat : (-2) + u + 2 = u
      OBVIOUS
    <3> QED BY <1>8, <3>1, <3>2, <3>3, <3>4, Zenon
  <2> HIDE DEF h, fl
  <2>4. f \in ParRecord /\ f.out = fl.out /\ f.group = h /\ f.tokens = T
    <3> HIDE DEF T
    <3> QED BY <1>3, <1>8, <2>2 DEF ParRecord
  <2> HIDE DEF f
  <2>5. GroupLen(f.group) <= 4 * f.tokens + 5 * Len(f.group) - 2
    <3>1. \A u, w \in Nat : u <= 4 * w + 3 => u <= 4 * w + 5 * 1 - 2
      OBVIOUS
    <3> QED BY <1>8, <2>2, <2>3, <2>4, <3>1, Zenon
  <2>6. Stretch(ps, k - 1, k, f.group)
    <3>1. k - (k - 1) = 1 /\ (k - 1) + 1 = k /\ \A i \in 1..1 : i = 1
      BY <1>2
    <3>2. \A i \in 1..(k - (k - 1)) : h[i] = ps[(k - 1) + i]
      BY <2>2, <3>1
    <3> QED BY <2>2, <2>4, <3>1, <3>2, Zenon DEF Stretch
  <2>7. f.tokens <= ChunkTokens
    <3> HIDE DEF T
    <3> QED BY <1>6, <1>8, <1>14, <2>4
  <2>8. Sound(program, f.out, at, e[k - 1], Inside(a, e, 0, k - 1))
    BY <1>3, <2>4, Zenon
  <2>9. ParSound(program, at, a, e, ps, k, f)
    <3> DEFINE m == k - 1
    <3>1. /\ m \in 0..k /\ Stretch(ps, m, k, f.group)
          /\ Sound(program, f.out, at, e[m], Inside(a, e, 0, m))
      BY <1>2, <2>6, <2>8
    <3> HIDE DEF m
    <3> QED BY <1>11, <2>4, <2>5, <2>7, <3>1
  <2> QED BY <2>1, <2>9 DEF f
<1> QED
  BY <1>12, <1>13, <1>14, Zenon

-----------------------------------------------------------------------------
(* Sections, and the whole text.                                           *)

\* The characters of a paragraph, and those of a section.
ParBody(sec, at, i) ==
    LET b == at + ParAt(sec, i) IN b..(b + ParLen(sec[i]) - 1)
SecBody(sec, at) == UNION {ParBody(sec, at, i) : i \in 1..Len(sec)}

\* The length of a section is that of all its paragraphs as one group.
LEMMA SectionLen ==
    ASSUME NEW sec \in Seq(Seq(Nat)), sec # <<>>, NEW a, NEW e, NEW ps,
           Placed(sec, a, e, ps)
    PROVE  SecLen(sec) \in Nat /\ GroupLen(ps) = SecLen(sec)
<1>1. /\ ps \in Seq(PlaceRecord) /\ Len(ps) = Len(sec)
      /\ \A k \in 1..Len(sec) : ps[k].len = ParLen(sec[k])
  BY DEF Placed
<1>2. DOMAIN ps = 1..Len(sec) /\ DOMAIN sec = 1..Len(sec)
  BY <1>1
<1>3. [i \in DOMAIN ps |-> ps[i].len] = [i \in DOMAIN sec |-> ParLen(sec[i])]
  BY <1>1, <1>2
<1>4. GroupLen(ps) = SecLen(sec)
  BY <1>1, <1>3, Zenon DEF GroupLen, SecLen
<1>5. GroupLen(ps) \in Nat
  <2>1. Len(sec) # 0 /\ Len(sec) \in Nat
    BY EmptySeq
  <2>2. Len(ps) > 0
    BY <1>1, <2>1
  <2> QED BY <1>1, <2>2, GroupLenInt
<1> QED
  BY <1>4, <1>5

\* The characters of a section are those inside of its paragraphs.
LEMMA SectionBody ==
    ASSUME NEW sec \in Seq(Seq(Nat)), NEW at \in Nat, NEW a, NEW e,
           Ends(sec, at, a, e)
    PROVE  SecBody(sec, at) = Inside(a, e, 0, Len(sec))
<1>1. \A i \in 1..Len(sec) : ParBody(sec, at, i) = a[i]..(e[i] - 1)
  <2> TAKE i \in 1..Len(sec)
  <2>1. /\ a[i] = at + ParAt(sec, i) /\ e[i] = a[i] + ParLen(sec[i])
        /\ ParLen(sec[i]) \in Nat /\ a[i] \in Nat
    BY DEF Ends
  <2>2. PICK x \in Nat : x = a[i]
    BY <2>1
  <2>3. PICK l \in Nat : l = ParLen(sec[i])
    BY <2>1
  <2>4. ParBody(sec, at, i) =
           (at + ParAt(sec, i))..((at + ParAt(sec, i)) + ParLen(sec[i]) - 1)
    BY DEF ParBody
  <2>5. at + ParAt(sec, i) = x
    BY <2>1, <2>2
  <2>6. ParBody(sec, at, i) = x..(x + l - 1)
    BY <2>4, <2>3, <2>5, Zenon
  <2> QED BY <2>1, <2>6, <2>2, <2>3
<1>2. (0 + 1)..Len(sec) = 1..Len(sec)
  OBVIOUS
<1> QED
  BY <1>1, <1>2, Zenon DEF SecBody, Inside

\* The tokens of a group.
LEMMA GroupTokens ==
    ASSUME NEW g \in Seq(PlaceRecord)
    PROVE  Sum([i \in DOMAIN g |-> Tokens(g[i].len)]) \in Nat
<1>1. DOMAIN g = 1..Len(g) /\ Len(g) \in Nat
  OBVIOUS
<1>2. ASSUME NEW i \in 1..Len(g) PROVE Tokens(g[i].len) \in Nat
  <2>1. g[i] \in PlaceRecord
    OBVIOUS
  <2>2. g[i].len \in Nat
    BY <2>1 DEF PlaceRecord
  <2> QED BY <2>2, TokensBound
<1>3. [i \in DOMAIN g |-> Tokens(g[i].len)] \in Seq(Nat)
  BY <1>1, <1>2
<1> QED
  BY <1>3, SumNat

\* A flush of the group yields a state of the loop.
LEMMA FlushGroupType ==
    ASSUME NEW st \in ParRecord
    PROVE  FlushGroup(st) \in ParRecord
<1>1. st.out \in Seq(ChunkRecord) /\ st.group \in Seq(PlaceRecord)
  BY DEF ParRecord
<1>2. CASE st.group = <<>>
  BY <1>2 DEF FlushGroup
<1>3. CASE st.group # <<>>
  <2> DEFINE g == st.group
             t == GroupText(g)
             tokens == Sum([i \in DOMAIN g |-> Tokens(g[i].len)])
             c == Chunk(t, g[1].start, tokens, Len(g))
  <2>1. g \in Seq(PlaceRecord) /\ DOMAIN g = 1..Len(g) /\ Len(g) \in Nat /\ 1 \in 1..Len(g)
    <3>1. Len(g) # 0
      BY <1>1, <1>3, EmptySeq
    <3> QED BY <1>1, <3>1
  <2>2. FlushGroup(st) = [out |-> Append(st.out, c), group |-> <<>>, tokens |-> 0]
    BY <1>3, Zenon DEF FlushGroup, Group, GroupText
  <2>3. tokens \in Nat
    BY <1>1, GroupTokens
  <2> HIDE DEF g, tokens
  <2>4. t \in Seq(RangeRecord)
    <3>1. ASSUME NEW i \in 1..Len(g) PROVE Span(g[i].at, g[i].len) \in RangeRecord
      <4>1. g[i] \in PlaceRecord
        BY <2>1
      <4>2. g[i].at \in Nat /\ g[i].len \in Nat
        BY <4>1 DEF PlaceRecord
      <4> QED BY <4>2 DEF Span, RangeRecord
    <3> QED BY <2>1, <3>1 DEF GroupText
  <2>5. g[1].start \in Int
    <3>1. g[1] \in PlaceRecord
      BY <2>1
    <3>2. g[1].start \in Nat
      BY <3>1 DEF PlaceRecord
    <3> QED BY <3>2
  <2> HIDE DEF t
  <2>6. c \in ChunkRecord
    BY <2>1, <2>3, <2>4, <2>5 DEF Chunk, ChunkRecord
  <2> HIDE DEF c
  <2>7. Append(st.out, c) \in Seq(ChunkRecord) /\ <<>> \in Seq(PlaceRecord)
    BY <1>1, <2>6
  <2> QED BY <2>2, <2>7 DEF ParRecord
<1> QED
  BY <1>2, <1>3

\* A step over a paragraph yields a state of the loop.
LEMMA ParStepType ==
    ASSUME NEW program, NEW st \in ParRecord, NEW p \in PlaceRecord, p.start <= p.at
    PROVE  ParStep(program, st, p) \in ParRecord
<1> DEFINE fl == FlushGroup(st)
           T == Tokens(p.len)
<1>1. fl \in ParRecord
  BY FlushGroupType
<1>2. /\ st.group \in Seq(PlaceRecord) /\ st.tokens \in Nat /\ fl.out \in Seq(ChunkRecord)
      /\ p.par \in Seq(Nat) /\ p.at \in Nat /\ p.start \in Int
  <2>1. st.group \in Seq(PlaceRecord) /\ st.tokens \in Nat
    BY DEF ParRecord
  <2>2. p.par \in Seq(Nat) /\ p.at \in Nat /\ p.start \in Nat
    BY DEF PlaceRecord
  <2> HIDE DEF fl
  <2>3. fl.out \in Seq(ChunkRecord)
    BY <1>1 DEF ParRecord
  <2> QED BY <2>1, <2>2, <2>3
<1>3. T \in Nat
  <2>1. p.len \in Nat
    BY DEF PlaceRecord
  <2> QED BY <2>1, TokensBound
<1>4. CASE T > ChunkTokens
  <2> DEFINE cs == SplitLong(program, p.par, p.at, p.start)
  <2>1. ParStep(program, st, p) = [fl EXCEPT !.out = fl.out \o cs]
    BY <1>4, Zenon DEF ParStep
  <2>2. cs \in Seq(ChunkRecord)
    BY <1>2, SplitLongSound DEF Sound
  <2> HIDE DEF cs, fl
  <2>3. fl.out \o cs \in Seq(ChunkRecord)
    BY <1>2, <2>2
  <2> QED BY <1>1, <2>1, <2>3 DEF ParRecord
<1>5. CASE ~ T > ChunkTokens /\ st.tokens + T <= ChunkTokens
  <2>1. ParStep(program, st, p) =
           [st EXCEPT !.group = Append(st.group, p), !.tokens = st.tokens + T]
    BY <1>5, Zenon DEF ParStep
  <2>2. Append(st.group, p) \in Seq(PlaceRecord)
    BY <1>2
  <2> HIDE DEF T
  <2>3. st.tokens + T \in Nat
    BY <1>2, <1>3
  <2> QED BY <2>1, <2>2, <2>3 DEF ParRecord
<1>6. CASE ~ T > ChunkTokens /\ ~ st.tokens + T <= ChunkTokens
  <2>1. ParStep(program, st, p) = [fl EXCEPT !.group = <<p>>, !.tokens = T]
    BY <1>6, Zenon DEF ParStep
  <2>2. <<p>> \in Seq(PlaceRecord)
    OBVIOUS
  <2> HIDE DEF T, fl
  <2> QED BY <1>1, <1>3, <2>1, <2>2 DEF ParRecord
<1> QED
  BY <1>4, <1>5, <1>6, Zenon

\* The chunks of a section are sound, in either program.
LEMMA SplitSectionSound ==
    ASSUME NEW program, NEW sec \in Seq(Seq(Nat)), sec # <<>>, NEW at \in Nat
    PROVE  \E z \in Nat : /\ z = at + SecLen(sec) /\ at <= z /\ SecLen(sec) \in Nat
                          /\ Sound(program, SplitSection(program, sec, at),
                                   at, z, SecBody(sec, at))
<1> DEFINE n == Len(sec)
           ps == Paragraphs(sec, at)
<1>1. PICK a, e : Ends(sec, at, a, e)
  BY EndsExist
<1>2. Placed(sec, a, e, ps)
  BY <1>1, ParagraphsPlaced
<1>3. ps \in Seq(PlaceRecord) /\ Len(ps) = n
  BY <1>2 DEF Placed
<1>4. n \in Nat /\ n >= 1 /\ n \in 1..n /\ 0 \in 0..n /\ n \in 0..n /\ 0 \in 0..(n - 1)
  <2>1. Len(sec) # 0
    BY EmptySeq
  <2> QED BY <2>1
<1>5. SecLen(sec) \in Nat /\ GroupLen(ps) = SecLen(sec)
  <2> HIDE DEF ps
  <2> QED BY <1>2, SectionLen
<1>6. /\ e[n] = at + SecLen(sec) /\ e[0] = at /\ a[1] = at
      /\ e[n] \in Nat /\ at <= e[n]
  <2>1. e[n] = at + SecLen(sec) /\ e[0] = at /\ a[1] = at
    BY <1>1 DEF Ends
  <2>2. \A x, y \in Nat : x + y \in Nat /\ x <= x + y
    OBVIOUS
  <2> QED BY <1>5, <2>1, <2>2, Zenon
<1>7. SecBody(sec, at) = Inside(a, e, 0, n)
  BY <1>1, SectionBody
<1>8. CASE Tokens(SecLen(sec)) <= ChunkTokens
  <2> DEFINE t == Tokens(SecLen(sec))
             c == GroupChunk(ps, at, t)
  <2>1. SplitSection(program, sec, at) = <<c>>
    <3>1. [i \in DOMAIN sec |-> Span(ps[i].at, ps[i].len)] = GroupText(ps)
      <4>1. DOMAIN ps = DOMAIN sec
        BY <1>3
      <4> HIDE DEF ps
      <4> QED BY <4>1 DEF GroupText
    <3>2. SplitSection(program, sec, at) =
             <<Chunk([i \in DOMAIN sec |-> Span(ps[i].at, ps[i].len)], at, t, Len(sec))>>
      BY <1>8, Zenon DEF SplitSection, Paragraphs
    <3> HIDE DEF ps, t
    <3> QED BY <1>3, <3>1, <3>2, Zenon DEF GroupChunk, n
  <2>2. t \in Nat /\ SecLen(sec) <= 4 * t + 3
    BY <1>5, TokensBound
  <2>3. GroupLen(ps) <= 4 * ChunkTokens + 5 * Len(ps)
    <3>1. \A x, y, m, l \in Nat : l <= 4 * x + 3 /\ x <= y /\ m >= 1 => l <= 4 * y + 5 * m
      OBVIOUS
    <3> HIDE DEF ps, t, n
    <3> QED BY <1>3, <1>4, <1>5, <1>8, <2>2, <3>1, ChunkingAssumption, Zenon DEF t
  <2>4. Stretch(ps, 0, n, ps)
    <3>1. n - 0 = n /\ \A i \in 1..n : 0 + i = i
      BY <1>4
    <3> HIDE DEF ps, n
    <3> QED BY <1>3, <3>1 DEF Stretch
  <2>5. Sound(program, <<c>>, e[0], e[n], Inside(a, e, 0, n))
    <3>1. at \in Int /\ at <= a[0 + 1]
      BY <1>6
    <3> HIDE DEF ps, t
    <3> QED BY <1>1, <1>2, <1>4, <2>2, <2>3, <2>4, <3>1, GroupSound
  <2> HIDE DEF c
  <2> QED BY <1>5, <1>6, <1>7, <2>1, <2>5, Zenon
<1>9. CASE ~ Tokens(SecLen(sec)) <= ChunkTokens
  <2>1. NoGroup \in ParRecord
    <3>1. <<>> \in Seq(ChunkRecord) /\ <<>> \in Seq(PlaceRecord) /\ 0 \in Nat
      OBVIOUS
    <3> QED BY <3>1 DEF NoGroup, ParRecord
  <2>2. ParKeeps(program, ps, ParRecord)
    <3>1. ASSUME NEW w \in ParRecord, NEW k \in 1..Len(ps)
          PROVE  ParStep(program, w, ps[k]) \in ParRecord
      <4>1. ps[k] \in PlaceRecord /\ ps[k].start <= ps[k].at
        BY <1>2, <1>3 DEF Placed
      <4> HIDE DEF ps
      <4> QED BY <4>1, ParStepType
    <3> HIDE DEF ps
    <3> QED BY <3>1 DEF ParKeeps
  <2>3. PICK v \in [0..Len(ps) -> ParRecord] : ParSteps(program, sec, at, ps, v)
    BY <1>3, <1>9, <2>1, <2>2, ParTrace
  <2> HIDE DEF ps
  <2>4. /\ v[0] = NoGroup
        /\ \A k \in 1..n : v[k] = ParStep(program, v[k - 1], ps[k])
        /\ SplitSection(program, sec, at) = FlushGroup(v[n]).out
    BY <1>3, <2>3 DEF ParSteps
  <2> DEFINE P == {k \in 0..n : ParSound(program, at, a, e, ps, k, v[k])}
  <2>5. 0 \in P
    <3>1. /\ NoGroup.out = <<>> /\ NoGroup.group = <<>> /\ NoGroup.tokens = 0
      BY DEF NoGroup
    <3>2. GroupLen(<<>>) <= 4 * 0 + 5 * Len(<<>>) - 2 /\ 0 <= ChunkTokens
      BY GroupLenNone, ChunkingAssumption
    <3>3. Stretch(ps, 0, 0, <<>>)
      BY DEF Stretch
    <3>4. Sound(program, <<>>, at, e[0], Inside(a, e, 0, 0))
      <4>1. Inside(a, e, 0, 0) = {}
        BY InsideOne
      <4>2. Sound(program, <<>>, at, at, {})
        BY SoundNone
      <4> QED BY <1>6, <4>1, <4>2, Zenon
    <3>5. ParBehind(program, at, a, e, ps, 0, 0, NoGroup.out, NoGroup.group)
      BY <3>1, <3>3, <3>4, Zenon DEF ParBehind
    <3>6. 0 \in 0..0
      OBVIOUS
    <3>7. ParSound(program, at, a, e, ps, 0, NoGroup)
      BY <2>1, <3>1, <3>2, <3>5, <3>6, Zenon DEF ParSound
    <3> QED BY <1>4, <2>4, <3>7, Zenon
  <2>6. \A k \in 1..n : k - 1 \in P => k \in P
    <3> TAKE k \in 1..n
    <3> HAVE k - 1 \in P
    <3>1. ParSound(program, at, a, e, ps, k - 1, v[k - 1])
      OBVIOUS
    <3> DEFINE w == v[k - 1]
    <3> HIDE DEF w
    <3>2. ParSound(program, at, a, e, ps, k, ParStep(program, w, ps[k]))
      BY <1>1, <1>2, <3>1, ParStepSound DEF w
    <3>3. k \in 0..n
      BY <1>4
    <3> QED BY <2>4, <3>2, <3>3, Zenon DEF w
  <2> HIDE DEF P
  <2>7. n \in P
    <3> HIDE DEF n
    <3>1. 0..n \subseteq P
      BY <1>4, <2>5, <2>6, UpTo
    <3> QED BY <1>4, <3>1
  <2>8. ParSound(program, at, a, e, ps, n, v[n])
    BY <2>7 DEF P
  <2>9. Sound(program, FlushGroup(v[n]).out, at, e[n], Inside(a, e, 0, n))
    <3> DEFINE w == v[n]
    <3>1. ParSound(program, at, a, e, ps, n, w)
      BY <2>8
    <3> HIDE DEF w
    <3>2. Sound(program, FlushGroup(w).out, at, e[n], Inside(a, e, 0, n))
      BY <1>1, <1>2, <1>4, <3>1, FlushGroupSound
    <3> QED BY <3>2 DEF w
  <2> QED BY <1>5, <1>6, <1>7, <2>4, <2>9, Zenon
<1> QED
  BY <1>8, <1>9

\* A text is made of sections that have paragraphs.
Document == Seq(Seq(Seq(Nat)) \ {<<>>})

\* The characters of the first sections.
DocBody(doc, k) == UNION {SecBody(doc[i], SecAt(doc, i)) : i \in 1..k}

\* Section k begins at d[k - 1].
SecEnds(doc, d) ==
    /\ d \in [0..Len(doc) -> Nat] /\ d[0] = 0
    /\ \A k \in 1..Len(doc) :
          /\ SecAt(doc, k) = d[k - 1] /\ d[k] = d[k - 1] + SecLen(doc[k]) + 1
          /\ SecLen(doc[k]) \in Nat

\* The places of the sections of a text.
LEMMA SecEndsExist ==
    ASSUME NEW doc \in Document
    PROVE  \E d : SecEnds(doc, d)
<1> DEFINE n == Len(doc)
           s == [k \in 1..n |-> SecLen(doc[k]) + 1]
<1>1. n \in Nat /\ \A k \in 1..n : doc[k] \in Seq(Seq(Nat)) /\ doc[k] # <<>>
  BY DEF Document
<1>2. ASSUME NEW k \in 1..n PROVE SecLen(doc[k]) \in Nat
  <2> DEFINE sec == doc[k]
  <2>1. sec \in Seq(Seq(Nat)) /\ sec # <<>> /\ 0 \in Nat
    BY <1>1
  <2> HIDE DEF sec
  <2>2. PICK a, e : Ends(sec, 0, a, e)
    BY <2>1, EndsExist
  <2>3. Placed(sec, a, e, Paragraphs(sec, 0))
    BY <2>1, <2>2, ParagraphsPlaced
  <2>4. SecLen(sec) \in Nat
    BY <2>1, <2>3, SectionLen
  <2> QED BY <2>4 DEF sec
<1>3. s \in Seq(Nat) /\ Len(s) = n /\ \A k \in 1..n : s[k] = SecLen(doc[k]) + 1
  <2>1. \A k \in 1..n : SecLen(doc[k]) + 1 \in Nat
    BY <1>2
  <2> QED BY <1>1, <2>1
<1>4. ASSUME NEW k \in 1..n
      PROVE  SecAt(doc, k) = Sum([j \in 1..(k - 1) |-> s[j]])
  <2>1. [j \in 1..(k - 1) |-> s[j]] = [j \in 1..(k - 1) |-> SecLen(doc[j]) + 1]
    <3>1. \A j \in 1..(k - 1) : s[j] = SecLen(doc[j]) + 1
      BY <1>1
    <3> HIDE DEF s
    <3> QED BY <3>1
  <2> HIDE DEF s
  <2> QED BY <2>1 DEF SecAt
<1> HIDE DEF s, n
<1>5. PICK d : SumsTo(s, d)
  <2>1. \E d \in [0..Len(s) -> Nat] :
              /\ d[0] = 0
              /\ \A k \in 1..Len(s) : d[k] = d[k - 1] + s[k]
              /\ Sum(s) = d[Len(s)]
    BY <1>3, SumTrace
  <2> QED BY <2>1 DEF SumsTo
<1>6. /\ d \in [0..n -> Nat] /\ d[0] = 0
      /\ \A k \in 1..n : d[k] = d[k - 1] + s[k]
  BY <1>3, <1>5 DEF SumsTo
<1>7. ASSUME NEW k \in 1..n
      PROVE  /\ SecAt(doc, k) = d[k - 1]
             /\ d[k] = d[k - 1] + SecLen(doc[k]) + 1
  <2> DEFINE m == k - 1
  <2>1. m \in 0..Len(s)
    BY <1>1, <1>3
  <2> HIDE DEF m
  <2>2. Sum([j \in 1..m |-> s[j]]) = d[m]
    BY <1>3, <1>5, <2>1, PrefixSum
  <2>3. SecAt(doc, k) = d[k - 1]
    BY <1>4, <2>2, Zenon DEF m
  <2>4. d[k - 1] \in Nat
    BY <1>3, <1>6, <2>1 DEF m
  <2>5. \A x, y \in Nat : x + (y + 1) = x + y + 1
    OBVIOUS
  <2>6. d[k] = d[k - 1] + SecLen(doc[k]) + 1
    <3>1. d[k] = d[k - 1] + (SecLen(doc[k]) + 1)
      BY <1>3, <1>6
    <3> QED BY <1>2, <2>4, <2>5, <3>1, Zenon
  <2> QED BY <2>3, <2>6
<1> QED
  BY <1>2, <1>6, <1>7 DEF SecEnds, n

\* The parts that SplitWith concatenates.
Parts(program, doc) == [k \in DOMAIN doc |-> SplitSection(program, doc[k], SecAt(doc, k))]

\* The chunks of a section are sound at its place in the text.
LEMMA PartSound ==
    ASSUME NEW program, NEW doc \in Document, NEW d, SecEnds(doc, d),
           NEW k \in 1..Len(doc)
    PROVE  /\ d[k - 1] \in Nat /\ d[k] \in Nat /\ d[k - 1] <= d[k]
           /\ Sound(program, Parts(program, doc)[k], d[k - 1], d[k],
                    SecBody(doc[k], SecAt(doc, k)))
<1> DEFINE sec == doc[k]
           at == SecAt(doc, k)
<1>1. sec \in Seq(Seq(Nat)) /\ sec # <<>>
  BY DEF Document
<1>2. /\ at = d[k - 1] /\ d[k] = d[k - 1] + SecLen(sec) + 1 /\ SecLen(sec) \in Nat
      /\ d \in [0..Len(doc) -> Nat]
  BY DEF SecEnds
<1>3. d[k - 1] \in Nat /\ d[k] \in Nat
  <2>1. k - 1 \in 0..Len(doc) /\ k \in 0..Len(doc)
    BY DEF Document
  <2> QED BY <1>2, <2>1
<1>4. Parts(program, doc)[k] = SplitSection(program, sec, at)
  <2>1. k \in DOMAIN doc
    BY DEF Document
  <2> QED BY <2>1 DEF Parts
<1>5. at \in Nat
  BY <1>2, <1>3
<1> HIDE DEF sec, at
<1>6. PICK z \in Nat : /\ z = at + SecLen(sec) /\ at <= z /\ SecLen(sec) \in Nat
                       /\ Sound(program, SplitSection(program, sec, at),
                                at, z, SecBody(sec, at))
  BY <1>1, <1>5, SplitSectionSound
<1>7. at <= z /\ z <= d[k]
  <2>1. \A x, y \in Nat : x + y <= x + y + 1
    OBVIOUS
  <2> QED BY <1>2, <1>3, <1>6, <2>1, Zenon
<1>8. Sound(program, SplitSection(program, sec, at), at, d[k], SecBody(sec, at))
  <2>1. at \in Int /\ z \in Int /\ d[k] \in Int /\ at <= at
    BY <1>3, <1>5
  <2> QED BY <1>6, <1>7, <2>1, SoundWithin
<1>9. d[k - 1] <= d[k]
  <2>1. \A x, y \in Nat : x <= x + y + 1
    OBVIOUS
  <2> QED BY <1>2, <1>3, <2>1, Zenon
<1> QED
  BY <1>2, <1>3, <1>4, <1>8, <1>9, Zenon DEF sec, at

\* The chunks of every text are sound, in either program.
LEMMA SplitSound ==
    ASSUME NEW program, NEW doc \in Document
    PROVE  \E z \in Nat : Sound(program, SplitWith(program, doc), 0, z, DocBody(doc, Len(doc)))
<1> DEFINE n == Len(doc)
           ss == Parts(program, doc)
<1>1. PICK d : SecEnds(doc, d)
  BY SecEndsExist
<1>2. n \in Nat /\ DOMAIN doc = 1..n /\ d \in [0..n -> Nat] /\ d[0] = 0
  BY <1>1 DEF SecEnds, Document
<1>3. ASSUME NEW k \in 1..n
      PROVE  /\ d[k - 1] \in Nat /\ d[k] \in Nat /\ d[k - 1] <= d[k]
             /\ Sound(program, ss[k], d[k - 1], d[k], SecBody(doc[k], SecAt(doc, k)))
  BY <1>1, PartSound
<1>4. ss \in Seq(Seq(ChunkRecord)) /\ Len(ss) = n
  <2>1. \A k \in 1..n : ss[k] \in Seq(ChunkRecord)
    BY <1>3 DEF Sound
  <2>2. ss = [k \in 1..n |-> SplitSection(program, doc[k], SecAt(doc, k))]
    BY <1>2 DEF Parts
  <2> HIDE DEF ss
  <2> QED BY <1>2, <2>1, <2>2
<1>5. SplitWith(program, doc) = Concat(ss)
  BY Zenon DEF SplitWith, Parts
<1> HIDE DEF ss
<1>6. PICK v \in [0..n -> Seq(ChunkRecord)] :
              /\ v[0] = <<>>
              /\ \A k \in 1..n : v[k] = v[k - 1] \o ss[k]
              /\ Concat(ss) = v[n]
  <2>1. \E v \in [0..Len(ss) -> Seq(ChunkRecord)] :
              /\ v[0] = <<>>
              /\ \A k \in 1..Len(ss) : v[k] = v[k - 1] \o ss[k]
              /\ Concat(ss) = v[Len(ss)]
    BY <1>4, ConcatTrace
  <2> QED BY <1>4, <2>1
<1> HIDE DEF n
<1> DEFINE P == {k \in 0..n : d[k] \in Nat /\ 0 <= d[k]
                              /\ Sound(program, v[k], 0, d[k], DocBody(doc, k))}
<1>7. 0 \in P
  <2>1. DocBody(doc, 0) = {}
    <3>1. 1..0 = {}
      OBVIOUS
    <3> QED BY <3>1 DEF DocBody
  <2>2. Sound(program, <<>>, 0, 0, {})
    BY SoundNone
  <2>3. Sound(program, v[0], 0, d[0], DocBody(doc, 0))
    BY <1>2, <1>6, <2>1, <2>2, Zenon
  <2>4. d[0] \in Nat /\ 0 <= d[0] /\ 0 \in 0..n
    BY <1>2
  <2> QED BY <2>3, <2>4
<1>8. \A k \in 1..n : k - 1 \in P => k \in P
  <2> TAKE k \in 1..n
  <2> HAVE k - 1 \in P
  <2>1. /\ d[k - 1] \in Nat /\ 0 <= d[k - 1]
        /\ Sound(program, v[k - 1], 0, d[k - 1], DocBody(doc, k - 1))
    OBVIOUS
  <2> DEFINE S == SecBody(doc[k], SecAt(doc, k))
  <2>2. /\ d[k] \in Nat /\ d[k - 1] <= d[k] /\ Sound(program, ss[k], d[k - 1], d[k], S)
    BY <1>3
  <2>3. DocBody(doc, k - 1) \cup S = DocBody(doc, k)
    <3>1. \A i : i \in 1..k <=> i \in 1..(k - 1) \/ i = k
      BY <1>2
    <3> QED BY <3>1, Zenon DEF DocBody
  <2> HIDE DEF S
  <2>4. Sound(program, v[k - 1] \o ss[k], 0, d[k], DocBody(doc, k - 1) \cup S)
    <3>1. 0 \in Int /\ d[k - 1] \in Int /\ d[k] \in Int
      BY <2>1, <2>2
    <3> QED BY <2>1, <2>2, <3>1, SoundJoin
  <2>5. Sound(program, v[k], 0, d[k], DocBody(doc, k))
    BY <1>6, <2>3, <2>4, Zenon
  <2>6. k \in 0..n /\ 0 <= d[k]
    BY <1>2, <2>2
  <2> QED BY <2>2, <2>5, <2>6
<1> HIDE DEF P
<1>9. n \in P
  <2>1. 0..n \subseteq P
    BY <1>2, <1>7, <1>8, UpTo
  <2> QED BY <1>2, <2>1
<1>10. d[n] \in Nat /\ Sound(program, v[n], 0, d[n], DocBody(doc, n))
  BY <1>9 DEF P
<1> QED
  BY <1>5, <1>6, <1>10, Zenon DEF n

-----------------------------------------------------------------------------
(* What the runs check, for every text.                                    *)

\* The characters of a text are those of its sections.
LEMMA BodyOfDocument ==
    ASSUME NEW doc \in Document
    PROVE  DocBody(doc, Len(doc)) = Body(doc)
<1> DEFINE S(n) == UNION {ParBody(doc[n], SecAt(doc, n), i) : i \in DOMAIN doc[n]}
           T(n) == SecBody(doc[n], SecAt(doc, n))
<1>1. DOMAIN doc = 1..Len(doc) /\ \A n \in 1..Len(doc) : DOMAIN doc[n] = 1..Len(doc[n])
  BY DEF Document
<1>2. Body(doc) = UNION {S(n) : n \in DOMAIN doc}
  BY Zenon DEF Body, ParBody
<1>3. \A n \in 1..Len(doc) : T(n) = S(n)
  BY <1>1, Zenon DEF SecBody
<1>4. DocBody(doc, Len(doc)) = UNION {T(n) : n \in 1..Len(doc)}
  BY DEF DocBody
<1> HIDE DEF S, T
<1>5. {T(n) : n \in 1..Len(doc)} = {S(n) : n \in DOMAIN doc}
  BY <1>1, <1>3
<1> QED
  BY <1>2, <1>4, <1>5

\* Sound texts take the characters in the sense of the property.
LEMMA FollowsTakes ==
    ASSUME NEW rs, NEW m, NEW e, NEW S, Follows(rs, m, e, S)
    PROVE  Takes(rs, S)
<1>1. /\ rs \in Seq(RangeRecord) /\ Len(rs) \in Nat /\ DOMAIN rs = 1..Len(rs)
      /\ \A i, j \in 1..Len(rs) : i < j => rs[i].hi <= rs[j].lo
      /\ \A x : x \in S <=> \E i \in 1..Len(rs) : x \in Chars(rs[i])
  BY DEF Follows
<1>2. \A i \in 1..(Len(rs) - 1) : rs[i].hi <= rs[i + 1].lo
  <2> TAKE i \in 1..(Len(rs) - 1)
  <2>1. i \in 1..Len(rs) /\ i + 1 \in 1..Len(rs) /\ i < i + 1
    BY <1>1
  <2> QED BY <1>1, <2>1
<1>3. UNION {Chars(rs[i]) : i \in DOMAIN rs} = S
  <2>1. \A x : x \in UNION {Chars(rs[i]) : i \in DOMAIN rs}
               <=> \E i \in DOMAIN rs : x \in Chars(rs[i])
    BY Zenon
  <2> QED BY <1>1, <2>1
<1> QED
  BY <1>2, <1>3 DEF Takes

\* The chunks of either program take the text, and are sound.
SoundChunks(program, doc, cs) ==
    /\ cs \in Seq(ChunkRecord)
    /\ Takes(Concat(Texts(cs)), Body(doc))
    /\ \A i \in 1..Len(cs) : StartsBefore(cs[i])
    /\ program # "base" => \A i \in 1..Len(cs) : CutRest(cs, i) \/ InLimit(cs[i])

\* What a program makes of a text.
LEMMA ChunksAreSound ==
    ASSUME NEW program, NEW doc \in Document
    PROVE  SoundChunks(program, doc, SplitWith(program, doc))
<1> DEFINE cs == SplitWith(program, doc)
<1>1. PICK z \in Nat : Sound(program, cs, 0, z, DocBody(doc, Len(doc)))
  BY SplitSound
<1>2. DocBody(doc, Len(doc)) = Body(doc)
  BY BodyOfDocument
<1> HIDE DEF cs
<1>3. Sound(program, cs, 0, z, Body(doc))
  BY <1>1, <1>2, Zenon
<1>4. Takes(Concat(Texts(cs)), Body(doc))
  BY <1>3, FollowsTakes, Zenon DEF Sound
<1>5. SoundChunks(program, doc, cs)
  BY <1>3, <1>4, Zenon DEF Sound, SoundChunks
<1> QED
  BY <1>5 DEF cs

\* The lengths of the chunks are those the windows are made for.
Lens(cs) == [i \in DOMAIN cs |-> TextLen(cs[i])]

ChunkResult(doc) ==
    [chunks |-> SplitByTokens(doc), windows |-> Windows(SplitByTokens(doc)),
     lens |-> Lens(SplitByTokens(doc)), base |-> BaseSplitByTokens(doc)]

\* The result of a text is that of the two programs.
ChunkInv ==
    task.kind = "chunk" => /\ task.doc \in Documents
                           /\ result = <<>> \/ result = ChunkResult(task.doc)

\* After ChunkingService.execute the chunks are those of the text.
LEMMA ChunkInvariant == Spec => []ChunkInv
<1>1. Init => ChunkInv
  <2> SUFFICES ASSUME Init, task.kind = "chunk"
               PROVE  task.doc \in Documents /\ result = <<>>
    BY DEF ChunkInv
  <2>1. \/ task \in [kind : {"chunk"}, doc : Documents]
        \/ task.kind \in {"library", "sections", "fuse", "resolve"}
    BY DEF Init
  <2> QED BY <2>1 DEF Init
<1>2. ChunkInv /\ [Next]_vars => ChunkInv'
  <2> SUFFICES ASSUME ChunkInv, [Next]_vars, task.kind = "chunk", task' = task
               PROVE  /\ task.doc \in Documents
                      /\ result' = <<>> \/ result' = ChunkResult(task.doc)
    BY DEF ChunkInv, Next, vars, Execute, Library, Sections, Fuse, Resolve
  <2>1. CASE Execute
    BY <2>1 DEF ChunkInv, Execute, Pending, ChunkResult, Lens
  <2>2. ASSUME Library \/ Sections \/ Fuse \/ Resolve PROVE FALSE
    BY <2>2 DEF Library, Sections, Fuse, Resolve, Pending
  <2>3. CASE UNCHANGED vars
    BY <2>3 DEF ChunkInv, vars
  <2> QED BY <2>1, <2>2, <2>3 DEF Next
<1> QED
  BY <1>1, <1>2, PTL DEF Spec

\* NoTextLost: _split_by_tokens and _split_long_paragraph keep each character
\* of each text once and in order, in either program.
THEOREM TextKept == Spec => []NoTextLost
<1>1. ChunkInv => NoTextLost
  <2> SUFFICES ASSUME ChunkInv, Done("chunk")
               PROVE  /\ Takes(Concat(Texts(result.chunks)), Body(task.doc))
                      /\ Takes(Concat(Texts(result.base)), Body(task.doc))
    BY DEF NoTextLost
  <2>1. task.doc \in Document /\ result = ChunkResult(task.doc)
    BY DocumentsAssumption DEF ChunkInv, Done, Document
  <2>2. /\ result.chunks = SplitWith("service", task.doc)
        /\ result.base = SplitWith("base", task.doc)
    BY <2>1 DEF ChunkResult, SplitByTokens, BaseSplitByTokens
  <2>3. SoundChunks("service", task.doc, result.chunks)
    BY <2>1, <2>2, ChunksAreSound
  <2>4. SoundChunks("base", task.doc, result.base)
    BY <2>1, <2>2, ChunksAreSound
  <2> QED BY <2>3, <2>4 DEF SoundChunks
<1> QED
  BY <1>1, ChunkInvariant, PTL

\* What is known of the result of ChunkingService.execute.
LEMMA ServiceChunks ==
    ASSUME ChunkInv, Done("chunk")
    PROVE  /\ task.doc \in Document
           /\ result.chunks = SplitByTokens(task.doc)
           /\ result.lens = Lens(result.chunks)
           /\ result.windows = Windows(result.chunks)
           /\ SoundChunks("service", task.doc, result.chunks)
<1>1. task.doc \in Document /\ result = ChunkResult(task.doc)
  BY DocumentsAssumption DEF ChunkInv, Done, Document
<1>2. /\ result.chunks = SplitByTokens(task.doc)
      /\ result.lens = Lens(result.chunks)
      /\ result.windows = Windows(result.chunks)
  BY <1>1 DEF ChunkResult
<1>3. SoundChunks("service", task.doc, result.chunks)
  BY <1>1, <1>2, ChunksAreSound DEF SplitByTokens
<1> QED
  BY <1>1, <1>2, <1>3

\* StartsNotBehind: adding lines to characters and leaving the start where it
\* is when a sentence is cut never puts a start behind the text of its chunk.
THEOREM StartsHold == Spec => []StartsNotBehind
<1>1. ChunkInv => StartsNotBehind
  <2> SUFFICES ASSUME ChunkInv, Done("chunk"), NEW i \in DOMAIN result.chunks
               PROVE  result.chunks[i].start <= result.chunks[i].text[1].lo
    BY DEF StartsNotBehind
  <2>1. SoundChunks("service", task.doc, result.chunks)
    BY ServiceChunks
  <2> QED BY <2>1 DEF SoundChunks, StartsBefore
<1> QED
  BY <1>1, ChunkInvariant, PTL

\* ChunksBounded: only the rest of a sentence that was cut is longer than its
\* tokens, the rounding of its pieces and the separators allow.
THEOREM BoundHolds == Spec => []ChunksBounded
<1>1. ChunkInv => ChunksBounded
  <2> SUFFICES ASSUME ChunkInv, Done("chunk"), NEW i \in DOMAIN result.chunks
               PROVE  \/ CutRest(result.chunks, i)
                      \/ TextLen(result.chunks[i])
                            <= 4 * ChunkTokens + 5 * result.chunks[i].pieces
    BY DEF ChunksBounded
  <2>1. SoundChunks("service", task.doc, result.chunks) /\ "service" # "base"
    BY ServiceChunks
  <2>2. i \in 1..Len(result.chunks)
    BY <2>1 DEF SoundChunks
  <2> QED BY <2>1, <2>2 DEF SoundChunks, InLimit
<1> QED
  BY <1>1, ChunkInvariant, PTL

-----------------------------------------------------------------------------
(* The sections of a library.                                              *)

SectionRecord == [path : SUBSET Nat, body : Seq(Nat)]
SectionsRecord == [out : Seq(SectionRecord), body : Seq(Nat), path : SUBSET Nat]

NoSection == [out |-> <<>>, body |-> <<>>, path |-> {}]

\* split_library_sections goes through the steps v.
SectionSteps(lines, v) ==
    /\ v[0] = NoSection
    /\ \A k \in 1..Len(lines) : v[k] = SectionStep(lines, v[k - 1], k)
    /\ LibrarySections(lines) = FlushSection(v[Len(lines)])

\* The steps do not leave V.
SectionKeeps(lines, V) ==
    \A w \in V, k \in 1..Len(lines) : SectionStep(lines, w, k) \in V

\* split_library_sections goes through the lines in turn.
LEMMA SectionTrace ==
    ASSUME NEW lines \in Seq(Nat), NEW V, NoSection \in V, SectionKeeps(lines, V)
    PROVE  \E v \in [0..Len(lines) -> V] : SectionSteps(lines, v)
<1> DEFINE n == Len(lines)
           ids == [i \in DOMAIN lines |-> i]
           Step(it, S) == IF S = {} THEN NoSection
                          ELSE SectionStep(lines, it[S \ {Max(S)}], ids[Max(S)])
           Eq(it) == it = [S \in SUBSET DOMAIN ids |-> Step(it, S)]
           it0 == CHOOSE it : Eq(it)
           G == [x \in (1..n) \X V |-> SectionStep(lines, x[2], x[1])]
           b0 == NoSection
<1>1. LibrarySections(lines) = FlushSection(it0[DOMAIN ids])
  BY DEF LibrarySections, FoldLeft, MapThenFoldSet, NoSection
<1>2. n \in Nat /\ DOMAIN lines = 1..n /\ DOMAIN ids = 1..n
      /\ \A k \in 1..n : ids[k] = k
  OBVIOUS
<1>3. /\ b0 \in V
      /\ \A k \in 1..n, w \in V : SectionStep(lines, w, k) \in V
  BY DEF SectionKeeps
<1>4. G \in [(1..n) \X V -> V]
  BY <1>3
<1>5. \A k \in 1..n, w \in V : G[<<k, w>>] = SectionStep(lines, w, k)
  OBVIOUS
<1> HIDE DEF G, n, b0, ids
<1>6. \E it : Eq(it)
  <2>1. PICK it \in [SUBSET (1..n) -> V] : Folds(n, b0, G, it)
    BY <1>2, <1>3, <1>4, FoldExists
  <2>2. ASSUME NEW S \in SUBSET (1..n)
        PROVE  it[S] = Step(it, S)
    <3>1. it[S] = IF S = {} THEN b0 ELSE G[<<Max(S), it[S \ {Max(S)}]>>]
      BY <2>1 DEF Folds
    <3>2. S # {} => Max(S) \in 1..n /\ it[S \ {Max(S)}] \in V
      <4> HAVE S # {}
      <4>1. Max(S) \in 1..n
        BY <1>2, MaxAndRest
      <4> QED BY <4>1
    <3> QED BY <3>1, <3>2, <1>2, <1>5 DEF b0
  <2> HIDE DEF Step
  <2>3. it = [S \in SUBSET (1..n) |-> Step(it, S)]
    BY <2>2
  <2>4. Eq(it)
    BY <2>3, <1>2
  <2> HIDE DEF Eq
  <2> QED BY <2>4
<1>7. Eq(it0)
  <2> HIDE DEF Eq
  <2> QED BY <1>6
<1> HIDE DEF it0
<1>8. it0[{}] = b0
  <2>1. {} \in SUBSET DOMAIN ids
    OBVIOUS
  <2> QED BY <1>7, <2>1 DEF b0
<1>9. \A k \in 1..n : it0[1..(k - 1)] \in V =>
                         it0[1..k] = G[<<k, it0[1..(k - 1)]>>]
  <2> TAKE k \in 1..n
  <2> HAVE it0[1..(k - 1)] \in V
  <2>1. 1..k \in SUBSET DOMAIN ids /\ k \in Nat \ {0}
    BY <1>2
  <2>2. Max(1..k) = k /\ (1..k) \ {k} = 1..(k - 1) /\ 1..k # {}
    BY <2>1, InitialSegment
  <2>3. it0[1..k] = SectionStep(lines, it0[1..(k - 1)], k)
    <3>1. it0[1..k] = Step(it0, 1..k)
      <4> HIDE DEF Step
      <4> QED BY <1>7, <2>1
    <3>2. ids[k] = k
      BY <1>2
    <3> QED BY <2>2, <3>1, <3>2, Zenon
  <2> QED BY <2>3, <1>5
<1> HIDE DEF Eq
<1>10. Follow(n, V, b0, G, it0)
  BY <1>8, <1>9 DEF Follow
<1>11. PICK v \in [0..n -> V] : Leads(n, b0, G, it0, v)
  BY <1>2, <1>3, <1>4, <1>10, FoldSteps
<1>12. ASSUME NEW k \in 1..n PROVE v[k] = SectionStep(lines, v[k - 1], k)
  <2>1. v[k] = G[<<k, v[k - 1]>>]
    BY <1>11 DEF Leads, Trace
  <2>2. v[k - 1] \in V
    BY <1>2
  <2> QED BY <2>1, <2>2, <1>5
<1>13. it0[1..n] = v[n] /\ v[0] = NoSection
  BY <1>11 DEF Leads, Trace, b0
<1>14. LibrarySections(lines) = FlushSection(v[n])
  BY <1>1, <1>2, <1>13
<1> QED
  BY <1>12, <1>13, <1>14 DEF n, SectionSteps

\* The headers whose sections line i is in.
Open(lines, i) ==
    {h \in 1..i : /\ lines[h] > 0
                  /\ \A k \in (h + 1)..i : lines[k] > 0 => lines[k] > lines[h]}

\* A section has the path of its first line.
Headed(lines, s) ==
    /\ s \in SectionRecord
    /\ s.body # <<>> /\ s.path = Enclosing(lines, s.body[1])

\* Line l is in a finished section, or in the current one.
InOut(st, l) == \E j \in 1..Len(st.out) : Contains(st.out[j].body, l)
InBody(st, l) == Contains(st.body, l)

\* What the loop has after i lines.
SectionInv(lines, i, st) ==
    /\ st \in SectionsRecord
    /\ st.path = Open(lines, i)
    /\ \A j \in 1..Len(st.out) : Headed(lines, st.out[j])
    /\ st.body # <<>> =>
          /\ st.body[1] \in 1..i
          /\ \A k \in st.body[1]..i : lines[k] = 0
    /\ \A l \in 1..Len(lines) :
          InOut(st, l) \/ InBody(st, l) <=> l <= i /\ lines[l] = 0

\* A line that is no header leaves the headers above it open, and one that is
\* closes those of its level and of higher ones.
LEMMA OpenAfter ==
    ASSUME NEW lines \in Seq(Nat), NEW i \in 1..Len(lines)
    PROVE  /\ lines[i] = 0 => Open(lines, i) = Open(lines, i - 1)
           /\ lines[i] # 0 =>
                 Open(lines, i) = PathAfter(Open(lines, i - 1), i, lines[i], lines)
<1>1. /\ Len(lines) \in Nat /\ i \in Nat
      /\ \A k \in 1..Len(lines) : lines[k] \in Nat
      /\ \A h \in 1..i : h \in 1..Len(lines) /\ (h = i \/ h \in 1..(i - 1))
  OBVIOUS
<1>2. ASSUME NEW h \in 1..(i - 1), NEW k \in (h + 1)..i
      PROVE  k = i \/ k \in (h + 1)..(i - 1)
  BY <1>1
<1>3. \A h \in 1..(i - 1) : i \in (h + 1)..i /\ h \in 1..i
                             /\ \A k \in (h + 1)..(i - 1) : k \in (h + 1)..i
  BY <1>1
<1>4. (i + 1)..i = {}
  BY <1>1
<1>5. ASSUME NEW h \in 1..(i - 1)
      PROVE  h \in Open(lines, i) <=>
                /\ h \in Open(lines, i - 1)
                /\ lines[i] > 0 => lines[i] > lines[h]
  BY <1>2, <1>3, Zenon DEF Open
<1>6. i \in Open(lines, i) <=> lines[i] > 0
  BY <1>1, <1>4 DEF Open
<1>7. /\ \A h \in Open(lines, i) : h = i \/ h \in 1..(i - 1)
      /\ \A h \in Open(lines, i - 1) : h \in 1..(i - 1)
      /\ i \notin 1..(i - 1)
  BY <1>1 DEF Open
<1>8. lines[i] \in Nat
  BY <1>1
<1>9. ASSUME lines[i] = 0
      PROVE  Open(lines, i) = Open(lines, i - 1)
  <2>1. ~ lines[i] > 0
    BY <1>9
  <2> QED BY <1>5, <1>6, <1>7, <2>1, Zenon
<1>10. ASSUME lines[i] # 0
       PROVE  Open(lines, i) = PathAfter(Open(lines, i - 1), i, lines[i], lines)
  <2>1. lines[i] > 0
    BY <1>8, <1>10
  <2>2. \A h \in 1..(i - 1) : lines[i] > lines[h] <=> lines[h] < lines[i]
    BY <1>1
  <2> QED BY <1>5, <1>6, <1>7, <2>1, <2>2, Zenon DEF PathAfter
<1> QED
  BY <1>9, <1>10

\* While no header follows, the open headers are those of the first line.
LEMMA OpenEncloses ==
    ASSUME NEW lines \in Seq(Nat), NEW i \in 0..Len(lines), NEW b \in 1..i,
           \A k \in b..i : lines[k] = 0
    PROVE  Open(lines, i) = Enclosing(lines, b)
<1>1. /\ Len(lines) \in Nat /\ i \in Nat /\ b \in Nat /\ b <= i /\ DOMAIN lines = 1..Len(lines)
      /\ \A h \in 1..i : h \in DOMAIN lines /\ (h < b \/ h \in b..i)
      /\ \A h \in DOMAIN lines : h < b => h \in 1..i
  OBVIOUS
<1>2. \A h \in 1..i : \A k \in (h + 1)..i : k \in b..i \/ k \in (h + 1)..b
  BY <1>1
<1>3. \A h \in 1..i : \A k \in (h + 1)..b : k \in (h + 1)..i
  BY <1>1
<1>4. \A k \in b..i : ~ lines[k] > 0
  <2>1. ~ 0 > 0
    OBVIOUS
  <2> QED BY <2>1
<1>5. ASSUME NEW h \in 1..i
      PROVE  h \in Open(lines, i) <=> h \in Enclosing(lines, b)
  BY <1>1, <1>2, <1>3, <1>4, Zenon DEF Open, Enclosing
<1>6. /\ \A h \in Open(lines, i) : h \in 1..i
      /\ \A h \in Enclosing(lines, b) : h \in 1..i
  BY <1>1, Zenon DEF Open, Enclosing
<1> QED
  BY <1>5, <1>6, Zenon

\* Line l is in a section.
InSections(ss, l) == \E j \in 1..Len(ss) : Contains(ss[j].body, l)

\* The sections, once the current one is finished.
SectionsSound(lines, i, ss) ==
    /\ ss \in Seq(SectionRecord)
    /\ \A j \in 1..Len(ss) : Headed(lines, ss[j])
    /\ \A l \in 1..Len(lines) : InSections(ss, l) <=> l <= i /\ lines[l] = 0

\* A finished section has its path and its lines.
LEMMA FlushSectionSound ==
    ASSUME NEW lines \in Seq(Nat), NEW i \in 0..Len(lines), NEW st,
           SectionInv(lines, i, st)
    PROVE  SectionsSound(lines, i, FlushSection(st))
<1>1. /\ st \in SectionsRecord /\ st.path = Open(lines, i)
      /\ \A j \in 1..Len(st.out) : Headed(lines, st.out[j])
      /\ \A l \in 1..Len(lines) :
            InOut(st, l) \/ InBody(st, l) <=> l <= i /\ lines[l] = 0
  BY DEF SectionInv
<1>2. st.out \in Seq(SectionRecord) /\ st.body \in Seq(Nat) /\ st.path \in SUBSET Nat
  BY <1>1 DEF SectionsRecord
<1>3. CASE st.body = <<>>
  <2>1. FlushSection(st) = st.out
    BY <1>3, Zenon DEF FlushSection
  <2>2. \A l : ~ InBody(st, l)
    <3>1. Len(st.body) = 0 /\ \A j \in 1..0 : FALSE
      BY <1>3
    <3> QED BY <3>1 DEF InBody, Contains
  <2>3. \A l : InOut(st, l) <=> InSections(st.out, l)
    BY DEF InOut, InSections
  <2> QED BY <1>1, <1>2, <2>1, <2>2, <2>3, Zenon DEF SectionsSound
<1>4. CASE st.body # <<>>
  <2> DEFINE s == [path |-> st.path, body |-> st.body]
             ss == Append(st.out, s)
             n == Len(st.out)
  <2>1. FlushSection(st) = ss
    BY <1>4, Zenon DEF FlushSection
  <2>2. s \in SectionRecord /\ s.body = st.body /\ s.path = st.path
    BY <1>2 DEF SectionRecord
  <2>3. Headed(lines, s)
    <3>1. st.body[1] \in 1..i /\ \A k \in st.body[1]..i : lines[k] = 0
      BY <1>4, Zenon DEF SectionInv
    <3>2. Open(lines, i) = Enclosing(lines, st.body[1])
      BY <3>1, OpenEncloses
    <3> QED BY <1>1, <1>4, <2>2, <3>2, Zenon DEF Headed
  <2> HIDE DEF s
  <2>4. /\ ss \in Seq(SectionRecord) /\ Len(ss) = n + 1 /\ ss[n + 1] = s
        /\ \A j \in 1..n : ss[j] = st.out[j]
    BY <1>2, <2>2, Appended
  <2>5. n \in Nat
    BY <1>2
  <2>6. n \in Nat /\ \A j \in 1..(n + 1) : j \in 1..n \/ j = n + 1
    <3> HIDE DEF n
    <3> QED BY <2>5
  <2>7. n + 1 \in 1..(n + 1) /\ \A j \in 1..n : j \in 1..(n + 1)
    BY <2>6
  <2> HIDE DEF ss, n
  <2>8. \A j \in 1..Len(ss) : Headed(lines, ss[j])
    BY <1>1, <2>3, <2>4, <2>6, Zenon DEF n
  <2>9. ASSUME NEW l
        PROVE  InSections(ss, l) <=> InOut(st, l) \/ InBody(st, l)
    BY <2>2, <2>4, <2>6, <2>7, Zenon DEF InSections, InOut, InBody, n
  <2>10. SectionsSound(lines, i, ss)
    BY <1>1, <2>4, <2>8, <2>9, Zenon DEF SectionsSound
  <2> QED BY <2>1, <2>10
<1> QED
  BY <1>3, <1>4

\* A step over line i.
LEMMA SectionStepSound ==
    ASSUME NEW lines \in Seq(Nat), NEW i \in 1..Len(lines), NEW st,
           SectionInv(lines, i - 1, st)
    PROVE  SectionInv(lines, i, SectionStep(lines, st, i))
<1> DEFINE next == SectionStep(lines, st, i)
<1>1. /\ st \in SectionsRecord /\ st.path = Open(lines, i - 1)
      /\ \A j \in 1..Len(st.out) : Headed(lines, st.out[j])
      /\ st.body # <<>> =>
            /\ st.body[1] \in 1..(i - 1)
            /\ \A k \in st.body[1]..(i - 1) : lines[k] = 0
      /\ \A l \in 1..Len(lines) :
            InOut(st, l) \/ InBody(st, l) <=> l <= i - 1 /\ lines[l] = 0
  BY DEF SectionInv
<1>2. st.out \in Seq(SectionRecord) /\ st.body \in Seq(Nat) /\ st.path \in SUBSET Nat
  BY <1>1 DEF SectionsRecord
<1>3. /\ i \in Nat /\ Len(lines) \in Nat /\ \A k \in 1..Len(lines) : lines[k] \in Nat
      /\ \A l \in 1..Len(lines) : l <= i <=> l <= i - 1 \/ l = i
      /\ ~ i <= i - 1
  OBVIOUS
<1>4. Open(lines, i) \in SUBSET Nat
  BY <1>3 DEF Open
<1>5. CASE lines[i] = 0
  <2> DEFINE b == Append(st.body, i)
  <2>1. next = [st EXCEPT !.body = b]
    BY <1>5, Zenon DEF SectionStep
  <2>2. /\ b \in Seq(Nat) /\ Len(b) = Len(st.body) + 1 /\ b[Len(st.body) + 1] = i
        /\ \A j \in 1..Len(st.body) : b[j] = st.body[j]
    BY <1>2, <1>3, Appended
  <2>3. /\ Len(st.body) \in Nat
        /\ \A j \in 1..Len(b) : j \in 1..Len(st.body) \/ j = Len(st.body) + 1
        /\ Len(st.body) + 1 \in 1..Len(b) /\ \A j \in 1..Len(st.body) : j \in 1..Len(b)
    BY <1>2, <2>2
  <2> HIDE DEF b
  <2>4. /\ next \in SectionsRecord /\ next.out = st.out /\ next.body = b
        /\ next.path = st.path
    BY <1>1, <2>1, <2>2 DEF SectionsRecord
  <2> HIDE DEF next
  <2>5. next.path = Open(lines, i)
    BY <1>1, <1>5, <2>4, OpenAfter
  <2>6. /\ b[1] \in 1..i
        /\ \A k \in b[1]..i : lines[k] = 0
    <3>1. CASE st.body = <<>>
      <4>1. Len(st.body) + 1 = 1
        BY <3>1
      <4>2. b[1] = i
        BY <2>2, <4>1
      <4>3. i \in 1..i /\ \A k \in i..i : k = i
        BY <1>3
      <4> QED BY <1>5, <4>2, <4>3
    <3>2. CASE st.body # <<>>
      <4>1. 1 \in 1..Len(st.body)
        <5>1. Len(st.body) # 0
          BY <1>2, <3>2, EmptySeq
        <5> QED BY <2>3, <5>1
      <4>2. PICK m \in 1..(i - 1) : m = st.body[1] /\ \A k \in m..(i - 1) : lines[k] = 0
        BY <1>1, <3>2
      <4>3. b[1] = m
        BY <2>2, <4>1, <4>2
      <4>4. m \in 1..i /\ \A k \in m..i : k \in m..(i - 1) \/ k = i
        BY <1>3
      <4> QED BY <1>5, <4>2, <4>3, <4>4
    <3> QED BY <3>1, <3>2
  <2>7. ASSUME NEW l
        PROVE  /\ InOut(next, l) <=> InOut(st, l)
               /\ InBody(next, l) <=> InBody(st, l) \/ l = i
    BY <2>2, <2>3, <2>4, Zenon DEF InOut, InBody, Contains
  <2>8. ASSUME NEW l \in 1..Len(lines)
        PROVE  InOut(next, l) \/ InBody(next, l) <=> l <= i /\ lines[l] = 0
    BY <1>1, <1>3, <1>5, <2>7, Zenon
  <2>9. \A j \in 1..Len(next.out) : Headed(lines, next.out[j])
    BY <1>1, <2>4, Zenon
  <2>10. SectionInv(lines, i, next)
    BY <2>4, <2>5, <2>6, <2>8, <2>9, Zenon DEF SectionInv
  <2> QED BY <2>10 DEF next
<1>6. CASE lines[i] # 0
  <2> DEFINE ss == FlushSection(st)
             p == PathAfter(st.path, i, lines[i], lines)
  <2>1. next = [out |-> ss, body |-> <<>>, path |-> p]
    BY <1>6, Zenon DEF SectionStep
  <2>2. SectionsSound(lines, i - 1, ss)
    <3> DEFINE m == i - 1
    <3>1. m \in 0..Len(lines) /\ SectionInv(lines, m, st)
      BY <1>3
    <3> HIDE DEF m
    <3>2. SectionsSound(lines, m, ss)
      BY <3>1, FlushSectionSound
    <3> QED BY <3>2 DEF m
  <2>3. p = Open(lines, i)
    BY <1>1, <1>6, OpenAfter
  <2> HIDE DEF ss, p
  <2>4. /\ next \in SectionsRecord /\ next.out = ss /\ next.body = <<>>
        /\ next.path = p
    <3>1. ss \in Seq(SectionRecord) /\ p \in SUBSET Nat /\ <<>> \in Seq(Nat)
      BY <1>4, <2>2, <2>3 DEF SectionsSound
    <3> QED BY <2>1, <3>1 DEF SectionsRecord
  <2> HIDE DEF next
  <2>5. ASSUME NEW l
        PROVE  /\ InOut(next, l) <=> InSections(ss, l)
               /\ ~ InBody(next, l)
    <3>1. Len(<<>>) = 0 /\ \A j \in 1..0 : FALSE
      OBVIOUS
    <3>2. ~ InBody(next, l)
      BY <2>4, <3>1, Zenon DEF InBody, Contains
    <3> QED BY <2>4, <3>2, Zenon DEF InOut, InSections
  <2>6. ASSUME NEW l \in 1..Len(lines)
        PROVE  InOut(next, l) \/ InBody(next, l) <=> l <= i /\ lines[l] = 0
    BY <1>3, <1>6, <2>2, <2>5, Zenon DEF SectionsSound
  <2>7. \A j \in 1..Len(next.out) : Headed(lines, next.out[j])
    BY <2>2, <2>4, Zenon DEF SectionsSound
  <2>8. SectionInv(lines, i, next)
    BY <2>3, <2>4, <2>6, <2>7, Zenon DEF SectionInv
  <2> QED BY <2>8 DEF next
<1> QED
  BY <1>5, <1>6

\* A step over a line yields a state of the loop.
LEMMA SectionStepType ==
    ASSUME NEW lines \in Seq(Nat), NEW i \in 1..Len(lines), NEW st \in SectionsRecord
    PROVE  SectionStep(lines, st, i) \in SectionsRecord
<1>1. /\ st.out \in Seq(SectionRecord) /\ st.body \in Seq(Nat) /\ st.path \in SUBSET Nat
      /\ i \in Nat
  BY DEF SectionsRecord
<1>2. CASE lines[i] = 0
  <2>1. Append(st.body, i) \in Seq(Nat)
    BY <1>1, Appended
  <2>2. SectionStep(lines, st, i) = [st EXCEPT !.body = Append(st.body, i)]
    BY <1>2, Zenon DEF SectionStep
  <2> QED BY <2>1, <2>2 DEF SectionsRecord
<1>3. CASE lines[i] # 0
  <2> DEFINE p == PathAfter(st.path, i, lines[i], lines)
             s == [path |-> st.path, body |-> st.body]
  <2>1. p \in SUBSET Nat
    BY <1>1 DEF PathAfter
  <2>2. s \in SectionRecord
    BY <1>1 DEF SectionRecord
  <2> HIDE DEF s
  <2>3. Append(st.out, s) \in Seq(SectionRecord)
    BY <1>1, <2>2, Appended
  <2>4. FlushSection(st) \in Seq(SectionRecord) /\ <<>> \in Seq(Nat)
    BY <1>1, <2>3 DEF FlushSection, s
  <2>5. SectionStep(lines, st, i) = [out |-> FlushSection(st), body |-> <<>>, path |-> p]
    BY <1>3, Zenon DEF SectionStep
  <2> HIDE DEF p
  <2> QED BY <2>1, <2>4, <2>5 DEF SectionsRecord
<1> QED
  BY <1>2, <1>3

\* The sections of a library have the paths of their first lines, and all lines
\* that are no headers.
LEMMA LibrarySectionsSound ==
    ASSUME NEW lines \in Seq(Nat)
    PROVE  SectionsSound(lines, Len(lines), LibrarySections(lines))
<1> DEFINE n == Len(lines)
           V == SectionsRecord
<1>1. n \in Nat /\ n \in 0..Len(lines) /\ 0 \in 0..Len(lines)
  OBVIOUS
<1>2. SectionInv(lines, 0, NoSection)
  <2>1. /\ NoSection \in SectionsRecord /\ NoSection.path = {} /\ NoSection.body = <<>>
        /\ NoSection.out = <<>>
    BY DEF NoSection, SectionsRecord
  <2>2. Len(<<>>) = 0 /\ \A j \in 1..0 : FALSE
    OBVIOUS
  <2>3. Open(lines, 0) = {}
    BY <2>2 DEF Open
  <2>4. \A l : ~ InOut(NoSection, l) /\ ~ InBody(NoSection, l)
    BY <2>1, <2>2, Zenon DEF InOut, InBody, Contains
  <2>5. \A l \in 1..Len(lines) : ~ l <= 0
    BY <1>1
  <2> QED BY <2>1, <2>2, <2>3, <2>4, <2>5, Zenon DEF SectionInv
<1>3. PICK v \in [0..n -> V] : SectionSteps(lines, v)
  <2>1. NoSection \in V
    BY <1>2 DEF SectionInv
  <2>2. SectionKeeps(lines, V)
    BY SectionStepType DEF SectionKeeps
  <2> QED BY <2>1, <2>2, SectionTrace
<1>4. /\ v[0] = NoSection
      /\ \A k \in 1..n : v[k] = SectionStep(lines, v[k - 1], k)
      /\ LibrarySections(lines) = FlushSection(v[n])
  BY <1>3 DEF SectionSteps
<1> DEFINE P == {k \in 0..n : SectionInv(lines, k, v[k])}
<1>5. 0 \in P
  BY <1>1, <1>2, <1>4
<1>6. \A k \in 1..n : k - 1 \in P => k \in P
  <2> TAKE k \in 1..n
  <2> HAVE k - 1 \in P
  <2>1. SectionInv(lines, k - 1, v[k - 1])
    OBVIOUS
  <2> HIDE DEF P
  <2>2. SectionInv(lines, k, SectionStep(lines, v[k - 1], k))
    BY <2>1, SectionStepSound
  <2>3. SectionInv(lines, k, v[k])
    BY <1>4, <2>2, Zenon
  <2>4. k \in 0..n
    BY <1>1
  <2> QED BY <2>3, <2>4 DEF P
<1>7. SectionInv(lines, n, v[n])
  <2> HIDE DEF P
  <2>1. 0..n \subseteq P
    BY <1>1, <1>5, <1>6, UpTo
  <2>2. n \in P
    BY <1>1, <2>1
  <2> QED BY <2>2 DEF P
<1> HIDE DEF P
<1>8. SectionsSound(lines, n, FlushSection(v[n]))
  BY <1>1, <1>7, FlushSectionSound
<1> QED
  BY <1>4, <1>8, Zenon DEF n

\* The result for an outline is its sections.
SectionsInv ==
    task.kind = "sections" =>
        /\ task.lines \in Outlines
        /\ result = <<>> \/ result = [sections |-> LibrarySections(task.lines)]

\* After split_library_sections the sections are those of the outline.
LEMMA SectionsInvariant == Spec => []SectionsInv
<1>1. Init => SectionsInv
  <2> SUFFICES ASSUME Init, task.kind = "sections"
               PROVE  task.lines \in Outlines /\ result = <<>>
    BY DEF SectionsInv
  <2>1. \/ task \in [kind : {"sections"}, lines : Outlines]
        \/ task.kind \in {"chunk", "library", "fuse", "resolve"}
    BY DEF Init
  <2> QED BY <2>1 DEF Init
<1>2. SectionsInv /\ [Next]_vars => SectionsInv'
  <2> SUFFICES ASSUME SectionsInv, [Next]_vars, task.kind = "sections", task' = task
               PROVE  /\ task.lines \in Outlines
                      /\ \/ result' = <<>>
                         \/ result' = [sections |-> LibrarySections(task.lines)]
    BY DEF SectionsInv, Next, vars, Execute, Library, Sections, Fuse, Resolve
  <2>1. CASE Sections
    BY <2>1 DEF SectionsInv, Sections
  <2>2. ASSUME Execute \/ Library \/ Fuse \/ Resolve PROVE FALSE
    BY <2>2 DEF Execute, Library, Fuse, Resolve, Pending
  <2>3. CASE UNCHANGED vars
    BY <2>3 DEF SectionsInv, vars
  <2> QED BY <2>1, <2>2, <2>3 DEF Next
<1> QED
  BY <1>1, <1>2, PTL DEF Spec

\* SectionPaths: whatever the outline, the path of a section names exactly the
\* headers that enclose it, and the sections have every other line
\* (split_library_sections).
THEOREM PathsEnclose == Spec => []SectionPaths
<1>1. SectionsInv => SectionPaths
  <2> DEFINE lines == task.lines
             ss == result.sections
             all == {ss[i] : i \in DOMAIN ss}
  <2> SUFFICES ASSUME SectionsInv, Done("sections")
               PROVE  /\ \A s \in all : s.path = Enclosing(lines, s.body[1])
                      /\ \A l \in DOMAIN lines :
                            lines[l] = 0 <=> \E s \in all : Contains(s.body, l)
    BY DEF SectionPaths
  <2>1. lines \in Seq(Nat) /\ ss = LibrarySections(lines)
    BY OutlinesAssumption DEF SectionsInv, Done
  <2> HIDE DEF lines, ss
  <2>2. SectionsSound(lines, Len(lines), ss)
    BY <2>1, LibrarySectionsSound
  <2>3. /\ DOMAIN ss = 1..Len(ss) /\ DOMAIN lines = 1..Len(lines)
        /\ \A l \in 1..Len(lines) : l <= Len(lines)
    BY <2>1, <2>2 DEF SectionsSound
  <2>4. \A s \in all : s.path = Enclosing(lines, s.body[1])
    BY <2>2, <2>3, Zenon DEF SectionsSound, Headed
  <2>5. \A l : InSections(ss, l) <=> \E s \in all : Contains(s.body, l)
    BY <2>3, Zenon DEF InSections
  <2>6. \A l \in DOMAIN lines : lines[l] = 0 <=> \E s \in all : Contains(s.body, l)
    BY <2>2, <2>3, <2>5, Zenon DEF SectionsSound
  <2> QED BY <2>4, <2>6
<1> QED
  BY <1>1, SectionsInvariant, PTL

-----------------------------------------------------------------------------
(* Positions in the text of a library section.                             *)

\* The largest of some positions.
LEMMA LargestIn ==
    ASSUME NEW n \in Nat, NEW S \in SUBSET (0..n), S # {}
    PROVE  Max(S) \in S /\ \A y \in S : y <= Max(S)
<1>1. \E x \in S : \A y \in S : x >= y
  <2>1. CASE S \ {0} = {}
    <3>1. \A y \in S : y = 0
      BY <2>1
    <3>2. 0 \in S
      BY <3>1
    <3>3. \A y \in S : 0 >= y
      <4>1. 0 >= 0
        OBVIOUS
      <4> QED BY <3>1, <4>1, Zenon
    <3> QED BY <3>2, <3>3
  <2>2. CASE S \ {0} # {}
    <3> DEFINE T == S \ {0}
    <3>1. T \in SUBSET (1..n) /\ T # {}
      BY <2>2
    <3> HIDE DEF T
    <3>2. Max(T) \in T /\ \A y \in T : y <= Max(T)
      BY <3>1, MaxIsIn
    <3>3. \A y \in S : y = 0 \/ y \in T
      BY DEF T
    <3>4. Max(T) \in S /\ Max(T) \in 1..n
      BY <3>1, <3>2 DEF T
    <3>5. \A y \in S : Max(T) >= y
      <4> TAKE y \in S
      <4>1. CASE y = 0
        BY <3>4, <4>1
      <4>2. CASE y \in T
        <5>1. y \in 1..n /\ y <= Max(T)
          BY <3>1, <3>2, <4>2
        <5> QED BY <3>4, <5>1
      <4> QED BY <3>3, <4>1, <4>2
    <3> QED BY <3>4, <3>5
  <2> QED BY <2>1, <2>2
<1> QED
  BY <1>1 DEF Max

\* The first of some positions.
LEMMA LeastIn ==
    ASSUME NEW n \in Nat, NEW S \in SUBSET (0..n), S # {}
    PROVE  Min(S) \in S /\ \A y \in S : Min(S) <= y
<1> DEFINE T == {n - x : x \in S}
<1>1. T \in SUBSET (0..n) /\ T # {}
  <2>1. \A x \in S : n - x \in 0..n
    OBVIOUS
  <2> QED BY <2>1
<1> HIDE DEF T
<1>2. Max(T) \in T /\ \A y \in T : y <= Max(T)
  BY <1>1, LargestIn
<1>3. PICK x \in S : Max(T) = n - x
  BY <1>2 DEF T
<1>4. \A y \in S : x <= y
  <2> TAKE y \in S
  <2>1. n - y <= n - x
    BY <1>2, <1>3 DEF T
  <2> QED BY <2>1
<1> QED
  BY <1>4 DEF Min

\* The smaller one of two numbers.
LEMMA LeastOfTwo ==
    ASSUME NEW a \in Int, NEW b \in Int
    PROVE  /\ Min({a, b}) \in {a, b} /\ Min({a, b}) <= a /\ Min({a, b}) <= b
<1>1. \E x \in {a, b} : \A y \in {a, b} : x <= y
  OBVIOUS
<1>2. Min({a, b}) \in {a, b} /\ \A y \in {a, b} : Min({a, b}) <= y
  BY <1>1 DEF Min
<1> QED
  BY <1>2

Text == Seq(STRING)

\* A position where a line may end.
IsLineEnd(text, p) == p = Len(text) \/ At(text, p) = "n"

\* A line ends at the first newline, or with the text.
LEMMA LineEndSound ==
    ASSUME NEW text \in Text, NEW p \in 0..Len(text)
    PROVE  /\ LineEnd(text, p) \in p..Len(text)
           /\ IsLineEnd(text, LineEnd(text, p))
           /\ LineEnd(text, p) = p \/ ~ IsLineEnd(text, p)
<1> DEFINE S == {q \in p..Len(text) : IsLineEnd(text, q)}
<1>1. Len(text) \in Nat /\ Len(text) \in S /\ p \in Nat
  BY DEF Text, IsLineEnd
<1>2. LineEnd(text, p) = Min(S)
  BY DEF LineEnd, IsLineEnd
<1>3. S \in SUBSET (0..Len(text)) /\ S # {}
  BY <1>1
<1>4. Min(S) \in S /\ \A y \in S : Min(S) <= y
  <2> HIDE DEF S
  <2> QED BY <1>1, <1>3, LeastIn
<1>5. ASSUME IsLineEnd(text, p)
      PROVE  Min(S) = p
  <2>1. p \in S
    BY <1>5
  <2> QED BY <1>1, <1>4, <2>1
<1> QED
  BY <1>2, <1>4, <1>5

BlockRecord == [start : Nat, end : Nat, type : {"table", "code_block"}]

\* A block begins with a character of a line and ends with a line.
BlockFits(text, b) ==
    /\ b \in BlockRecord
    /\ b.start <= Len(text) /\ b.end <= Len(text)
    /\ ~ IsLineEnd(text, b.start)
    /\ IsLineEnd(text, b.end)

\* Where a line begins, and where it or a later one ends, there is a place for
\* a block.
LEMMA BlockPlaced ==
    ASSUME NEW text \in Text, NEW p \in 0..Len(text), NEW q \in 0..Len(text),
           ~ IsLineEnd(text, p), IsLineEnd(text, q),
           NEW type \in {"table", "code_block"}
    PROVE  BlockFits(text, Block(p, q, type))
<1>1. Len(text) \in Nat
  BY DEF Text
<1>2. p \in Nat /\ q \in Nat /\ p <= Len(text) /\ q <= Len(text)
  BY <1>1
<1> DEFINE b == Block(p, q, type)
<1>3. b \in BlockRecord /\ b.start = p /\ b.end = q
  BY <1>2 DEF Block, BlockRecord
<1> HIDE DEF b
<1>4. BlockFits(text, b)
  BY <1>2, <1>3 DEF BlockFits
<1> QED
  BY <1>4 DEF b

\* A table line is not empty.
LEMMA TablePlaced ==
    ASSUME NEW text \in Text, NEW p \in LineStarts(text), IsTable(text, p)
    PROVE  ~ IsLineEnd(text, p)
<1>1. p \in 0..Len(text) /\ Len(text) \in Nat
  BY DEF LineStarts, Text
<1> SUFFICES ASSUME IsLineEnd(text, p) PROVE FALSE
  OBVIOUS
<1>2. LineEnd(text, p) = p
  BY <1>1, LineEndSound
<1> DEFINE r == Line(text, p)
<1>3. r.lo = p /\ r.hi = p
  BY <1>2 DEF Line
<1>4. IsTableLine(text, r)
  BY DEF IsTable
<1> HIDE DEF r
<1>5. CharsOf(text, r) = {}
  <2>1. r.lo..(r.hi - 1) = {}
    BY <1>1, <1>3
  <2> QED BY <2>1 DEF CharsOf
<1>6. ~ r.hi - r.lo >= 2
  BY <1>1, <1>3
<1> QED
  BY <1>4, <1>5, <1>6 DEF IsTableLine

\* _find_library_table_boundaries yields blocks that lie in the text.
LEMMA TablesPlaced ==
    ASSUME NEW text \in Text, NEW b \in TableBlocks(text)
    PROVE  BlockFits(text, b)
<1>1. PICK p \in LineStarts(text), q \in LineStarts(text) :
              /\ b = Block(p, LineEnd(text, q), "table") /\ p <= q
              /\ \A l \in LineStarts(text) \cap (p..q) : IsTable(text, l)
  BY DEF TableBlocks
<1>2. p \in 0..Len(text) /\ q \in 0..Len(text) /\ Len(text) \in Nat
  BY DEF LineStarts, Text
<1>3. LineEnd(text, q) \in q..Len(text) /\ IsLineEnd(text, LineEnd(text, q))
  BY <1>2, LineEndSound
<1>4. LineEnd(text, q) \in 0..Len(text)
  BY <1>2, <1>3
<1>5. p \in LineStarts(text) \cap (p..q)
  BY <1>1, <1>2
<1>6. ~ IsLineEnd(text, p)
  BY <1>1, <1>5, TablePlaced
<1> QED
  BY <1>1, <1>2, <1>3, <1>4, <1>6, BlockPlaced

NoFences == [blocks |-> {}, open |-> <<>>]

\* The steps do not leave V.
FencesKeep(text, V) ==
    \A w \in V, k \in 1..Len(text) : FenceStep(text, w, k - 1) \in V

\* What the loop over the lines leaves.
CodeOf(text, st) ==
    st.blocks \cup {Block(st.open[i], Len(text), "code_block") : i \in DOMAIN st.open}

\* _find_library_code_block_boundaries goes through states that its steps keep.
LEMMA FencesIn ==
    ASSUME NEW text \in Text, NEW V, NoFences \in V, FencesKeep(text, V)
    PROVE  \E st \in V : CodeBlocks(text) = CodeOf(text, st)
<1> DEFINE n == Len(text)
           ids == [i \in 1..n |-> i - 1]
           Step(it, S) == IF S = {} THEN NoFences
                          ELSE FenceStep(text, it[S \ {Max(S)}], ids[Max(S)])
           Eq(it) == it = [S \in SUBSET DOMAIN ids |-> Step(it, S)]
           it0 == CHOOSE it : Eq(it)
           G == [x \in (1..n) \X V |-> FenceStep(text, x[2], x[1] - 1)]
           b0 == NoFences
<1>1. CodeBlocks(text) = CodeOf(text, it0[DOMAIN ids])
  BY DEF CodeBlocks, CodeOf, FoldLeft, MapThenFoldSet, NoFences
<1>2. n \in Nat /\ DOMAIN ids = 1..n /\ \A k \in 1..n : ids[k] = k - 1
  BY DEF Text
<1>3. /\ b0 \in V
      /\ \A k \in 1..n, w \in V : FenceStep(text, w, k - 1) \in V
  BY DEF FencesKeep
<1>4. G \in [(1..n) \X V -> V]
  BY <1>3
<1>5. \A k \in 1..n, w \in V : G[<<k, w>>] = FenceStep(text, w, k - 1)
  OBVIOUS
<1> HIDE DEF G, n, b0, ids
<1>6. \E it : Eq(it)
  <2>1. PICK it \in [SUBSET (1..n) -> V] : Folds(n, b0, G, it)
    BY <1>2, <1>3, <1>4, FoldExists
  <2>2. ASSUME NEW S \in SUBSET (1..n)
        PROVE  it[S] = Step(it, S)
    <3>1. it[S] = IF S = {} THEN b0 ELSE G[<<Max(S), it[S \ {Max(S)}]>>]
      BY <2>1 DEF Folds
    <3>2. S # {} => Max(S) \in 1..n /\ it[S \ {Max(S)}] \in V
      <4> HAVE S # {}
      <4>1. Max(S) \in 1..n
        BY <1>2, MaxAndRest
      <4> QED BY <4>1
    <3> QED BY <3>1, <3>2, <1>2, <1>5 DEF b0
  <2> HIDE DEF Step
  <2>3. it = [S \in SUBSET (1..n) |-> Step(it, S)]
    BY <2>2
  <2>4. Eq(it)
    BY <2>3, <1>2
  <2> HIDE DEF Eq
  <2> QED BY <2>4
<1>7. Eq(it0)
  <2> HIDE DEF Eq
  <2> QED BY <1>6
<1> HIDE DEF it0
<1>8. it0[{}] = b0
  <2>1. {} \in SUBSET DOMAIN ids
    OBVIOUS
  <2> QED BY <1>7, <2>1 DEF b0
<1>9. \A k \in 1..n : it0[1..(k - 1)] \in V =>
                         it0[1..k] = G[<<k, it0[1..(k - 1)]>>]
  <2> TAKE k \in 1..n
  <2> HAVE it0[1..(k - 1)] \in V
  <2>1. 1..k \in SUBSET DOMAIN ids /\ k \in Nat \ {0}
    BY <1>2
  <2>2. Max(1..k) = k /\ (1..k) \ {k} = 1..(k - 1) /\ 1..k # {}
    BY <2>1, InitialSegment
  <2>3. it0[1..k] = FenceStep(text, it0[1..(k - 1)], k - 1)
    <3>1. it0[1..k] = Step(it0, 1..k)
      <4> HIDE DEF Step
      <4> QED BY <1>7, <2>1
    <3>2. ids[k] = k - 1
      BY <1>2
    <3> QED BY <2>2, <3>1, <3>2, Zenon
  <2> QED BY <2>3, <1>5
<1> HIDE DEF Eq
<1>10. Follow(n, V, b0, G, it0)
  BY <1>8, <1>9 DEF Follow
<1>11. PICK v \in [0..n -> V] : Leads(n, b0, G, it0, v)
  BY <1>2, <1>3, <1>4, <1>10, FoldSteps
<1>12. v[n] \in V /\ it0[1..n] = v[n]
  BY <1>2, <1>11 DEF Leads
<1> QED
  BY <1>1, <1>2, <1>12

\* Fences that wait are in the text, and the blocks lie in it.
FenceStates(text) ==
    {st \in [blocks : SUBSET BlockRecord, open : Seq(Nat)] :
        /\ \A b \in st.blocks : BlockFits(text, b)
        /\ \A i \in DOMAIN st.open : /\ st.open[i] \in 0..Len(text)
                                     /\ ~ IsLineEnd(text, st.open[i])}

\* A fence is a character of the text.
LEMMA FencePlaced ==
    ASSUME NEW text \in Text, NEW p \in Nat, p < Len(text), FenceOf(text, p) # {}
    PROVE  p \in 0..Len(text) /\ ~ IsLineEnd(text, p)
<1>1. Len(text) \in Nat
  BY DEF Text
<1>2. At(text, p) # "n"
  BY DEF FenceOf
<1> QED
  BY <1>1, <1>2 DEF IsLineEnd

LEMMA FenceStepKeeps ==
    ASSUME NEW text \in Text, NEW p \in Nat, p < Len(text), NEW st \in FenceStates(text)
    PROVE  FenceStep(text, st, p) \in FenceStates(text)
<1> DEFINE fence == FenceOf(text, p)
<1>1. /\ st.blocks \in SUBSET BlockRecord /\ st.open \in Seq(Nat)
      /\ st = [blocks |-> st.blocks, open |-> st.open]
      /\ \A b \in st.blocks : BlockFits(text, b)
      /\ \A i \in DOMAIN st.open : /\ st.open[i] \in 0..Len(text)
                                   /\ ~ IsLineEnd(text, st.open[i])
  BY DEF FenceStates
<1>2. CASE fence = {}
  BY <1>2 DEF FenceStep
<1>3. CASE fence # {} /\ st.open = <<>>
  <2>1. p \in 0..Len(text) /\ ~ IsLineEnd(text, p)
    BY <1>3, FencePlaced
  <2>2. FenceStep(text, st, p) = [blocks |-> st.blocks, open |-> <<p>>]
    BY <1>1, <1>3 DEF FenceStep
  <2>3. <<p>> \in Seq(Nat) /\ \A i \in DOMAIN <<p>> : <<p>>[i] = p
    OBVIOUS
  <2> QED BY <1>1, <2>1, <2>2, <2>3 DEF FenceStates
<1>4. CASE fence # {} /\ st.open # <<>>
  <2> DEFINE b == Block(st.open[1], LineEnd(text, p), "code_block")
             new == [blocks |-> st.blocks \cup {b}, open |-> <<>>]
  <2>1. FenceStep(text, st, p) = st \/ FenceStep(text, st, p) = new
    BY <1>4, Zenon DEF FenceStep
  <2>2. p \in 0..Len(text) /\ 1 \in DOMAIN st.open /\ Len(text) \in Nat
    BY <1>1, <1>4, FencePlaced DEF Text
  <2>3. LineEnd(text, p) \in 0..Len(text) /\ IsLineEnd(text, LineEnd(text, p))
    BY <2>2, LineEndSound
  <2>4. BlockFits(text, b)
    BY <1>1, <2>2, <2>3, BlockPlaced
  <2>5. b \in BlockRecord
    BY <2>4 DEF BlockFits
  <2> HIDE DEF b
  <2>6. new \in FenceStates(text)
    BY <1>1, <2>4, <2>5 DEF FenceStates
  <2> QED BY <2>1, <2>6
<1> QED
  BY <1>2, <1>3, <1>4

\* The tables and code blocks lie in the text.
LEMMA ProtectedPlaced ==
    ASSUME NEW text \in Text
    PROVE  \A b \in Protected(text) : BlockFits(text, b)
<1>1. Len(text) \in Nat
  BY DEF Text
<1>2. NoFences \in FenceStates(text)
  BY DEF NoFences, FenceStates
<1>3. FencesKeep(text, FenceStates(text))
  <2> SUFFICES ASSUME NEW w \in FenceStates(text), NEW k \in 1..Len(text)
               PROVE  FenceStep(text, w, k - 1) \in FenceStates(text)
    BY DEF FencesKeep
  <2>1. k - 1 \in Nat /\ k - 1 < Len(text)
    BY <1>1
  <2> QED BY <2>1, FenceStepKeeps
<1>4. PICK st \in FenceStates(text) : CodeBlocks(text) = CodeOf(text, st)
  BY <1>2, <1>3, FencesIn
<1>5. ASSUME NEW i \in DOMAIN st.open
      PROVE  BlockFits(text, Block(st.open[i], Len(text), "code_block"))
  <2>1. st.open[i] \in 0..Len(text) /\ ~ IsLineEnd(text, st.open[i])
    BY DEF FenceStates
  <2>2. Len(text) \in 0..Len(text) /\ IsLineEnd(text, Len(text))
    BY <1>1 DEF IsLineEnd
  <2> QED BY <2>1, <2>2, BlockPlaced
<1>6. \A b \in CodeBlocks(text) : BlockFits(text, b)
  BY <1>4, <1>5 DEF CodeOf, FenceStates
<1> QED
  BY <1>6, TablesPlaced DEF Protected

-----------------------------------------------------------------------------
(* Where a library text is cut.                                            *)

\* The first block is one of the blocks.
LEMMA FirstBlockIn ==
    ASSUME NEW n \in Nat, NEW blocks, blocks # {},
           \A b \in blocks : b.start \in 0..n /\ b.end \in 0..n
    PROVE  FirstBlock(blocks) \in blocks
<1> DEFINE starts == {b.start : b \in blocks}
           start == Min(starts)
           firsts == {c \in blocks : c.start = start}
           ends == {b.end : b \in firsts}
           end == Min(ends)
           first == {b \in blocks : b.start = start /\ b.end = end}
<1>1. starts \in SUBSET (0..n) /\ starts # {}
  OBVIOUS
<1>2. start \in starts
  <2> HIDE DEF starts
  <2> QED BY <1>1, LeastIn
<1>3. firsts # {}
  BY <1>2
<1>4. ends \in SUBSET (0..n) /\ ends # {}
  <2> HIDE DEF start
  <2> QED BY <1>3
<1>5. end \in ends
  <2> HIDE DEF ends
  <2> QED BY <1>4, LeastIn
<1>6. first # {}
  <2> HIDE DEF start, end
  <2> QED BY <1>5
<1>7. FirstBlock(blocks)
        = CHOOSE b \in first : b.type = "table" \/ \A c \in first : c.type # "table"
  BY DEF FirstBlock
<1>8. first \subseteq blocks
  OBVIOUS
<1> HIDE DEF first
<1>9. \E b \in first : b.type = "table" \/ \A c \in first : c.type # "table"
  BY <1>6
<1> QED
  BY <1>7, <1>8, <1>9

\* A natural break is no further up than where it is looked for.
LEMMA NaturalBreakSound ==
    ASSUME NEW text \in Text, NEW target \in 0..Len(text)
    PROVE  NaturalBreak(text, target) \in target..Len(text)
<1> DEFINE n == Len(text)
           end == Min({n, target + BreakRange})
           range == target..(end - 1)
           breaks == {p \in range : BreakEnd(text, p) # 0}
           newlines == {p \in range : At(text, p) = "n"}
<1>1. n \in Nat /\ BreakRange \in Nat /\ target \in Nat
  BY LibraryAssumption DEF Text
<1>2. end \in 0..n
  <2> DEFINE m == target + BreakRange
  <2>1. m \in Nat
    BY <1>1
  <2> HIDE DEF n, m
  <2>2. Min({n, m}) \in {n, m} /\ Min({n, m}) <= n
    BY <1>1, <2>1, LeastOfTwo
  <2>3. Min({n, m}) \in 0..n
    BY <1>1, <2>1, <2>2
  <2> QED BY <2>3 DEF m
<1>3. range \in SUBSET (0..n) /\ \A p \in range : p \in target..(n - 1)
  <2> HIDE DEF end, n
  <2> QED BY <1>1, <1>2
<1>4. NaturalBreak(text, target) = IF breaks # {} THEN BreakEnd(text, Min(breaks))
                                   ELSE IF newlines # {} THEN Min(newlines) + 1
                                   ELSE target
  BY DEF NaturalBreak
<1> HIDE DEF range
<1>5. ASSUME breaks # {}
      PROVE  BreakEnd(text, Min(breaks)) \in target..n
  <2>1. breaks \in SUBSET (0..n)
    BY <1>3
  <2> DEFINE p == Min(breaks)
  <2>2. p \in breaks
    <3> HIDE DEF breaks, n
    <3> QED BY <1>1, <1>5, <2>1, LeastIn
  <2>3. p \in target..(n - 1) /\ BreakEnd(text, p) # 0
    BY <1>3, <2>2
  <2> HIDE DEF p, n
  <2> QED BY <1>1, <2>3 DEF BreakEnd, n, p
<1>6. ASSUME newlines # {}
      PROVE  Min(newlines) + 1 \in target..n
  <2>1. newlines \in SUBSET (0..n)
    BY <1>3
  <2> DEFINE p == Min(newlines)
  <2>2. p \in newlines
    <3> HIDE DEF newlines, n
    <3> QED BY <1>1, <1>6, <2>1, LeastIn
  <2>3. p \in target..(n - 1)
    BY <1>3, <2>2
  <2> HIDE DEF p, n
  <2> QED BY <1>1, <2>3 DEF p
<1> HIDE DEF breaks, newlines
<1> QED
  BY <1>1, <1>4, <1>5, <1>6

\* The target moves behind blocks, if at all.
LEMMA BehindSound ==
    ASSUME NEW text \in Text, NEW start \in Nat, NEW target \in 0..Len(text), NEW blocks,
           \A b \in blocks : BlockFits(text, b)
    PROVE  BehindBlocks(text, start, target, blocks) \in target..Len(text)
<1> DEFINE n == Len(text)
           E(b) == Min({b.end + 1, n})
           met == {c \in blocks : c.end >= start /\ c.start <= target}
           T == {target} \cup {E(b) : b \in met}
<1>1. n \in Nat /\ target \in Nat
  BY DEF Text
<1>2. ASSUME NEW b \in met PROVE E(b) \in 0..n
  <2>1. b.end \in Nat
    BY DEF BlockFits, BlockRecord
  <2> DEFINE m == b.end + 1
  <2>2. m \in Nat
    BY <2>1
  <2> HIDE DEF n, m
  <2>3. Min({m, n}) \in {m, n} /\ Min({m, n}) <= n
    <3>1. m \in Int /\ n \in Int
      BY <1>1, <2>2
    <3> QED BY <3>1, LeastOfTwo, Zenon
  <2>4. Min({m, n}) \in 0..n
    BY <1>1, <2>2, <2>3
  <2> QED BY <2>4 DEF m
<1>3. T \in SUBSET (0..n) /\ T # {} /\ target \in T
  <2> HIDE DEF E, met
  <2> QED BY <1>2
<1>4. Max(T) \in T /\ \A y \in T : y <= Max(T)
  <2> HIDE DEF T, n
  <2> QED BY <1>1, <1>3, LargestIn
<1>5. BehindBlocks(text, start, target, blocks) = Max(T)
  BY DEF BehindBlocks
<1>6. Max(T) \in 0..n /\ target <= Max(T)
  <2> HIDE DEF T, n
  <2> QED BY <1>3, <1>4
<1> HIDE DEF T, n
<1>7. Max(T) \in target..n
  BY <1>1, <1>6
<1> QED
  BY <1>5, <1>7 DEF n

\* A slice: where it begins, and where it should end.
Slice(text, start, maxChars) ==
    /\ start \in Nat /\ maxChars \in Nat \ {0}
    /\ start < Len(text)

SliceEnd(text, start, maxChars) == Min({start + maxChars, Len(text)})

\* The blocks that the end of a slice lies in.
Hit(text, start, maxChars, blocks) ==
    LET target == SliceEnd(text, start, maxChars) IN
    {b \in blocks : b.start <= target /\ target <= b.end}

\* The end of a slice is behind its beginning.
LEMMA SliceEndSound ==
    ASSUME NEW text \in Text, NEW start, NEW maxChars, Slice(text, start, maxChars)
    PROVE  LET target == SliceEnd(text, start, maxChars) IN
           /\ target \in 0..Len(text)
           /\ start < target /\ target <= start + maxChars
           /\ target = start + maxChars \/ target = Len(text)
<1> DEFINE n == Len(text)
           m == start + maxChars
<1>1. n \in Nat /\ m \in Nat /\ start < n /\ start < m /\ start \in Nat
  BY DEF Text, Slice
<1>2. SliceEnd(text, start, maxChars) = Min({m, n})
  BY DEF SliceEnd
<1> HIDE DEF n, m
<1>3. Min({m, n}) \in {m, n} /\ Min({m, n}) <= n /\ Min({m, n}) <= m
  BY <1>1, LeastOfTwo
<1>4. /\ Min({m, n}) \in 0..n /\ start < Min({m, n})
      /\ Min({m, n}) = m \/ Min({m, n}) = n
  BY <1>1, <1>3
<1> QED
  BY <1>2, <1>3, <1>4 DEF n, m

\* A cut at a block that is no table over the maximum is behind it, and another
\* one is as far from the start as such tables allow, or behind the table.
CutOf(text, start, d, pos) ==
    \/ /\ ~ TooLong(d)
       /\ d.end <= pos /\ pos <= d.end + 1
    \/ /\ TooLong(d)
       /\ pos = start + MaxTable \/ pos = d.end
       /\ pos <= d.end

\* A cut at a block that a slice ends in.
LEMMA CutAtBlockSound ==
    ASSUME NEW text \in Text, NEW start, NEW maxChars, Slice(text, start, maxChars),
           NEW d, BlockFits(text, d), SliceEnd(text, start, maxChars) <= d.end
    PROVE  LET pos == CutAtBlock(text, start, d) IN
           /\ pos \in (start + 1)..Len(text)
           /\ CutOf(text, start, d, pos)
<1> DEFINE n == Len(text)
           pos == CutAtBlock(text, start, d)
           target == SliceEnd(text, start, maxChars)
<1>1. /\ target \in 0..n /\ start < target /\ target <= start + maxChars
      /\ target = start + maxChars \/ target = n
  BY SliceEndSound
<1>2. n \in Nat /\ start \in Nat /\ MaxTable \in Nat \ {0} /\ start < n
  BY LibraryAssumption DEF Text, Slice
<1>3. d.end \in Nat /\ d.end <= n /\ start < d.end
  <2>1. d.end \in Nat /\ d.end <= n
    BY DEF BlockFits, BlockRecord
  <2> QED BY <1>1, <1>2, <2>1
<1>4. CASE TooLong(d)
  <2> DEFINE m == start + MaxTable
  <2>1. pos = Min({m, d.end})
    BY <1>4 DEF CutAtBlock, TooLong
  <2>2. m \in Nat /\ start < m
    BY <1>2
  <2> HIDE DEF m, n, pos
  <2>3. Min({m, d.end}) \in {m, d.end} /\ Min({m, d.end}) <= d.end
    <3>1. m \in Int /\ d.end \in Int
      BY <1>3, <2>2
    <3> QED BY <3>1, LeastOfTwo, Zenon
  <2>4. pos \in (start + 1)..n /\ (pos = m \/ pos = d.end) /\ pos <= d.end
    BY <1>2, <1>3, <2>1, <2>2, <2>3
  <2> QED BY <1>4, <2>4 DEF CutOf, m, n, pos
<1>5. CASE ~ TooLong(d)
  <2> DEFINE m == d.end + 1
  <2>1. pos = Min({m, n})
    BY <1>5 DEF CutAtBlock, TooLong
  <2>2. m \in Nat /\ m = d.end + 1
    BY <1>3
  <2> HIDE DEF m, n, pos
  <2>3. Min({m, n}) \in {m, n} /\ Min({m, n}) <= n /\ Min({m, n}) <= m
    <3>1. m \in Int /\ n \in Int
      BY <1>2, <2>2
    <3> QED BY <3>1, LeastOfTwo, Zenon
  <2>4. pos \in (start + 1)..n /\ d.end <= pos /\ pos <= d.end + 1
    BY <1>2, <1>3, <2>1, <2>2, <2>3
  <2> QED BY <1>5, <2>4 DEF CutOf, n, pos
<1> QED
  BY <1>4, <1>5

\* Where a slice is cut: at a block that it ends in, or else no further up than
\* it ends; always behind its beginning.
LEMMA NextSplitSound ==
    ASSUME NEW text \in Text, NEW start, NEW maxChars, Slice(text, start, maxChars),
           NEW blocks, \A b \in blocks : BlockFits(text, b)
    PROVE  LET pos == NextSplit(text, start, maxChars, blocks)
               hit == Hit(text, start, maxChars, blocks) IN
           /\ pos \in (start + 1)..Len(text)
           /\ \/ \E d \in hit : CutOf(text, start, d, pos)
              \/ hit = {} /\ SliceEnd(text, start, maxChars) <= pos
<1> DEFINE n == Len(text)
           target == SliceEnd(text, start, maxChars)
           hit == Hit(text, start, maxChars, blocks)
           safe == SafeSplit(text, start, maxChars, blocks)
<1>1. /\ target \in 0..n /\ start < target /\ target <= start + maxChars
      /\ target = start + maxChars \/ target = n
  BY SliceEndSound
<1>2. n \in Nat /\ start \in Nat /\ start < n
  BY DEF Text, Slice
<1>3. safe = IF hit # {} THEN CutAtBlock(text, start, FirstBlock(hit))
             ELSE NaturalBreak(text, BehindBlocks(text, start, target, blocks))
  BY DEF SafeSplit, Hit, SliceEnd
<1>4. \A b \in hit : b \in blocks /\ BlockFits(text, b) /\ target <= b.end
  BY DEF Hit
<1>5. ASSUME hit # {}
      PROVE  /\ safe \in (start + 1)..n
             /\ \E d \in hit : CutOf(text, start, d, safe)
  <2> DEFINE d == FirstBlock(hit)
  <2>1. d \in hit
    <3>1. \A b \in hit : b.start \in 0..n /\ b.end \in 0..n
      BY <1>2, <1>4 DEF BlockFits, BlockRecord
    <3> HIDE DEF hit, n
    <3> QED BY <1>2, <1>5, <3>1, FirstBlockIn
  <2> HIDE DEF d, hit
  <2>2. BlockFits(text, d) /\ target <= d.end
    BY <1>4, <2>1
  <2>3. /\ CutAtBlock(text, start, d) \in (start + 1)..n
        /\ CutOf(text, start, d, CutAtBlock(text, start, d))
    BY <2>2, CutAtBlockSound
  <2>4. safe = CutAtBlock(text, start, d)
    BY <1>3, <1>5 DEF d
  <2> QED BY <2>1, <2>3, <2>4
<1>6. ASSUME hit = {}
      PROVE  safe \in (start + 1)..n /\ target <= safe
  <2> DEFINE behind == BehindBlocks(text, start, target, blocks)
  <2>1. behind \in target..n
    BY <1>1, <1>2, BehindSound
  <2>2. behind \in 0..n
    <3> HIDE DEF behind, target
    <3> QED BY <1>1, <1>2, <2>1
  <2>3. NaturalBreak(text, behind) \in behind..n
    <3> HIDE DEF behind
    <3> QED BY <2>2, NaturalBreakSound
  <2>4. safe = NaturalBreak(text, behind)
    BY <1>3, <1>6
  <2> HIDE DEF behind, safe, target, n
  <2> QED BY <1>1, <1>2, <2>1, <2>3, <2>4
<1>7. safe \in (start + 1)..n
  BY <1>5, <1>6
<1>8. NextSplit(text, start, maxChars, blocks) = safe
  <2>1. ~ safe <= start
    <3> HIDE DEF safe, n
    <3> QED BY <1>2, <1>7
  <2> QED BY <2>1 DEF NextSplit
<1> HIDE DEF safe, hit, target
<1>9. \/ \E d \in hit : CutOf(text, start, d, safe)
      \/ hit = {} /\ target <= safe
  BY <1>5, <1>6
<1> QED
  BY <1>7, <1>8, <1>9, Zenon DEF hit, target

\* A cut is in a block only where the search gives up.
GivesUp(blocks, start, maxChars, pos, b) ==
    \/ TooLong(b)
    \/ \E d \in blocks \ {b} : d.start < b.end /\ b.start < d.end
    \/ b.start > start + maxChars
    \/ /\ pos = start + MaxTable
       /\ \E d \in blocks : TooLong(d) /\ pos < d.start

\* Blocks do not touch: one begins with a character, and another ends with a
\* newline or the text.
LEMMA BlocksKept ==
    ASSUME NEW text \in Text, NEW start, NEW maxChars, Slice(text, start, maxChars),
           NEW blocks, \A b \in blocks : BlockFits(text, b),
           NEW b \in blocks,
           b.start < NextSplit(text, start, maxChars, blocks),
           NextSplit(text, start, maxChars, blocks) < b.end
    PROVE  GivesUp(blocks, start, maxChars, NextSplit(text, start, maxChars, blocks), b)
<1> DEFINE n == Len(text)
           target == SliceEnd(text, start, maxChars)
           hit == Hit(text, start, maxChars, blocks)
           pos == NextSplit(text, start, maxChars, blocks)
<1>1. /\ pos \in (start + 1)..n
      /\ (\E d \in hit : CutOf(text, start, d, pos)) \/ (hit = {} /\ target <= pos)
  BY NextSplitSound
<1>2. /\ target \in 0..n /\ start < target /\ target <= start + maxChars
      /\ target = start + maxChars \/ target = n
  BY SliceEndSound
<1>3. n \in Nat /\ start \in Nat /\ maxChars \in Nat /\ MaxTable \in Nat
  BY LibraryAssumption DEF Text, Slice
<1>4. /\ \A d \in blocks : d.start \in Nat /\ d.end \in Nat /\ d.start <= n /\ d.end <= n
      /\ \A d \in blocks : d.start # b.end /\ b.start # d.end
  <2>1. \A d \in blocks : d.start \in Nat /\ d.end \in Nat /\ d.start <= n /\ d.end <= n
    BY DEF BlockFits, BlockRecord
  <2>2. \A d \in blocks : ~ IsLineEnd(text, d.start) /\ IsLineEnd(text, d.end)
    BY DEF BlockFits
  <2> QED BY <2>1, <2>2
<1>5. /\ \A d \in hit : d \in blocks /\ d.start <= target /\ target <= d.end
      /\ \A d \in blocks : d \in hit <=> d.start <= target /\ target <= d.end
  BY DEF Hit
<1>6. pos \in Nat /\ b.start < pos /\ pos < b.end
  <2>1. b.start < pos /\ pos < b.end
    OBVIOUS
  <2> HIDE DEF pos, n
  <2> QED BY <1>1, <1>3, <2>1
<1> HIDE DEF hit, target, n
<1>7. ASSUME NEW d \in hit, CutOf(text, start, d, pos)
      PROVE  GivesUp(blocks, start, maxChars, pos, b)
  <2>1. /\ d \in blocks /\ d.start <= target /\ target <= d.end
        /\ d.start \in Nat /\ d.end \in Nat /\ b.start \in Nat /\ b.end \in Nat
        /\ b.start # d.end /\ target \in Nat
    BY <1>2, <1>4, <1>5
  <2> HIDE DEF pos
  <2>2. CASE d = b
    <3>1. TooLong(b) \/ b.end <= pos
      BY <1>7, <2>2 DEF CutOf
    <3>2. TooLong(b)
      BY <1>6, <2>1, <3>1
    <3> QED BY <3>2 DEF GivesUp
  <2>3. CASE d # b /\ ~ TooLong(d)
    <3>1. d.end <= pos /\ pos <= d.end + 1
      BY <1>7, <2>3 DEF CutOf
    <3>2. d.start < b.end /\ b.start < d.end
      BY <1>6, <2>1, <3>1
    <3> QED BY <2>1, <2>3, <3>2 DEF GivesUp
  <2>4. CASE d # b /\ TooLong(d)
    <3>1. (pos = start + MaxTable \/ pos = d.end) /\ pos <= d.end
      BY <1>7, <2>4 DEF CutOf
    <3>2. b.start < d.end
      BY <1>6, <2>1, <3>1
    <3>3. CASE d.start < b.end
      BY <2>1, <2>4, <3>2, <3>3 DEF GivesUp
    <3>4. CASE ~ d.start < b.end
      <4>1. pos < d.start /\ d.start <= d.end
        BY <1>6, <2>1, <3>4
      <4>2. pos = start + MaxTable
        BY <1>6, <2>1, <3>1, <4>1
      <4> QED BY <2>1, <2>4, <4>1, <4>2 DEF GivesUp
    <3> QED BY <3>3, <3>4
  <2> QED BY <2>2, <2>3, <2>4
<1>8. ASSUME hit = {}, target <= pos
      PROVE  GivesUp(blocks, start, maxChars, pos, b)
  <2>1. ~ (b.start <= target /\ target <= b.end)
    BY <1>5, <1>8
  <2>2. b.start \in Nat /\ b.end \in Nat /\ b.start <= n /\ target \in Nat
    BY <1>2, <1>4
  <2> HIDE DEF pos
  <2>3. b.start > start + maxChars
    BY <1>2, <1>3, <1>6, <1>8, <2>1, <2>2
  <2> QED BY <2>3 DEF GivesUp
<1> QED
  BY <1>1, <1>7, <1>8

\* The steps do not leave V.
CutsKeep(text, maxChars, blocks, V) ==
    \A w \in V : CutStep(text, maxChars, blocks, w) \in V

\* The loop that cuts goes through the steps v.
CutSteps(text, maxChars, blocks, v) ==
    /\ v[0] = << 0 >>
    /\ \A k \in 1..Len(text) : v[k] = CutStep(text, maxChars, blocks, v[k - 1])
    /\ Cuts(text, maxChars, blocks) = v[Len(text)]

\* The loop cuts once for each character at most.
LEMMA CutTrace ==
    ASSUME NEW text \in Text, NEW maxChars, NEW blocks,
           NEW V, << 0 >> \in V, CutsKeep(text, maxChars, blocks, V)
    PROVE  \E v \in [0..Len(text) -> V] : CutSteps(text, maxChars, blocks, v)
<1> DEFINE n == Len(text)
           ids == [i \in 1..n |-> i]
           Step(it, S) == IF S = {} THEN << 0 >>
                          ELSE CutStep(text, maxChars, blocks, it[S \ {Max(S)}])
           Eq(it) == it = [S \in SUBSET DOMAIN ids |-> Step(it, S)]
           it0 == CHOOSE it : Eq(it)
           G == [x \in (1..n) \X V |-> CutStep(text, maxChars, blocks, x[2])]
           b0 == << 0 >>
<1>1. Cuts(text, maxChars, blocks) = it0[DOMAIN ids]
  BY DEF Cuts, FoldLeft, MapThenFoldSet
<1>2. n \in Nat /\ DOMAIN ids = 1..n
  BY DEF Text
<1>3. /\ b0 \in V
      /\ \A w \in V : CutStep(text, maxChars, blocks, w) \in V
  BY DEF CutsKeep
<1>4. G \in [(1..n) \X V -> V]
  BY <1>3
<1>5. \A k \in 1..n, w \in V : G[<<k, w>>] = CutStep(text, maxChars, blocks, w)
  OBVIOUS
<1> HIDE DEF G, n, b0, ids
<1>6. \E it : Eq(it)
  <2>1. PICK it \in [SUBSET (1..n) -> V] : Folds(n, b0, G, it)
    BY <1>2, <1>3, <1>4, FoldExists
  <2>2. ASSUME NEW S \in SUBSET (1..n)
        PROVE  it[S] = Step(it, S)
    <3>1. it[S] = IF S = {} THEN b0 ELSE G[<<Max(S), it[S \ {Max(S)}]>>]
      BY <2>1 DEF Folds
    <3>2. S # {} => Max(S) \in 1..n /\ it[S \ {Max(S)}] \in V
      <4> HAVE S # {}
      <4>1. Max(S) \in 1..n
        BY <1>2, MaxAndRest
      <4> QED BY <4>1
    <3> QED BY <3>1, <3>2, <1>2, <1>5 DEF b0
  <2> HIDE DEF Step
  <2>3. it = [S \in SUBSET (1..n) |-> Step(it, S)]
    BY <2>2
  <2>4. Eq(it)
    BY <2>3, <1>2
  <2> HIDE DEF Eq
  <2> QED BY <2>4
<1>7. Eq(it0)
  <2> HIDE DEF Eq
  <2> QED BY <1>6
<1> HIDE DEF it0
<1>8. it0[{}] = b0
  <2>1. {} \in SUBSET DOMAIN ids
    OBVIOUS
  <2> QED BY <1>7, <2>1 DEF b0
<1>9. \A k \in 1..n : it0[1..(k - 1)] \in V =>
                         it0[1..k] = G[<<k, it0[1..(k - 1)]>>]
  <2> TAKE k \in 1..n
  <2> HAVE it0[1..(k - 1)] \in V
  <2>1. 1..k \in SUBSET DOMAIN ids /\ k \in Nat \ {0}
    BY <1>2
  <2>2. Max(1..k) = k /\ (1..k) \ {k} = 1..(k - 1) /\ 1..k # {}
    BY <2>1, InitialSegment
  <2>3. it0[1..k] = CutStep(text, maxChars, blocks, it0[1..(k - 1)])
    <3>1. it0[1..k] = Step(it0, 1..k)
      <4> HIDE DEF Step
      <4> QED BY <1>7, <2>1
    <3> QED BY <2>2, <3>1, Zenon
  <2> QED BY <2>3, <1>5
<1> HIDE DEF Eq
<1>10. Follow(n, V, b0, G, it0)
  BY <1>8, <1>9 DEF Follow
<1>11. PICK v \in [0..n -> V] : Leads(n, b0, G, it0, v)
  BY <1>2, <1>3, <1>4, <1>10, FoldSteps
<1>12. ASSUME NEW k \in 1..n PROVE v[k] = CutStep(text, maxChars, blocks, v[k - 1])
  <2>1. v[k] = G[<<k, v[k - 1]>>]
    BY <1>11 DEF Leads, Trace
  <2>2. v[k - 1] \in V
    BY <1>2
  <2> QED BY <2>1, <2>2, <1>5
<1>13. it0[1..n] = v[n] /\ v[0] = << 0 >>
  BY <1>11 DEF Leads, Trace, b0
<1>14. Cuts(text, maxChars, blocks) = v[n]
  BY <1>1, <1>2, <1>13
<1> QED
  BY <1>12, <1>13, <1>14 DEF n, CutSteps

\* The cuts begin with 0 and move on, each from the one before it.
CutSeqs(text, maxChars, blocks) ==
    {c \in Seq(0..Len(text)) :
        /\ Len(c) \in Nat \ {0} /\ c[1] = 0
        /\ \A i \in 1..(Len(c) - 1) :
              /\ c[i] < c[i + 1] /\ c[i] < Len(text)
              /\ c[i + 1] = NextSplit(text, c[i], maxChars, blocks)}

\* A cut more, if the text goes on.
LEMMA CutStepSound ==
    ASSUME NEW text \in Text, NEW maxChars \in Nat \ {0},
           NEW blocks, \A b \in blocks : BlockFits(text, b),
           NEW c \in CutSeqs(text, maxChars, blocks)
    PROVE  LET new == CutStep(text, maxChars, blocks, c) IN
           /\ new \in CutSeqs(text, maxChars, blocks)
           /\ new[Len(new)] = Len(text) \/ c[Len(c)] < new[Len(new)]
<1> DEFINE n == Len(text)
           m == Len(c)
           last == c[m]
           pos == NextSplit(text, last, maxChars, blocks)
           new == CutStep(text, maxChars, blocks, c)
<1>1. /\ c \in Seq(0..n) /\ m \in Nat \ {0} /\ c[1] = 0
      /\ \A i \in 1..(m - 1) : /\ c[i] < c[i + 1] /\ c[i] < n
                               /\ c[i + 1] = NextSplit(text, c[i], maxChars, blocks)
  BY DEF CutSeqs
<1>2. n \in Nat /\ m \in 1..m /\ last \in 0..n
  <2>1. n \in Nat /\ m \in 1..m
    BY <1>1 DEF Text
  <2> QED BY <1>1, <2>1, ElementOf
<1>3. CASE last >= n
  <2>1. new = c
    BY <1>3 DEF CutStep, Last
  <2>2. last = n
    <3> HIDE DEF last, n
    <3> QED BY <1>2, <1>3
  <2> QED BY <2>1, <2>2
<1>4. CASE ~ last >= n
  <2>1. new = Append(c, pos)
    BY <1>4 DEF CutStep, Last
  <2>2. last \in Nat /\ last < n
    <3> HIDE DEF last, n
    <3> QED BY <1>2, <1>4
  <2>3. Slice(text, last, maxChars)
    BY <2>2 DEF Slice
  <2>4. pos \in (last + 1)..n
    BY <2>3, NextSplitSound
  <2>5. pos \in 0..n /\ last < pos
    <3> HIDE DEF pos, last, n
    <3> QED BY <1>2, <2>2, <2>4
  <2> HIDE DEF pos, new
  <2>6. /\ new \in Seq(0..n) /\ Len(new) = m + 1 /\ new[m + 1] = pos
        /\ \A i \in 1..m : new[i] = c[i]
    BY <1>1, <2>1, <2>5, Appended
  <2>7. ASSUME NEW i \in 1..(Len(new) - 1)
        PROVE  /\ new[i] < new[i + 1] /\ new[i] < n
               /\ new[i + 1] = NextSplit(text, new[i], maxChars, blocks)
    <3>1. CASE i = m
      BY <1>2, <2>2, <2>5, <2>6, <3>1 DEF pos
    <3>2. CASE i # m
      <4>1. i \in 1..(m - 1) /\ i \in 1..m /\ i + 1 \in 1..m
        <5> HIDE DEF m
        <5> QED BY <1>1, <2>6, <3>2
      <4>2. new[i] = c[i] /\ new[i + 1] = c[i + 1]
        BY <2>6, <4>1
      <4> QED BY <1>1, <4>1, <4>2
    <3> QED BY <3>1, <3>2
  <2>8. 1 \in 1..m /\ m + 1 \in Nat \ {0}
    BY <1>1
  <2>9. new \in CutSeqs(text, maxChars, blocks)
    BY <1>1, <2>6, <2>7, <2>8 DEF CutSeqs
  <2>10. last < new[Len(new)]
    BY <2>5, <2>6
  <2> QED BY <2>9, <2>10 DEF new
<1> QED
  BY <1>3, <1>4

\* The cuts end with the text.
LEMMA CutsSound ==
    ASSUME NEW text \in Text, NEW maxChars \in Nat \ {0},
           NEW blocks, \A b \in blocks : BlockFits(text, b)
    PROVE  LET cuts == Cuts(text, maxChars, blocks) IN
           /\ cuts \in CutSeqs(text, maxChars, blocks)
           /\ cuts[Len(cuts)] = Len(text)
<1> DEFINE n == Len(text)
           V == CutSeqs(text, maxChars, blocks)
<1>1. n \in Nat
  BY DEF Text
<1>2. << 0 >> \in V
  <2>1. << 0 >> \in Seq(0..Len(text)) /\ Len(<< 0 >>) = 1 /\ << 0 >>[1] = 0
    BY <1>1
  <2>2. 1..(1 - 1) = {} /\ 1 \in Nat \ {0}
    OBVIOUS
  <2> QED BY <2>1, <2>2 DEF CutSeqs
<1>3. CutsKeep(text, maxChars, blocks, V)
  BY CutStepSound DEF CutsKeep
<1> HIDE DEF V
<1>4. PICK v \in [0..n -> V] : CutSteps(text, maxChars, blocks, v)
  BY <1>2, <1>3, CutTrace
<1>5. /\ v[0] = << 0 >>
      /\ \A k \in 1..n : v[k] = CutStep(text, maxChars, blocks, v[k - 1])
      /\ Cuts(text, maxChars, blocks) = v[n]
  BY <1>4 DEF CutSteps
<1> DEFINE end(k) == v[k][Len(v[k])]
           P == {k \in 0..n : k <= end(k)}
<1>6. \A k \in 0..n : v[k] \in V /\ end(k) \in 0..n
  <2> TAKE k \in 0..n
  <2>1. v[k] \in V
    OBVIOUS
  <2>2. v[k] \in Seq(0..n) /\ Len(v[k]) \in Nat \ {0}
    BY <2>1 DEF V, CutSeqs
  <2>3. Len(v[k]) \in 1..Len(v[k])
    BY <2>2
  <2> QED BY <2>1, <2>2, <2>3, ElementOf
<1>7. 0 \in P
  <2>1. 0 \in 0..n
    BY <1>1
  <2>2. end(0) \in 0..n
    BY <1>6, <2>1
  <2> QED BY <1>1, <2>1, <2>2
<1>8. \A k \in 1..n : k - 1 \in P => k \in P
  <2> TAKE k \in 1..n
  <2> HAVE k - 1 \in P
  <2>1. k \in 0..n /\ k - 1 \in 0..n
    BY <1>1
  <2>2. v[k - 1] \in V /\ end(k) \in 0..n /\ end(k - 1) \in 0..n
    BY <1>6, <2>1
  <2>3. end(k) = n \/ end(k - 1) < end(k)
    <3>1. LET new == CutStep(text, maxChars, blocks, v[k - 1]) IN
          new[Len(new)] = n \/ end(k - 1) < new[Len(new)]
      BY <2>2, CutStepSound DEF V
    <3> QED BY <1>5, <3>1
  <2>4. k - 1 <= end(k - 1)
    OBVIOUS
  <2> HIDE DEF P, end, n
  <2>5. k <= end(k)
    BY <1>1, <2>1, <2>2, <2>3, <2>4
  <2> QED BY <2>1, <2>5 DEF P
<1>9. end(n) = n
  <2>1. n \in 0..n
    BY <1>1
  <2>2. n \in P
    <3> HIDE DEF P
    <3>1. 0..n \subseteq P
      BY <1>1, <1>7, <1>8, UpTo
    <3> QED BY <2>1, <3>1
  <2>3. end(n) \in 0..n /\ n <= end(n)
    BY <1>6, <2>1, <2>2
  <2> HIDE DEF end, P, n
  <2> QED BY <1>1, <2>3
<1> QED
  BY <1>1, <1>5, <1>6, <1>9 DEF V

-----------------------------------------------------------------------------
(* What is between two cuts.                                               *)

\* The pieces between the cuts, stripped and merged.
Pieces(text, cuts) ==
    FoldLeft(LAMBDA out, i : PieceStep(text, cuts, out, i),
             <<>>, [i \in 1..(Len(cuts) - 1) |-> i])

\* The steps do not leave V.
PiecesKeep(text, cuts, V) ==
    \A w \in V, k \in 1..(Len(cuts) - 1) : PieceStep(text, cuts, w, k) \in V

\* The loop over the pieces goes through the steps v.
PieceSteps(text, cuts, v) ==
    /\ v[0] = <<>>
    /\ \A k \in 1..(Len(cuts) - 1) : v[k] = PieceStep(text, cuts, v[k - 1], k)
    /\ Pieces(text, cuts) = v[Len(cuts) - 1]

\* _merge_library_split_chunks goes through the pieces in turn.
LEMMA PieceTrace ==
    ASSUME NEW text \in Text, NEW cuts, Len(cuts) - 1 \in Nat,
           NEW V, <<>> \in V, PiecesKeep(text, cuts, V)
    PROVE  \E v \in [0..(Len(cuts) - 1) -> V] : PieceSteps(text, cuts, v)
<1> DEFINE n == Len(cuts) - 1
           ids == [i \in 1..n |-> i]
           Step(it, S) == IF S = {} THEN <<>>
                          ELSE PieceStep(text, cuts, it[S \ {Max(S)}], ids[Max(S)])
           Eq(it) == it = [S \in SUBSET DOMAIN ids |-> Step(it, S)]
           it0 == CHOOSE it : Eq(it)
           G == [x \in (1..n) \X V |-> PieceStep(text, cuts, x[2], x[1])]
           b0 == <<>>
<1>1. Pieces(text, cuts) = it0[DOMAIN ids]
  BY DEF Pieces, FoldLeft, MapThenFoldSet
<1>2. n \in Nat /\ DOMAIN ids = 1..n /\ \A k \in 1..n : ids[k] = k
  OBVIOUS
<1>3. /\ b0 \in V
      /\ \A k \in 1..n, w \in V : PieceStep(text, cuts, w, k) \in V
  BY DEF PiecesKeep
<1>4. G \in [(1..n) \X V -> V]
  BY <1>3
<1>5. \A k \in 1..n, w \in V : G[<<k, w>>] = PieceStep(text, cuts, w, k)
  OBVIOUS
<1> HIDE DEF G, n, b0, ids
<1>6. \E it : Eq(it)
  <2>1. PICK it \in [SUBSET (1..n) -> V] : Folds(n, b0, G, it)
    BY <1>2, <1>3, <1>4, FoldExists
  <2>2. ASSUME NEW S \in SUBSET (1..n)
        PROVE  it[S] = Step(it, S)
    <3>1. it[S] = IF S = {} THEN b0 ELSE G[<<Max(S), it[S \ {Max(S)}]>>]
      BY <2>1 DEF Folds
    <3>2. S # {} => Max(S) \in 1..n /\ it[S \ {Max(S)}] \in V
      <4> HAVE S # {}
      <4>1. Max(S) \in 1..n
        BY <1>2, MaxAndRest
      <4> QED BY <4>1
    <3> QED BY <3>1, <3>2, <1>2, <1>5 DEF b0
  <2> HIDE DEF Step
  <2>3. it = [S \in SUBSET (1..n) |-> Step(it, S)]
    BY <2>2
  <2>4. Eq(it)
    BY <2>3, <1>2
  <2> HIDE DEF Eq
  <2> QED BY <2>4
<1>7. Eq(it0)
  <2> HIDE DEF Eq
  <2> QED BY <1>6
<1> HIDE DEF it0
<1>8. it0[{}] = b0
  <2>1. {} \in SUBSET DOMAIN ids
    OBVIOUS
  <2> QED BY <1>7, <2>1 DEF b0
<1>9. \A k \in 1..n : it0[1..(k - 1)] \in V =>
                         it0[1..k] = G[<<k, it0[1..(k - 1)]>>]
  <2> TAKE k \in 1..n
  <2> HAVE it0[1..(k - 1)] \in V
  <2>1. 1..k \in SUBSET DOMAIN ids /\ k \in Nat \ {0}
    BY <1>2
  <2>2. Max(1..k) = k /\ (1..k) \ {k} = 1..(k - 1) /\ 1..k # {}
    BY <2>1, InitialSegment
  <2>3. it0[1..k] = PieceStep(text, cuts, it0[1..(k - 1)], k)
    <3>1. it0[1..k] = Step(it0, 1..k)
      <4> HIDE DEF Step
      <4> QED BY <1>7, <2>1
    <3>2. ids[k] = k
      BY <1>2
    <3> QED BY <2>2, <3>1, <3>2, Zenon
  <2> QED BY <2>3, <1>5
<1> HIDE DEF Eq
<1>10. Follow(n, V, b0, G, it0)
  BY <1>8, <1>9 DEF Follow
<1>11. PICK v \in [0..n -> V] : Leads(n, b0, G, it0, v)
  BY <1>2, <1>3, <1>4, <1>10, FoldSteps
<1>12. ASSUME NEW k \in 1..n PROVE v[k] = PieceStep(text, cuts, v[k - 1], k)
  <2>1. v[k] = G[<<k, v[k - 1]>>]
    BY <1>11 DEF Leads, Trace
  <2>2. v[k - 1] \in V
    BY <1>2
  <2> QED BY <2>1, <2>2, <1>5
<1>13. it0[1..n] = v[n] /\ v[0] = <<>>
  BY <1>11 DEF Leads, Trace, b0
<1>14. Pieces(text, cuts) = v[n]
  BY <1>1, <1>2, <1>13
<1> QED
  BY <1>12, <1>13, <1>14 DEF n, PieceSteps

\* The characters of [lo, hi) that are no newlines.
Ink(text, lo, hi) == {p \in lo..(hi - 1) : At(text, p) # "n"}

\* A range that is left of [lo, hi), with its characters.
Kept(text, lo, hi, r) ==
    /\ r \in RangeRecord
    /\ lo <= r.lo /\ r.lo < r.hi /\ r.hi <= hi
    /\ Ink(text, lo, hi) \subseteq Chars(r)

\* Strip loses nothing but newlines.
LEMMA StripSound ==
    ASSUME NEW text \in Text, NEW lo \in 0..Len(text), NEW hi \in 0..Len(text)
    PROVE  \/ Strip(text, lo, hi) = <<>> /\ Ink(text, lo, hi) = {}
           \/ \E r : Strip(text, lo, hi) = <<r>> /\ Kept(text, lo, hi, r)
<1> DEFINE ink == Ink(text, lo, hi)
           n == Len(text)
<1>1. Strip(text, lo, hi) = IF ink = {} THEN <<>>
                            ELSE <<[lo |-> Min(ink), hi |-> Max(ink) + 1]>>
  BY DEF Strip, Ink
<1>2. n \in Nat /\ lo \in Nat /\ hi \in Nat /\ hi <= n
  BY DEF Text
<1>3. \A p \in ink : p \in lo..(hi - 1)
  BY DEF Ink
<1> HIDE DEF ink, n
<1>4. CASE ink = {}
  BY <1>1, <1>4 DEF ink
<1>5. CASE ink # {}
  <2> DEFINE a == Min(ink)
             z == Max(ink)
             r == [lo |-> a, hi |-> z + 1]
  <2>1. ink \in SUBSET (0..n)
    <3>1. \A p \in ink : p \in 0..n
      BY <1>2, <1>3
    <3> QED BY <3>1
  <2>2. /\ a \in ink /\ \A p \in ink : a <= p
        /\ z \in ink /\ \A p \in ink : p <= z
    BY <1>2, <1>5, <2>1, LeastIn, LargestIn
  <2> HIDE DEF a, z
  <2>3. /\ a \in Nat /\ z \in Nat /\ lo <= a /\ a <= z /\ z + 1 <= hi
        /\ a < z + 1
    <3>1. a \in lo..(hi - 1) /\ z \in lo..(hi - 1)
      BY <1>3, <2>2
    <3> QED BY <1>2, <2>2, <3>1
  <2>4. \A p \in ink : p \in a..z
    <3> TAKE p \in ink
    <3>1. p \in lo..(hi - 1) /\ a <= p /\ p <= z
      BY <1>3, <2>2
    <3> QED BY <1>2, <2>3, <3>1
  <2>5. r \in RangeRecord /\ r.lo = a /\ r.hi = z + 1
    BY <2>3 DEF RangeRecord
  <2>6. Strip(text, lo, hi) = <<r>>
    BY <1>1, <1>5 DEF a, z
  <2> HIDE DEF r
  <2>7. Chars(r) = a..z
    BY <2>3, <2>5 DEF Chars
  <2>8. Kept(text, lo, hi, r)
    BY <2>3, <2>4, <2>5, <2>7 DEF Kept, ink
  <2> QED BY <2>6, <2>8
<1> QED
  BY <1>4, <1>5

\* The chunks of a library section.
RangeLists == {rs \in Seq(RangeRecord) : rs # <<>> /\ \A i \in 1..Len(rs) : rs[i].lo <= rs[i].hi}

\* A concatenation of lists is a list.
LEMMA ConcatType ==
    ASSUME NEW R, NEW ss \in Seq(Seq(R))
    PROVE  Concat(ss) \in Seq(R)
<1>1. PICK v \in [0..Len(ss) -> Seq(R)] :
              /\ v[0] = <<>>
              /\ \A k \in 1..Len(ss) : v[k] = v[k - 1] \o ss[k]
              /\ Concat(ss) = v[Len(ss)]
  BY ConcatTrace
<1>2. Len(ss) \in 0..Len(ss)
  OBVIOUS
<1> QED
  BY <1>1, <1>2

\* A list, and one that goes on in its last element.
LEMMA ConcatLast ==
    ASSUME NEW R, NEW ss \in Seq(Seq(R)), ss # <<>>, NEW r \in R
    PROVE  LET new == [ss EXCEPT ![Len(ss)] = Append(@, r)] IN
           /\ new \in Seq(Seq(R)) /\ Len(new) = Len(ss)
           /\ Concat(new) = Concat(ss) \o <<r>>
<1> DEFINE n == Len(ss)
           front == [i \in 1..(n - 1) |-> ss[i]]
           last == ss[n]
           more == last \o <<r>>
           new == [ss EXCEPT ![n] = Append(@, r)]
<1>1. n \in Nat \ {0} /\ DOMAIN ss = 1..n /\ \A i \in 1..n : ss[i] \in Seq(R)
  BY EmptySeq
<1> HIDE DEF n
<1>2. /\ front \in Seq(Seq(R)) /\ Len(front) = n - 1
      /\ \A i \in 1..(n - 1) : front[i] = ss[i]
  BY <1>1
<1>3. n \in 1..n /\ last \in Seq(R) /\ <<r>> \in Seq(R)
  BY <1>1
<1>4. more \in Seq(R) /\ more = Append(last, r)
  <2> HIDE DEF last
  <2> QED BY <1>3
<1> HIDE DEF front, more
<1>5. new = [i \in 1..n |-> IF i = n THEN more ELSE ss[i]]
  BY <1>1, <1>4
<1>6. new \in Seq(Seq(R)) /\ Len(new) = n /\ DOMAIN new = 1..n
  <2>1. \A i \in 1..n : (IF i = n THEN more ELSE ss[i]) \in Seq(R)
    BY <1>1, <1>4
  <2> HIDE DEF new
  <2> QED BY <1>1, <1>5, <2>1
<1>7. ASSUME NEW x \in Seq(R)
      PROVE  /\ front \o <<x>> \in Seq(Seq(R)) /\ Len(front \o <<x>>) = n
             /\ \A i \in 1..n : (front \o <<x>>)[i] = IF i = n THEN x ELSE ss[i]
             /\ Concat(front \o <<x>>) = Concat(front) \o x
  <2>1. <<x>> \in Seq(Seq(R)) /\ Len(<<x>>) = 1 /\ <<x>>[1] = x
    OBVIOUS
  <2>2. Concat(front \o <<x>>) = Concat(front) \o Concat(<<x>>)
    BY <1>2, <2>1, ConcatJoin
  <2>3. Concat(<<x>>) = x
    BY ConcatOne
  <2>4. /\ front \o <<x>> \in Seq(Seq(R)) /\ Len(front \o <<x>>) = (n - 1) + 1
        /\ \A i \in 1..(n - 1) : (front \o <<x>>)[i] = front[i]
        /\ (front \o <<x>>)[(n - 1) + 1] = x
    BY <1>2, <2>1
  <2>5. (n - 1) + 1 = n /\ \A i \in 1..n : i = n \/ i \in 1..(n - 1)
    BY <1>1
  <2>6. \A i \in 1..n : (front \o <<x>>)[i] = IF i = n THEN x ELSE ss[i]
    BY <1>2, <2>4, <2>5
  <2> QED BY <2>2, <2>3, <2>4, <2>5, <2>6
<1>8. ss = front \o <<last>>
  <2> DEFINE t == front \o <<last>>
  <2>1. t \in Seq(Seq(R)) /\ Len(t) = n /\ \A i \in 1..n : t[i] = ss[i]
    BY <1>3, <1>7
  <2> HIDE DEF t
  <2>2. Len(ss) = Len(t) /\ \A i \in 1..Len(ss) : ss[i] = t[i]
    BY <2>1 DEF n
  <2>3. ss = t
    BY <2>1, <2>2, SeqEqual
  <2> QED BY <2>3 DEF t
<1>9. new = front \o <<more>>
  <2> DEFINE t == front \o <<more>>
  <2>1. t \in Seq(Seq(R)) /\ Len(t) = n
        /\ \A i \in 1..n : t[i] = IF i = n THEN more ELSE ss[i]
    BY <1>4, <1>7
  <2>2. \A i \in 1..n : new[i] = IF i = n THEN more ELSE ss[i]
    BY <1>5
  <2> HIDE DEF t, new
  <2>3. Len(new) = Len(t) /\ \A i \in 1..Len(new) : new[i] = t[i]
    BY <1>6, <2>1, <2>2
  <2>4. new = t
    BY <1>6, <2>1, <2>3, SeqEqual
  <2> QED BY <2>4 DEF t
<1>10. Concat(new) = Concat(front) \o (last \o <<r>>)
  BY <1>4, <1>7, <1>9 DEF more
<1>11. Concat(ss) = Concat(front) \o last
  BY <1>3, <1>7, <1>8
<1>12. Concat(front) \in Seq(R)
  BY <1>2, ConcatType
<1>13. Concat(front) \o (last \o <<r>>) = (Concat(front) \o last) \o <<r>>
  <2> HIDE DEF last
  <2>1. Associative(Concat(front), last, <<r>>)
    BY <1>3, <1>12, JoinAssociative
  <2> QED BY <2>1, Zenon DEF Associative
<1>14. Concat(new) = Concat(ss) \o <<r>>
  BY <1>10, <1>11, <1>13
<1> QED
  BY <1>6, <1>14 DEF n

\* What has been cut off up to e is in the chunks, in order.
PiecesSound(text, out, e) ==
    /\ out \in Seq(RangeLists)
    /\ \E S : Follows(Concat(out), 0, e, S) /\ Ink(text, 0, e) \subseteq S

\* Chunks are lists of ranges.
LEMMA RangeListsType ==
    ASSUME NEW out \in Seq(RangeLists)
    PROVE  out \in Seq(Seq(RangeRecord))
<1>1. RangeLists \subseteq Seq(RangeRecord)
  BY DEF RangeLists
<1> QED
  BY <1>1

\* A piece becomes a chunk or goes to the end of the last one.
LEMMA MergeSound ==
    ASSUME NEW text, NEW out \in Seq(RangeLists), NEW r \in RangeRecord, r.lo <= r.hi
    PROVE  /\ Merge(text, out, r) \in Seq(RangeLists)
           /\ Concat(Merge(text, out, r)) = Concat(out) \o <<r>>
<1> DEFINE n == Len(out)
           more == [out EXCEPT ![n] = Append(@, r)]
           new == Append(out, <<r>>)
<1>1. /\ out \in Seq(Seq(RangeRecord)) /\ n \in Nat
      /\ <<r>> \in RangeLists /\ <<r>> \in Seq(RangeRecord)
  <2>1. <<r>> \in Seq(RangeRecord) /\ <<r>> # <<>> /\ \A i \in 1..Len(<<r>>) : <<r>>[i] = r
    OBVIOUS
  <2>2. <<r>> \in RangeLists
    BY <2>1 DEF RangeLists
  <2> QED BY <2>1, <2>2, RangeListsType
<1>2. ASSUME out # <<>>
      PROVE  /\ more \in Seq(RangeLists)
             /\ Concat(more) = Concat(out) \o <<r>>
  <2>1. Concat(more) = Concat(out) \o <<r>>
    BY <1>1, <1>2, ConcatLast
  <2>2. n \in 1..n /\ DOMAIN out = 1..n
    <3>1. n # 0
      BY <1>1, <1>2, EmptySeq
    <3> QED BY <1>1, <3>1
  <2> DEFINE last == out[n]
             tail == Append(last, r)
  <2>3. last \in RangeLists
    BY <2>2, ElementOf
  <2>4. tail \in RangeLists
    <3> HIDE DEF last
    <3>1. last \in Seq(RangeRecord) /\ \A i \in 1..Len(last) : last[i].lo <= last[i].hi
      BY <2>3 DEF RangeLists
    <3>2. /\ tail \in Seq(RangeRecord) /\ Len(tail) = Len(last) + 1
          /\ tail[Len(last) + 1] = r /\ \A i \in 1..Len(last) : tail[i] = last[i]
      BY <3>1, Appended
    <3>3. Len(last) \in Nat /\ \A i \in 1..(Len(last) + 1) : i \in 1..Len(last) \/ i = Len(last) + 1
      BY <3>1
    <3> HIDE DEF tail
    <3>4. \A i \in 1..Len(tail) : tail[i].lo <= tail[i].hi
      BY <3>1, <3>2, <3>3
    <3>5. tail # <<>>
      BY <3>2, <3>3
    <3> QED BY <3>2, <3>4, <3>5 DEF RangeLists
  <2>5. more = [out EXCEPT ![n] = tail]
    OBVIOUS
  <2> HIDE DEF tail, more, n
  <2>6. more \in Seq(RangeLists)
    <3>1. more = [i \in 1..n |-> IF i = n THEN tail ELSE out[i]]
      BY <2>2, <2>5
    <3>2. \A i \in 1..n : (IF i = n THEN tail ELSE out[i]) \in RangeLists
      BY <2>2, <2>4, ElementOf DEF n
    <3> QED BY <1>1, <3>1, <3>2
  <2> QED BY <2>1, <2>6
<1>3. /\ new \in Seq(RangeLists)
      /\ Concat(new) = Concat(out) \o <<r>>
  <2>1. new = out \o << <<r>> >>
    BY <1>1
  <2>2. << <<r>> >> \in Seq(Seq(RangeRecord))
    BY <1>1
  <2>3. Concat(out \o << <<r>> >>) = Concat(out) \o Concat(<< <<r>> >>)
    BY <1>1, <2>2, ConcatJoin
  <2>4. Concat(<< <<r>> >>) = <<r>>
    BY <1>1, ConcatOne
  <2>5. new \in Seq(RangeLists)
    BY <1>1, Appended
  <2> QED BY <2>1, <2>3, <2>4, <2>5
<1>4. Merge(text, out, r) = IF out # <<>> /\ Mergeable(text, r) THEN more ELSE new
  BY DEF Merge
<1> HIDE DEF more, new
<1> QED
  BY <1>2, <1>3, <1>4

\* A step over the piece between two cuts.
LEMMA PieceStepSound ==
    ASSUME NEW text \in Text, NEW cuts, NEW k,
           cuts[k] \in 0..Len(text), cuts[k + 1] \in 0..Len(text), cuts[k] < cuts[k + 1],
           NEW out, PiecesSound(text, out, cuts[k])
    PROVE  PiecesSound(text, PieceStep(text, cuts, out, k), cuts[k + 1])
<1> DEFINE lo == cuts[k]
           hi == cuts[k + 1]
           new == PieceStep(text, cuts, out, k)
<1>1. out \in Seq(RangeLists)
  BY DEF PiecesSound
<1>2. PICK S : Follows(Concat(out), 0, lo, S) /\ Ink(text, 0, lo) \subseteq S
  BY DEF PiecesSound
<1>3. /\ lo \in Nat /\ hi \in Nat /\ lo < hi /\ Len(text) \in Nat
      /\ lo \in 0..Len(text) /\ hi \in 0..Len(text)
  BY DEF Text
<1>4. new = LET r == Strip(text, lo, hi) IN IF r = <<>> THEN out ELSE Merge(text, out, r[1])
  BY DEF PieceStep
<1> HIDE DEF lo, hi, new
<1>5. Ink(text, 0, hi) \subseteq Ink(text, 0, lo) \cup Ink(text, lo, hi)
  <2>1. \A p \in 0..(hi - 1) : p \in 0..(lo - 1) \/ p \in lo..(hi - 1)
    BY <1>3
  <2> QED BY <2>1, Zenon DEF Ink
<1>6. CASE Strip(text, lo, hi) = <<>> /\ Ink(text, lo, hi) = {}
  <2>1. new = out
    BY <1>4, <1>6
  <2>2. Follows(Concat(out), 0, hi, S)
    BY <1>2, <1>3, FollowsWithin
  <2>3. Ink(text, 0, hi) \subseteq S
    BY <1>2, <1>5, <1>6
  <2> QED BY <1>1, <2>1, <2>2, <2>3 DEF PiecesSound, hi, new
<1>7. ASSUME NEW r, Strip(text, lo, hi) = <<r>>, Kept(text, lo, hi, r)
      PROVE  PiecesSound(text, new, hi)
  <2> DEFINE a == r.lo
             z == r.hi
  <2>1. /\ r \in RangeRecord /\ r = [lo |-> a, hi |-> z] /\ a \in Nat /\ z \in Nat
        /\ lo <= a /\ a < z /\ z <= hi
    BY <1>7 DEF Kept, RangeRecord
  <2>2. Ink(text, lo, hi) \subseteq Chars(r)
    BY <1>7 DEF Kept
  <2>3. Chars(r) = a..(z - 1)
    BY DEF Chars
  <2> HIDE DEF a, z
  <2>4. new = Merge(text, out, r)
    <3>1. <<r>> # <<>> /\ <<r>>[1] = r
      OBVIOUS
    <3> QED BY <1>4, <1>7, <3>1
  <2>5. /\ Merge(text, out, r) \in Seq(RangeLists)
        /\ Concat(Merge(text, out, r)) = Concat(out) \o <<r>>
    <3>1. r.lo <= r.hi
      BY <2>1 DEF a, z
    <3> QED BY <1>1, <2>1, <3>1, MergeSound
  <2>6. Follows(<<r>>, a, z, a..(z - 1))
    <3>1. Follows(<<[lo |-> a, hi |-> z]>>, a, z, a..(z - 1))
      BY <2>1, FollowsOne
    <3> QED BY <2>1, <3>1
  <2>7. Follows(<<r>>, lo, hi, a..(z - 1))
    BY <1>3, <2>1, <2>6, FollowsWithin
  <2>8. Follows(Concat(out) \o <<r>>, 0, hi, S \cup a..(z - 1))
    <3>1. 0 \in Int /\ lo \in Int /\ hi \in Int /\ 0 <= lo /\ lo <= hi
      BY <1>3
    <3>2. Follows(Concat(out), 0, lo, S)
      BY <1>2
    <3> QED BY <2>7, <3>1, <3>2, FollowsJoin, Zenon
  <2>9. Ink(text, 0, hi) \subseteq S \cup a..(z - 1)
    BY <1>2, <1>5, <2>2, <2>3
  <2>10. new \in Seq(RangeLists) /\ Follows(Concat(new), 0, hi, S \cup a..(z - 1))
    BY <2>4, <2>5, <2>8
  <2> QED BY <2>9, <2>10 DEF PiecesSound
<1>8. PiecesSound(text, new, hi)
  BY <1>3, <1>6, <1>7, StripSound DEF new, hi
<1> QED
  BY <1>8 DEF new, hi

\* The pieces of any text between its cuts.
LEMMA PiecesTake ==
    ASSUME NEW text \in Text, NEW cuts \in Seq(0..Len(text)),
           Len(cuts) \in Nat \ {0}, cuts[1] = 0,
           \A i \in 1..(Len(cuts) - 1) : cuts[i] < cuts[i + 1]
    PROVE  PiecesSound(text, Pieces(text, cuts), cuts[Len(cuts)])
<1> DEFINE n == Len(cuts) - 1
           V == Seq(RangeLists)
<1>1. n \in Nat /\ \A k \in 1..n : cuts[k] \in 0..Len(text) /\ cuts[k + 1] \in 0..Len(text)
  <2>1. n \in Nat /\ \A k \in 1..n : k \in 1..Len(cuts) /\ k + 1 \in 1..Len(cuts)
    OBVIOUS
  <2> QED BY <2>1, ElementOf
<1>2. <<>> \in V
  OBVIOUS
<1>3. ASSUME NEW w \in V, NEW k \in 1..n
      PROVE  PieceStep(text, cuts, w, k) \in V
  <2> DEFINE lo == cuts[k]
             hi == cuts[k + 1]
  <2>1. lo \in 0..Len(text) /\ hi \in 0..Len(text)
    BY <1>1
  <2>2. PieceStep(text, cuts, w, k)
           = LET r == Strip(text, lo, hi) IN IF r = <<>> THEN w ELSE Merge(text, w, r[1])
    BY DEF PieceStep
  <2> HIDE DEF lo, hi
  <2>3. CASE Strip(text, lo, hi) = <<>>
    BY <2>2, <2>3
  <2>4. ASSUME NEW r, Strip(text, lo, hi) = <<r>>, Kept(text, lo, hi, r)
        PROVE  PieceStep(text, cuts, w, k) \in V
    <3>1. r \in RangeRecord /\ r.lo <= r.hi
      BY <2>4 DEF Kept, RangeRecord
    <3>2. Merge(text, w, r) \in V
      BY <3>1, MergeSound
    <3>3. <<r>> # <<>> /\ <<r>>[1] = r
      OBVIOUS
    <3> QED BY <2>2, <2>4, <3>2, <3>3
  <2> QED BY <2>1, <2>3, <2>4, StripSound
<1> HIDE DEF V
<1>4. PICK v \in [0..n -> V] : PieceSteps(text, cuts, v)
  <2>1. PiecesKeep(text, cuts, V)
    BY <1>3 DEF PiecesKeep
  <2> QED BY <1>1, <1>2, <2>1, PieceTrace
<1>5. /\ v[0] = <<>>
      /\ \A k \in 1..n : v[k] = PieceStep(text, cuts, v[k - 1], k)
      /\ Pieces(text, cuts) = v[n]
  BY <1>4 DEF PieceSteps
<1> DEFINE P == {k \in 0..n : PiecesSound(text, v[k], cuts[k + 1])}
<1>6. 0 \in P
  <2>1. 0 \in 0..n /\ 0 + 1 = 1
    BY <1>1
  <2>2. Follows(Concat(<<>>), 0, 0, {})
    BY FollowsNone, ConcatNone
  <2>3. Ink(text, 0, 0) = {}
    <3>1. 0..(0 - 1) = {}
      OBVIOUS
    <3> QED BY <3>1 DEF Ink
  <2>4. PiecesSound(text, <<>>, 0)
    BY <2>2, <2>3 DEF PiecesSound
  <2> QED BY <1>5, <2>1, <2>4
<1>7. \A k \in 1..n : k - 1 \in P => k \in P
  <2> TAKE k \in 1..n
  <2> HAVE k - 1 \in P
  <2>1. (k - 1) + 1 = k /\ k \in 0..n
    BY <1>1
  <2>2. PiecesSound(text, v[k - 1], cuts[k])
    BY <2>1
  <2>3. cuts[k] \in 0..Len(text) /\ cuts[k + 1] \in 0..Len(text) /\ cuts[k] < cuts[k + 1]
    BY <1>1
  <2>4. PiecesSound(text, PieceStep(text, cuts, v[k - 1], k), cuts[k + 1])
    BY <2>2, <2>3, PieceStepSound
  <2>5. PiecesSound(text, v[k], cuts[k + 1])
    BY <1>5, <2>4
  <2> QED BY <2>1, <2>5
<1>8. PiecesSound(text, v[n], cuts[n + 1])
  <2>1. n \in P
    <3> HIDE DEF P, n
    <3>1. 0..n \subseteq P
      BY <1>1, <1>6, <1>7, UpTo
    <3> QED BY <1>1, <3>1
  <2> QED BY <2>1
<1>9. n + 1 = Len(cuts)
  OBVIOUS
<1> QED
  BY <1>5, <1>8, <1>9

-----------------------------------------------------------------------------
(* The chunks of a library section.                                        *)

\* One chunk that is the whole text.
LEMMA WholeSound ==
    ASSUME NEW text \in Text
    PROVE  PiecesSound(text, << <<[lo |-> 0, hi |-> Len(text)]>> >>, Len(text))
<1> DEFINE n == Len(text)
           rs == <<[lo |-> 0, hi |-> n]>>
<1>1. n \in Nat /\ 0 \in Nat /\ 0 <= n
  BY DEF Text
<1> HIDE DEF n
<1>2. Follows(rs, 0, n, 0..(n - 1))
  BY <1>1, FollowsOne
<1>3. rs \in RangeLists
  <2>1. /\ rs \in Seq(RangeRecord)
        /\ \A i \in 1..Len(rs) : rs[i].lo <= rs[i].hi
    BY <1>2 DEF Follows
  <2>2. rs # <<>>
    OBVIOUS
  <2> HIDE DEF rs
  <2> QED BY <2>1, <2>2 DEF RangeLists
<1>4. Concat(<<rs>>) = rs
  <2>1. rs \in Seq(RangeRecord)
    BY <1>3 DEF RangeLists
  <2> HIDE DEF rs
  <2> QED BY <2>1, ConcatOne
<1> HIDE DEF rs
<1>5. <<rs>> \in Seq(RangeLists)
  BY <1>3
<1>6. Ink(text, 0, n) \subseteq 0..(n - 1)
  BY DEF Ink
<1>7. PiecesSound(text, <<rs>>, n)
  BY <1>2, <1>4, <1>5, <1>6 DEF PiecesSound
<1> QED
  BY <1>7 DEF rs, n

\* The chunks of a section take its text, unless it is a separator.
LEMMA LibraryChunksSound ==
    ASSUME NEW text \in Text, NEW prefix \in Nat, NEW limit \in Nat
    PROVE  LET chunks == BuildLibraryChunks(text, prefix, limit) IN
           /\ chunks \in Seq(RangeLists)
           /\ \/ PiecesSound(text, chunks, Len(text))
              \/ chunks = <<>> /\ IsSeparator(text, [lo |-> 0, hi |-> Len(text)])
<1> DEFINE n == Len(text)
           chunks == BuildLibraryChunks(text, prefix, limit)
           whole == << <<[lo |-> 0, hi |-> n]>> >>
           maxChars == 2 * (limit - prefix)
           split == SplitLibraryContent(text, maxChars)
<1>1. n \in Nat
  BY DEF Text
<1>2. PiecesSound(text, whole, n)
  BY WholeSound
<1>3. ASSUME ~ limit <= prefix
      PROVE  PiecesSound(text, split, n)
  <2>1. maxChars \in Nat \ {0}
    BY <1>3
  <2> HIDE DEF maxChars
  <2>2. CASE n <= maxChars
    BY <1>2, <2>2 DEF SplitLibraryContent
  <2>3. CASE ~ n <= maxChars
    <3> DEFINE cuts == Cuts(text, maxChars, Protected(text))
    <3>1. split = Pieces(text, cuts)
      BY <2>3 DEF SplitLibraryContent, Pieces
    <3>2. cuts \in CutSeqs(text, maxChars, Protected(text)) /\ cuts[Len(cuts)] = n
      BY <2>1, ProtectedPlaced, CutsSound
    <3> HIDE DEF cuts
    <3>3. /\ cuts \in Seq(0..Len(text)) /\ Len(cuts) \in Nat \ {0} /\ cuts[1] = 0
          /\ \A i \in 1..(Len(cuts) - 1) : cuts[i] < cuts[i + 1]
      BY <3>2 DEF CutSeqs
    <3>4. PiecesSound(text, Pieces(text, cuts), n)
      BY <3>2, <3>3, PiecesTake
    <3> QED BY <3>1, <3>4
  <2> QED BY <2>2, <2>3
<1>4. chunks = IF IsSeparator(text, [lo |-> 0, hi |-> n]) THEN <<>>
               ELSE IF n + prefix <= limit \/ limit <= prefix THEN whole ELSE split
  BY DEF BuildLibraryChunks
<1> HIDE DEF chunks, whole, split
<1>5. \/ PiecesSound(text, chunks, n)
      \/ chunks = <<>> /\ IsSeparator(text, [lo |-> 0, hi |-> n])
  BY <1>2, <1>3, <1>4
<1>6. chunks \in Seq(RangeLists)
  <2>1. <<>> \in Seq(RangeLists)
    OBVIOUS
  <2>2. PiecesSound(text, chunks, n) => chunks \in Seq(RangeLists)
    BY DEF PiecesSound
  <2> QED BY <1>5, <2>1, <2>2
<1> QED
  BY <1>5, <1>6 DEF chunks

\* The lengths of the embedding texts are numbers.
LEMMA EmbeddingLensNat ==
    ASSUME NEW prefix \in Nat, NEW chunks \in Seq(RangeLists)
    PROVE  /\ EmbeddingLens(prefix, chunks) \in Seq(Nat)
           /\ Len(EmbeddingLens(prefix, chunks)) = Len(chunks)
<1> DEFINE L(i) == prefix + Sum([j \in DOMAIN chunks[i] |-> chunks[i][j].hi - chunks[i][j].lo])
                      + Len(chunks[i]) - 1
<1>1. ASSUME NEW i \in 1..Len(chunks)
      PROVE  L(i) \in Nat
  <2> DEFINE c == chunks[i]
             s == [j \in DOMAIN c |-> c[j].hi - c[j].lo]
  <2>1. c \in RangeLists
    BY ElementOf
  <2> HIDE DEF c
  <2>2. /\ c \in Seq(RangeRecord) /\ c # <<>> /\ DOMAIN c = 1..Len(c) /\ Len(c) \in Nat
        /\ \A j \in 1..Len(c) : c[j].lo <= c[j].hi
    BY <2>1 DEF RangeLists
  <2>3. \A j \in 1..Len(c) : c[j].lo \in Nat /\ c[j].hi \in Nat
    BY <2>2, RangeFields
  <2>4. \A j \in 1..Len(c) : c[j].hi - c[j].lo \in Nat
    BY <2>2, <2>3
  <2>5. s \in Seq(Nat)
    BY <2>2, <2>4
  <2>6. Sum(s) \in Nat
    <3> HIDE DEF s
    <3> QED BY <2>5, SumNat
  <2>7. Len(c) - 1 \in Nat
    <3>1. Len(c) # 0
      BY <2>2, EmptySeq
    <3> QED BY <2>2, <3>1
  <2>8. L(i) = prefix + Sum(s) + Len(c) - 1
    BY DEF c
  <2> HIDE DEF s, L
  <2> QED BY <2>2, <2>6, <2>7, <2>8
<1>2. EmbeddingLens(prefix, chunks) = [i \in 1..Len(chunks) |-> L(i)]
  <2>1. DOMAIN chunks = 1..Len(chunks)
    OBVIOUS
  <2> QED BY <2>1 DEF EmbeddingLens
<1> HIDE DEF L
<1> QED
  BY <1>1, <1>2

LibraryResult(c) ==
    LET chunks == BuildLibraryChunks(c.text, c.prefix, c.limit)
        lens == EmbeddingLens(c.prefix, chunks) IN
    [chunks |-> chunks, lens |-> lens,
     windows |-> [i \in DOMAIN lens |-> WindowOf(lens, i)]]

\* The result of a content is its chunks.
LibraryInv ==
    task.kind = "library" =>
        /\ task.content \in Contents
        /\ result = <<>> \/ result = LibraryResult(task.content)

\* After _build_library_chunks the chunks are those of the content.
LEMMA LibraryInvariant == Spec => []LibraryInv
<1>1. Init => LibraryInv
  <2> SUFFICES ASSUME Init, task.kind = "library"
               PROVE  task.content \in Contents /\ result = <<>>
    BY DEF LibraryInv
  <2>1. \/ task \in [kind : {"library"}, content : Contents]
        \/ task.kind \in {"chunk", "sections", "fuse", "resolve"}
    BY DEF Init
  <2> QED BY <2>1 DEF Init
<1>2. LibraryInv /\ [Next]_vars => LibraryInv'
  <2> SUFFICES ASSUME LibraryInv, [Next]_vars, task.kind = "library", task' = task
               PROVE  /\ task.content \in Contents
                      /\ result' = <<>> \/ result' = LibraryResult(task.content)
    BY DEF LibraryInv, Next, vars, Execute, Library, Sections, Fuse, Resolve
  <2>1. CASE Library
    BY <2>1 DEF LibraryInv, Library, LibraryResult
  <2>2. ASSUME Execute \/ Sections \/ Fuse \/ Resolve PROVE FALSE
    BY <2>2 DEF Execute, Sections, Fuse, Resolve, Pending
  <2>3. CASE UNCHANGED vars
    BY <2>3 DEF LibraryInv, vars
  <2> QED BY <2>1, <2>2, <2>3 DEF Next
<1> QED
  BY <1>1, <1>2, PTL DEF Spec

\* What is known of the result of _build_library_chunks.
LEMMA LibraryDone ==
    ASSUME LibraryInv, Done("library")
    PROVE  /\ task.content.text \in Text /\ task.content.prefix \in Nat
           /\ task.content.limit \in Nat
           /\ result = LibraryResult(task.content)
BY ContentsAssumption DEF LibraryInv, Done, Text

\* LibraryCovers: whatever text a section has, what is cut off, stripped and
\* merged keeps each character that is not a newline once and in order
\* (_split_library_content, _merge_library_split_chunks).
THEOREM LibraryTextKept == Spec => []LibraryCovers
<1>1. LibraryInv => LibraryCovers
  <2> DEFINE text == task.content.text
             ink == {p \in 0..(Len(text) - 1) : At(text, p) # "n"}
             chunks == result.chunks
             ranges == Concat(chunks)
  <2> SUFFICES ASSUME LibraryInv, Done("library")
               PROVE  /\ \A i \in 1..(Len(ranges) - 1) : ranges[i].hi <= ranges[i + 1].lo
                      /\ \/ ink \subseteq UNION {Chars(ranges[i]) : i \in DOMAIN ranges}
                         \/ chunks = <<>> /\ IsSeparator(text, [lo |-> 0, hi |-> Len(text)])
    BY DEF LibraryCovers
  <2>1. /\ text \in Text /\ task.content.prefix \in Nat /\ task.content.limit \in Nat
        /\ chunks = BuildLibraryChunks(text, task.content.prefix, task.content.limit)
    BY LibraryDone DEF LibraryResult
  <2>2. \/ PiecesSound(text, chunks, Len(text))
        \/ chunks = <<>> /\ IsSeparator(text, [lo |-> 0, hi |-> Len(text)])
    BY <2>1, LibraryChunksSound
  <2>3. ink = Ink(text, 0, Len(text))
    BY DEF Ink
  <2> HIDE DEF text, chunks, ink
  <2>4. CASE PiecesSound(text, chunks, Len(text))
    <3>1. PICK S : Follows(ranges, 0, Len(text), S) /\ ink \subseteq S
      BY <2>3, <2>4 DEF PiecesSound
    <3>2. Takes(ranges, S)
      <4> HIDE DEF ranges
      <4> QED BY <3>1, FollowsTakes
    <3> QED BY <3>1, <3>2 DEF Takes
  <2>5. CASE chunks = <<>> /\ IsSeparator(text, [lo |-> 0, hi |-> Len(text)])
    <3>1. ranges = <<>>
      BY <2>5, ConcatNone
    <3>2. 1..(Len(ranges) - 1) = {}
      BY <3>1
    <3> QED BY <2>5, <3>2
  <2> QED BY <2>2, <2>4, <2>5
<1> QED
  BY <1>1, LibraryInvariant, PTL

\* BlocksStayWhole: a cut lies in a table or code block only where the search
\* for a safe one gives up (_find_library_safe_split_position).
THEOREM BlocksAreCutLast == Spec => []BlocksStayWhole
<1>1. LibraryInv => BlocksStayWhole
  <2> DEFINE text == task.content.text
             blocks == Protected(text)
             maxChars == 2 * (task.content.limit - task.content.prefix)
             cuts == Cuts(text, maxChars, blocks)
  <2> SUFFICES ASSUME LibraryInv, Done("library"),
                      task.content.prefix < task.content.limit,
                      NEW i \in 2..(Len(cuts) - 1), NEW b \in blocks,
                      b.start < cuts[i], cuts[i] < b.end
               PROVE  GivesUp(blocks, cuts[i - 1], maxChars, cuts[i], b)
    BY DEF BlocksStayWhole, GivesUp
  <2>1. text \in Text /\ maxChars \in Nat \ {0}
    BY LibraryDone
  <2>2. \A d \in blocks : BlockFits(text, d)
    BY <2>1, ProtectedPlaced
  <2>3. cuts \in CutSeqs(text, maxChars, blocks)
    <3> HIDE DEF text, blocks, maxChars
    <3> QED BY <2>1, <2>2, CutsSound
  <2> DEFINE k == i - 1
             start == cuts[k]
  <2>4. /\ cuts \in Seq(0..Len(text)) /\ k \in 1..(Len(cuts) - 1) /\ k \in 1..Len(cuts)
        /\ k + 1 = i
    <3> HIDE DEF cuts, text, blocks, maxChars
    <3>1. cuts \in Seq(0..Len(text)) /\ Len(cuts) \in Nat
      BY <2>3 DEF CutSeqs
    <3> QED BY <3>1
  <2>5. start \in 0..Len(text) /\ start < Len(text)
        /\ cuts[i] = NextSplit(text, start, maxChars, blocks)
    <3> HIDE DEF cuts, text, blocks, maxChars, k
    <3>1. start \in 0..Len(text)
      BY <2>4, ElementOf
    <3>2. start < Len(text) /\ cuts[k + 1] = NextSplit(text, start, maxChars, blocks)
      BY <2>3, <2>4 DEF CutSeqs
    <3> QED BY <2>4, <3>1, <3>2
  <2> HIDE DEF cuts, text, blocks, maxChars, start
  <2>6. Slice(text, start, maxChars)
    BY <2>1, <2>5 DEF Slice
  <2>7. GivesUp(blocks, start, maxChars, cuts[i], b)
    BY <2>1, <2>2, <2>5, <2>6, BlocksKept
  <2> QED BY <2>7 DEF start
<1> QED
  BY <1>1, LibraryInvariant, PTL

\* WindowIsBest: whatever the lengths of the chunks of a text or of a library
\* section are, each window is the best around its chunk (_apply_sliding_window
\* and _truncate_window_chunks).
THEOREM WindowsAreBest == Spec => []WindowIsBest
<1>1. ASSUME ChunkInv, Done("chunk"), NEW i \in DOMAIN result.lens
      PROVE  Best(result.lens, i, result.windows[i])
  <2> DEFINE cs == result.chunks
             lens == Lens(cs)
  <2>1. /\ result.lens = lens /\ result.windows = Windows(cs)
        /\ SoundChunks("service", task.doc, cs)
    BY <1>1, ServiceChunks
  <2>2. cs \in Seq(ChunkRecord) /\ \A k \in 1..Len(cs) : TextLen(cs[k]) \in Nat
    BY <2>1 DEF SoundChunks, StartsBefore
  <2> HIDE DEF cs
  <2>3. lens \in Seq(Nat) /\ Len(lens) = Len(cs) /\ DOMAIN lens = 1..Len(cs)
        /\ DOMAIN cs = 1..Len(cs)
    BY <2>2 DEF Lens
  <2>4. Windows(cs)[i] = WindowOf(lens, i)
    BY <1>1, <2>1, <2>3 DEF Windows, Lens
  <2> HIDE DEF lens
  <2>5. Best(lens, i, WindowOf(lens, i))
    BY <1>1, <2>1, <2>3, WindowOfBest
  <2> QED BY <2>1, <2>4, <2>5
<1>2. ASSUME LibraryInv, Done("library"), NEW i \in DOMAIN result.lens
      PROVE  Best(result.lens, i, result.windows[i])
  <2> DEFINE c == task.content
             chunks == BuildLibraryChunks(c.text, c.prefix, c.limit)
             lens == EmbeddingLens(c.prefix, chunks)
  <2>1. /\ c.text \in Text /\ c.prefix \in Nat /\ c.limit \in Nat
        /\ result.lens = lens
        /\ result.windows = [k \in DOMAIN lens |-> WindowOf(lens, k)]
    BY <1>2, LibraryDone DEF LibraryResult
  <2>2. chunks \in Seq(RangeLists)
    BY <2>1, LibraryChunksSound
  <2> HIDE DEF chunks
  <2>3. lens \in Seq(Nat)
    BY <2>1, <2>2, EmbeddingLensNat
  <2> HIDE DEF lens
  <2>4. DOMAIN lens = 1..Len(lens) /\ i \in DOMAIN lens
    BY <1>2, <2>1, <2>3
  <2>5. Best(lens, i, WindowOf(lens, i))
    BY <2>3, <2>4, WindowOfBest
  <2> QED BY <2>1, <2>4, <2>5
<1>3. ChunkInv /\ LibraryInv => WindowIsBest
  BY <1>1, <1>2 DEF WindowIsBest
<1> QED
  BY <1>3, ChunkInvariant, LibraryInvariant, PTL
-----------------------------------------------------------------------------
(* Fusion: the sum of the scores of a key.                                  *)

\* The recursive function of the sum of W over T, whatever the order is in which
\* CHOOSE takes the elements.
SetSum(T, W, it) ==
    \A S \in SUBSET T :
        it[S] = IF S = {} THEN 0
                ELSE W[CHOOSE x \in S : TRUE] + it[S \ {CHOOSE x \in S : TRUE}]

\* Subsets of a set of numbers, and what is left when one element is taken.
LEMMA SubsetsShrink ==
    ASSUME NEW n \in Nat, NEW T \in SUBSET (1..n), NEW S \in SUBSET T
    PROVE  /\ IsFiniteSet(S) /\ Cardinality(S) \in 0..n
           /\ S # {} => /\ (CHOOSE x \in S : TRUE) \in S
                        /\ Cardinality(S \ {CHOOSE x \in S : TRUE}) = Cardinality(S) - 1
<1> DEFINE x0 == CHOOSE x \in S : TRUE
<1>1. IsFiniteSet(1..n) /\ Cardinality(1..n) = n
  BY FS_Interval
<1>2. S \in SUBSET (1..n)
  OBVIOUS
<1>3. IsFiniteSet(S) /\ Cardinality(S) <= Cardinality(1..n)
  BY <1>1, <1>2, FS_Subset
<1>4. Cardinality(S) \in 0..n
  <2>1. Cardinality(S) \in Nat
    BY <1>3, FS_CardinalityType
  <2> QED BY <1>1, <1>3, <2>1
<1>5. ASSUME S # {}
      PROVE  x0 \in S /\ Cardinality(S \ {x0}) = Cardinality(S) - 1
  <2>1. x0 \in S
    <3>1. \E y \in S : TRUE
      BY <1>5
    <3> QED BY <3>1, Zenon
  <2> HIDE DEF x0
  <2> QED BY <1>3, <2>1, FS_RemoveElement
<1> QED
  BY <1>3, <1>4, <1>5

\* It exists.
LEMMA SetSumExists ==
    ASSUME NEW n \in Nat, NEW T \in SUBSET (1..n), NEW W \in [1..n -> Nat]
    PROVE  \E it \in [SUBSET T -> Nat] : SetSum(T, W, it)
<1> DEFINE C(S) == CHOOSE x \in S : TRUE
           Few(k) == {S \in SUBSET T : Cardinality(S) <= k}
           F(it, S) == IF S = {} THEN 0 ELSE W[C(S)] + it[S \ {C(S)}]
           Eq(k, it) == \A S \in Few(k) : it[S] = F(it, S)
           P == {k \in 0..n : \E it \in [Few(k) -> Nat] : Eq(k, it)}
<1>1. \A S \in SUBSET T : Cardinality(S) \in Nat /\ Cardinality(S) <= n
  <2> TAKE S \in SUBSET T
  <2>1. Cardinality(S) \in 0..n
    BY SubsetsShrink
  <2> QED BY <2>1
<1>2. \A S \in SUBSET T : S # {} =>
         /\ C(S) \in S /\ C(S) \in 1..n /\ S \ {C(S)} \in SUBSET T
         /\ Cardinality(S \ {C(S)}) = Cardinality(S) - 1
  <2> TAKE S \in SUBSET T
  <2> HAVE S # {}
  <2>1. C(S) \in S /\ Cardinality(S \ {C(S)}) = Cardinality(S) - 1
    BY SubsetsShrink
  <2> HIDE DEF C
  <2> QED BY <2>1
<1> HIDE DEF C
<1>3. 0 \in P
  <2> DEFINE it == [S \in Few(0) |-> 0]
  <2>1. ASSUME NEW S \in Few(0) PROVE S = {}
    <3>1. S \in SUBSET T /\ Cardinality(S) = 0
      BY <1>1
    <3> QED BY <3>1, SubsetsShrink, FS_EmptySet
  <2>2. it \in [Few(0) -> Nat] /\ Eq(0, it)
    BY <2>1
  <2> HIDE DEF it, Eq, Few
  <2>3. \E jt \in [Few(0) -> Nat] : Eq(0, jt)
    BY <2>2
  <2> QED BY <2>3
<1>4. \A k \in 1..n : k - 1 \in P => k \in P
  <2> TAKE k \in 1..n
  <2> HAVE k - 1 \in P
  <2>1. PICK it \in [Few(k - 1) -> Nat] : Eq(k - 1, it)
    OBVIOUS
  <2> DEFINE jt == [S \in Few(k) |-> F(it, S)]
  <2>2. \A S \in Few(k) : S # {} => C(S) \in 1..n /\ S \ {C(S)} \in Few(k - 1)
    <3> TAKE S \in Few(k)
    <3> HAVE S # {}
    <3>1. /\ S \in SUBSET T /\ Cardinality(S) <= k /\ Cardinality(S) \in Nat
          /\ C(S) \in 1..n /\ S \ {C(S)} \in SUBSET T
          /\ Cardinality(S \ {C(S)}) = Cardinality(S) - 1
      BY <1>1, <1>2
    <3>2. Cardinality(S \ {C(S)}) <= k - 1
      BY <3>1
    <3> QED BY <3>1, <3>2
  <2>3. \A S \in Few(k - 1) : S \in Few(k) /\ it[S] = F(it, S)
    <3> TAKE S \in Few(k - 1)
    <3>1. S \in SUBSET T /\ Cardinality(S) <= k - 1 /\ Cardinality(S) \in Nat
      BY <1>1
    <3>2. Cardinality(S) <= k
      BY <3>1
    <3>3. it[S] = F(it, S)
      BY <2>1
    <3> QED BY <3>1, <3>2, <3>3
  <2> HIDE DEF Few
  <2>4. ASSUME NEW S \in Few(k) PROVE F(it, S) \in Nat
    <3>1. CASE S = {}
      BY <3>1
    <3>2. CASE S # {}
      <4>1. W[C(S)] \in Nat /\ it[S \ {C(S)}] \in Nat
        BY <2>2, <3>2
      <4> QED BY <3>2, <4>1
    <3> QED BY <3>1, <3>2
  <2>5. jt \in [Few(k) -> Nat]
    <3> HIDE DEF F
    <3> QED BY <2>4
  <2>6. \A S \in Few(k - 1) : jt[S] = it[S]
    <3> HIDE DEF F
    <3> QED BY <2>3
  <2>7. Eq(k, jt)
    <3>1. ASSUME NEW S \in Few(k) PROVE jt[S] = F(jt, S)
      <4>1. jt[S] = F(it, S)
        OBVIOUS
      <4> HIDE DEF jt
      <4> QED BY <2>2, <2>6, <4>1
    <3> HIDE DEF jt, F
    <3> QED BY <3>1
  <2> HIDE DEF jt, Eq
  <2>8. \E gt \in [Few(k) -> Nat] : Eq(k, gt)
    BY <2>5, <2>7
  <2> QED BY <2>8
<1>5. n \in P
  <2> HIDE DEF P
  <2>1. 0..n \subseteq P
    BY <1>3, <1>4, UpTo
  <2> QED BY <2>1
<1>6. PICK it \in [Few(n) -> Nat] : Eq(n, it)
  BY <1>5
<1>7. Few(n) = SUBSET T
  BY <1>1
<1> QED
  BY <1>6, <1>7 DEF C, SetSum

\* It is a number.
LEMMA SetSumNat ==
    ASSUME NEW n \in Nat, NEW T \in SUBSET (1..n), NEW W \in [1..n -> Nat],
           NEW it, SetSum(T, W, it)
    PROVE  it[T] \in Nat
<1> DEFINE C(S) == CHOOSE x \in S : TRUE
           P == {k \in 0..n : \A S \in SUBSET T : Cardinality(S) = k => it[S] \in Nat}
<1>1. \A S \in SUBSET T :
         it[S] = IF S = {} THEN 0 ELSE W[C(S)] + it[S \ {C(S)}]
  BY Zenon DEF SetSum
<1>2. \A S \in SUBSET T : S # {} =>
         C(S) \in S /\ Cardinality(S \ {C(S)}) = Cardinality(S) - 1
  BY SubsetsShrink
<1> HIDE DEF C
<1>3. 0 \in P
  <2>1. ASSUME NEW S \in SUBSET T, Cardinality(S) = 0 PROVE it[S] \in Nat
    <3>1. IsFiniteSet(S)
      BY SubsetsShrink
    <3>2. S = {}
      BY <2>1, <3>1, FS_EmptySet
    <3>3. it[{}] = 0
      BY <1>1, Zenon
    <3> QED BY <3>2, <3>3
  <2> QED BY <2>1
<1>4. \A k \in 1..n : k - 1 \in P => k \in P
  <2> TAKE k \in 1..n
  <2> HAVE k - 1 \in P
  <2>1. ASSUME NEW S \in SUBSET T, Cardinality(S) = k PROVE it[S] \in Nat
    <3>1. S # {}
      <4>1. Cardinality({}) = 0
        BY FS_EmptySet
      <4>2. Cardinality(S) # Cardinality({})
        BY <2>1, <4>1
      <4> QED BY <4>2, Zenon
    <3>2. C(S) \in S /\ Cardinality(S \ {C(S)}) = k - 1
      BY <1>2, <2>1, <3>1
    <3>3. it[S] = W[C(S)] + it[S \ {C(S)}]
      BY <1>1, <3>1
    <3>4. W[C(S)] \in Nat /\ it[S \ {C(S)}] \in Nat
      BY <3>2
    <3> QED BY <3>3, <3>4
  <2> QED BY <2>1
<1>5. Cardinality(T) \in 0..n
  <2>1. T \in SUBSET T
    OBVIOUS
  <2> QED BY <2>1, SubsetsShrink
<1> QED
  <2>1. Cardinality(T) \in P
    <3> HIDE DEF P
    <3>1. 0..n \subseteq P
      BY <1>3, <1>4, UpTo
    <3> QED BY <1>5, <3>1
  <2> QED BY <2>1

\* The denominator is a number.
LEMMA DenominatorNat == Denominator \in Nat
<1> DEFINE s == [r \in 1..MaxRank |-> RrfK + r]
           Step(it, S) == IF S = {} THEN 1 ELSE it[S \ {Max(S)}] * s[Max(S)]
           Eq(it) == it = [S \in SUBSET DOMAIN s |-> Step(it, S)]
           it0 == CHOOSE it : Eq(it)
           G == [x \in (1..MaxRank) \X Nat |-> x[2] * (RrfK + x[1])]
           one == 1
<1>1. Denominator = it0[DOMAIN s]
  BY DEF Denominator, FoldLeft, MapThenFoldSet
<1>2. MaxRank \in Nat /\ DOMAIN s = 1..MaxRank /\ \A k \in 1..MaxRank : s[k] = RrfK + k
  BY FusionAssumption
<1>3. G \in [(1..MaxRank) \X Nat -> Nat] /\ one \in Nat
  BY FusionAssumption
<1>4. \A k \in 1..MaxRank, m \in Nat : G[<<k, m>>] = m * (RrfK + k)
  OBVIOUS
<1> HIDE DEF G, s
<1>5. \E it : Eq(it)
  <2>1. PICK it \in [SUBSET (1..MaxRank) -> Nat] : Folds(MaxRank, one, G, it)
    BY <1>2, <1>3, FoldExists
  <2>2. ASSUME NEW S \in SUBSET (1..MaxRank)
        PROVE  it[S] = Step(it, S)
    <3>1. it[S] = IF S = {} THEN one ELSE G[<<Max(S), it[S \ {Max(S)}]>>]
      BY <2>1 DEF Folds
    <3>2. S # {} => Max(S) \in 1..MaxRank /\ it[S \ {Max(S)}] \in Nat
      <4> HAVE S # {}
      <4>1. Max(S) \in 1..MaxRank
        BY <1>2, MaxAndRest
      <4> QED BY <4>1
    <3>3. CASE S = {}
      BY <3>1, <3>3
    <3>4. CASE S # {}
      <4> DEFINE m == Max(S)
                 rest == it[S \ {m}]
      <4>1. m \in 1..MaxRank /\ rest \in Nat /\ it[S] = G[<<m, rest>>]
        BY <3>1, <3>2, <3>4
      <4> HIDE DEF m, rest
      <4>2. it[S] = rest * s[m]
        BY <1>2, <1>4, <4>1
      <4> QED BY <3>4, <4>2 DEF m, rest
    <3> QED BY <3>3, <3>4
  <2> HIDE DEF Step
  <2>3. it = [S \in SUBSET (1..MaxRank) |-> Step(it, S)]
    BY <2>2
  <2> QED BY <2>3, <1>2
<1>6. Eq(it0)
  <2> HIDE DEF Eq
  <2> QED BY <1>5
<1> HIDE DEF it0
<1>7. it0[{}] = one
  <2>1. {} \in SUBSET DOMAIN s
    OBVIOUS
  <2> QED BY <1>6, <2>1
<1>8. \A k \in 1..MaxRank : it0[1..(k - 1)] \in Nat =>
                               it0[1..k] = G[<<k, it0[1..(k - 1)]>>]
  <2> TAKE k \in 1..MaxRank
  <2> HAVE it0[1..(k - 1)] \in Nat
  <2>1. 1..k \in SUBSET DOMAIN s /\ k \in Nat \ {0}
    BY <1>2
  <2>2. Max(1..k) = k /\ (1..k) \ {k} = 1..(k - 1) /\ 1..k # {}
    BY <2>1, InitialSegment
  <2>3. it0[1..k] = it0[1..(k - 1)] * s[k]
    <3>1. it0[1..k] = Step(it0, 1..k)
      <4> HIDE DEF Step
      <4> QED BY <1>6, <2>1
    <3> QED BY <2>2, <3>1, Zenon
  <2> QED BY <1>2, <1>4, <2>3
<1> HIDE DEF Eq
<1>9. Follow(MaxRank, Nat, one, G, it0)
  BY <1>7, <1>8 DEF Follow
<1>10. PICK v \in [0..MaxRank -> Nat] : Leads(MaxRank, one, G, it0, v)
  BY <1>2, <1>3, <1>9, FoldSteps
<1> QED
  BY <1>1, <1>2, <1>10 DEF Leads

\* A score falls with the rank.
LEMMA ScoreFalls ==
    ASSUME NEW w \in Nat, NEW q \in Nat \ {0}, NEW r \in Nat, q <= r
    PROVE  Score(w, q) \in Nat /\ Score(w, r) \in Nat /\ Score(w, r) <= Score(w, q)
<1> DEFINE d == Denominator
           a == RrfK + q
           b == RrfK + r
           x == d \div a
           y == d \div b
<1>1. d \in Nat /\ a \in Nat \ {0} /\ b \in Nat \ {0} /\ a <= b
  BY DenominatorNat, FusionAssumption
<1>2. Score(w, q) = w * x /\ Score(w, r) = w * y
  BY DEF Score
<1> HIDE DEF d, a, b
<1>3. x \in Nat /\ d < a * (x + 1)
  BY <1>1, Z3
<1>4. y \in Nat /\ b * y <= d
  BY <1>1, Z3
<1> HIDE DEF x, y
<1>5. a * y <= b * y
  BY <1>1, <1>4, Z3
<1>6. a * y < a * (x + 1)
  BY <1>1, <1>3, <1>4, <1>5, Z3
<1>7. y <= x
  BY <1>1, <1>3, <1>4, <1>6, Z3
<1>8. w * y <= w * x /\ w * y \in Nat /\ w * x \in Nat
  BY <1>3, <1>4, <1>7, Z3
<1> QED
  BY <1>2, <1>8

\* What a list adds to the score of a key is a number: nothing if the key is not
\* found, the score of its rank if it is found once.
LEMMA KeyPartSound ==
    ASSUME NEW list, list \in Seq(Range(list)), NEW w \in Nat, NEW key
    PROVE  /\ Part(list, w, key) \in Nat
           /\ Found(list, key) = {} => Part(list, w, key) = 0
           /\ \A r \in Nat : Found(list, key) = {r} => Part(list, w, key) = Score(w, r)
<1> DEFINE T == Found(list, key)
           n == Len(list)
           Step(it, S) == IF S = {} THEN 0
                          ELSE Score(w, CHOOSE x \in S : TRUE)
                               + it[S \ {CHOOSE x \in S : TRUE}]
           Eq(it) == it = [S \in SUBSET T |-> Step(it, S)]
           it0 == CHOOSE it : Eq(it)
           W == [r \in 1..n |-> Score(w, r)]
<1>1. Part(list, w, key) = it0[T]
  BY DEF Part, MapThenSumSet, MapThenFoldSet
<1>2. n \in Nat /\ T \in SUBSET (1..n)
  BY DEF Found
<1>3. W \in [1..n -> Nat]
  <2>1. \A r \in 1..n : r \in Nat \ {0} /\ Score(w, r) \in Nat
    BY ScoreFalls
  <2> QED BY <2>1
<1>4. \A r \in 1..n : W[r] = Score(w, r)
  OBVIOUS
<1> HIDE DEF W, n, T
<1>5. PICK it \in [SUBSET T -> Nat] : SetSum(T, W, it)
  BY <1>2, <1>3, SetSumExists
<1>6. Eq(it)
  <2>1. ASSUME NEW S \in SUBSET T PROVE it[S] = Step(it, S)
    <3> DEFINE x == CHOOSE x \in S : TRUE
    <3>1. CASE S = {}
      BY <1>5, <3>1 DEF SetSum
    <3>2. CASE S # {}
      <4>1. it[S] = W[x] + it[S \ {x}]
        BY <1>5, <3>2 DEF SetSum
      <4>2. x \in S
        <5>1. \E y \in S : TRUE
          BY <3>2
        <5> QED BY <5>1, Zenon
      <4>3. x \in 1..n
        <5> HIDE DEF x
        <5> QED BY <1>2, <4>2
      <4>4. W[x] = Score(w, x)
        <5> HIDE DEF x
        <5> QED BY <1>4, <4>3
      <4> QED BY <3>2, <4>1, <4>4, Zenon
    <3> QED BY <3>1, <3>2
  <2> HIDE DEF Step
  <2>2. it = [S \in SUBSET T |-> Step(it, S)]
    BY <2>1
  <2> QED BY <2>2
<1>7. Eq(it0)
  <2>1. \E jt : Eq(jt)
    BY <1>6
  <2> HIDE DEF Eq
  <2> QED BY <2>1
<1> HIDE DEF it0
<1>8. \A S \in SUBSET T : it0[S] = Step(it0, S)
  <2> HIDE DEF Step
  <2> QED BY <1>7
<1>9. it0[{}] = 0
  BY <1>8
<1>10. T = {} => it0[T] = 0
  BY <1>9
<1>11. ASSUME NEW r \in Nat, T = {r} PROVE it0[T] = Score(w, r)
  <2>1. (CHOOSE x \in {r} : TRUE) = r
    OBVIOUS
  <2>2. {r} \in SUBSET T /\ {r} # {} /\ {r} \ {r} = {}
    BY <1>11
  <2>3. it0[{r}] = Score(w, r) + it0[{}]
    BY <1>8, <2>1, <2>2, Zenon
  <2>4. Score(w, r) \in Nat
    <3>1. r \in Nat \ {0}
      BY <1>2, <1>11
    <3> QED BY <3>1, ScoreFalls
  <2> QED BY <1>9, <1>11, <2>3, <2>4
<1>12. it0[T] \in Nat
  <2>1. ASSUME NEW S \in SUBSET T
        PROVE  it0[S] = IF S = {} THEN 0
                        ELSE W[CHOOSE x \in S : TRUE] + it0[S \ {CHOOSE x \in S : TRUE}]
    <3> DEFINE x == CHOOSE x \in S : TRUE
    <3>1. CASE S = {}
      BY <1>8, <3>1
    <3>2. CASE S # {}
      <4>1. it0[S] = Score(w, x) + it0[S \ {x}]
        BY <1>8, <3>2, Zenon
      <4>2. x \in S
        BY <1>2, <3>2, SubsetsShrink
      <4>3. x \in 1..n
        <5> HIDE DEF x
        <5> QED BY <1>2, <4>2
      <4>4. W[x] = Score(w, x)
        <5> HIDE DEF x
        <5> QED BY <1>4, <4>3
      <4> QED BY <3>2, <4>1, <4>4, Zenon
    <3> QED BY <3>1, <3>2
  <2>2. SetSum(T, W, it0)
    BY <2>1 DEF SetSum
  <2> QED BY <1>2, <1>3, <2>2, SetSumNat
<1> QED
  BY <1>1, <1>10, <1>11, <1>12 DEF T

-----------------------------------------------------------------------------
(* The order of the keys of a fusion.                                       *)

InsertKey(ks, key) == IF Contains(ks, key) THEN ks ELSE Append(ks, key)

KeySet(all) == {Key(all[i]) : i \in DOMAIN all}

\* ks are the keys of the first n hits, each once, in the order in which they
\* occur first.
FirstSeen(all, n, ks) ==
    /\ ks \in Seq(KeySet(all))
    /\ \A i \in 1..n : \E j \in 1..Len(ks) : ks[j] = Key(all[i])
    /\ \A j \in 1..Len(ks) : \E i \in 1..n : ks[j] = Key(all[i])
    /\ \A i, j \in 1..Len(ks) : i < j =>
          /\ ks[i] # ks[j]
          /\ \E p \in 1..n : /\ Key(all[p]) = ks[i]
                             /\ \A q \in 1..n : Key(all[q]) = ks[j] => p < q

\* One hit more.
LEMMA InsertKeeps ==
    ASSUME NEW H, NEW all \in Seq(H), NEW n \in 1..Len(all), NEW ks,
           FirstSeen(all, n - 1, ks)
    PROVE  FirstSeen(all, n, InsertKey(ks, Key(all[n])))
<1> DEFINE key == Key(all[n])
           new == InsertKey(ks, key)
           K == KeySet(all)
<1>1. key \in K
  BY DEF KeySet
<1>2. ks \in Seq(K) /\ Len(ks) \in Nat /\ n \in Nat \ {0}
  BY DEF FirstSeen
<1>3. \A i \in 1..n : i # n => i \in 1..(n - 1)
  BY <1>2
<1>4. \A i \in 1..(n - 1) : i \in 1..n /\ i < n
  BY <1>2
<1> HIDE DEF key, K
<1>5. CASE Contains(ks, key)
  <2>1. new = ks
    BY <1>5 DEF InsertKey
  <2>2. PICK c \in 1..Len(ks) : ks[c] = key
    BY <1>5 DEF Contains
  <2>3. \A i \in 1..n : \E j \in 1..Len(ks) : ks[j] = Key(all[i])
    BY <1>3, <2>2 DEF FirstSeen, key
  <2>4. \A j \in 1..Len(ks) : \E i \in 1..n : ks[j] = Key(all[i])
    BY <1>4 DEF FirstSeen
  <2>5. ASSUME NEW i \in 1..Len(ks), NEW j \in 1..Len(ks), i < j
        PROVE  /\ ks[i] # ks[j]
               /\ \E p \in 1..n : /\ Key(all[p]) = ks[i]
                                  /\ \A q \in 1..n : Key(all[q]) = ks[j] => p < q
    <3>1. PICK p \in 1..(n - 1) :
             /\ Key(all[p]) = ks[i]
             /\ \A q \in 1..(n - 1) : Key(all[q]) = ks[j] => p < q
      BY <2>5 DEF FirstSeen
    <3>2. \A q \in 1..n : Key(all[q]) = ks[j] => p < q
      BY <1>3, <1>4, <3>1
    <3>3. p \in 1..n
      BY <1>4
    <3>4. ks[i] # ks[j]
      BY <2>5 DEF FirstSeen
    <3> QED BY <3>1, <3>2, <3>3, <3>4
  <2> QED BY <1>2, <2>1, <2>3, <2>4, <2>5 DEF FirstSeen, K, key
<1>6. CASE ~ Contains(ks, key)
  <2> DEFINE m == Len(ks) + 1
  <2>1. new = Append(ks, key)
    BY <1>6 DEF InsertKey
  <2>2. /\ new \in Seq(K) /\ Len(new) = m /\ new[m] = key
        /\ \A i \in 1..Len(ks) : new[i] = ks[i]
    BY <1>1, <1>2, <2>1, Appended
  <2>3. \A j \in 1..Len(ks) : ks[j] # key /\ j \in 1..m
    BY <1>2, <1>6 DEF Contains
  <2>4. m \in 1..m /\ \A j \in 1..m : j # m => j \in 1..Len(ks)
    BY <1>2
  <2> HIDE DEF new, m
  <2>5. \A i \in 1..n : \E j \in 1..m : new[j] = Key(all[i])
    <3> TAKE i \in 1..n
    <3>1. CASE i = n
      BY <2>2, <2>4, <3>1 DEF key
    <3>2. CASE i # n
      <4>1. i \in 1..(n - 1)
        BY <1>3, <3>2
      <4>2. PICK j \in 1..Len(ks) : ks[j] = Key(all[i])
        BY <4>1 DEF FirstSeen
      <4> QED BY <2>2, <2>3, <4>2
    <3> QED BY <3>1, <3>2
  <2>6. \A j \in 1..m : \E i \in 1..n : new[j] = Key(all[i])
    <3> TAKE j \in 1..m
    <3>1. CASE j = m
      <4>1. n \in 1..n
        BY <1>2
      <4> QED BY <2>2, <3>1, <4>1 DEF key
    <3>2. CASE j # m
      <4>1. j \in 1..Len(ks)
        BY <2>4, <3>2
      <4>2. PICK i \in 1..(n - 1) : ks[j] = Key(all[i])
        BY <4>1 DEF FirstSeen
      <4> QED BY <1>4, <2>2, <4>1, <4>2
    <3> QED BY <3>1, <3>2
  <2>7. ASSUME NEW i \in 1..m, NEW j \in 1..m, i < j
        PROVE  /\ new[i] # new[j]
               /\ \E p \in 1..n : /\ Key(all[p]) = new[i]
                                  /\ \A q \in 1..n : Key(all[q]) = new[j] => p < q
    <3>1. i \in 1..Len(ks) /\ new[i] = ks[i]
      BY <1>2, <2>2, <2>7 DEF m
    <3>2. CASE j = m
      <4>1. PICK p \in 1..(n - 1) : ks[i] = Key(all[p])
        BY <3>1 DEF FirstSeen
      <4>2. ASSUME NEW q \in 1..n, Key(all[q]) = key PROVE q = n
        <5>1. CASE q \in 1..(n - 1)
          <6>1. PICK c \in 1..Len(ks) : ks[c] = Key(all[q])
            BY <5>1 DEF FirstSeen
          <6> QED BY <2>3, <4>2, <6>1
        <5> QED BY <1>3, <5>1
      <4>3. \A q \in 1..n : Key(all[q]) = new[j] => p < q
        BY <1>4, <2>2, <3>2, <4>2
      <4>4. new[i] # new[j]
        BY <2>2, <2>3, <3>1, <3>2
      <4> QED BY <1>4, <3>1, <4>1, <4>3, <4>4
    <3>3. CASE j # m
      <4>1. j \in 1..Len(ks) /\ new[j] = ks[j]
        BY <2>2, <2>4, <3>3
      <4>2. PICK p \in 1..(n - 1) :
               /\ Key(all[p]) = ks[i]
               /\ \A q \in 1..(n - 1) : Key(all[q]) = ks[j] => p < q
        BY <2>7, <3>1, <4>1 DEF FirstSeen
      <4>3. \A q \in 1..n : Key(all[q]) = ks[j] => p < q
        BY <1>3, <1>4, <4>2
      <4>4. ks[i] # ks[j]
        BY <2>7, <3>1, <4>1 DEF FirstSeen
      <4> QED BY <1>4, <3>1, <4>1, <4>2, <4>3, <4>4
    <3> QED BY <3>2, <3>3
  <2> QED BY <2>2, <2>5, <2>6, <2>7 DEF FirstSeen, K, key, new
<1> QED
  BY <1>5, <1>6

\* The keys of all hits.
LEMMA InsertedSound ==
    ASSUME NEW sem, sem \in Seq(Range(sem)), NEW lex, lex \in Seq(Range(lex))
    PROVE  FirstSeen(sem \o lex, Len(sem \o lex), Inserted(sem, lex))
<1> DEFINE all == sem \o lex
           n == Len(all)
           V == Seq(KeySet(all))
           none == <<>>
           Step(it, S) ==
               IF S = {} THEN <<>>
               ELSE IF Contains(it[S \ {Max(S)}], Key(all[Max(S)])) THEN it[S \ {Max(S)}]
                    ELSE Append(it[S \ {Max(S)}], Key(all[Max(S)]))
           Eq(it) == it = [S \in SUBSET DOMAIN all |-> Step(it, S)]
           it0 == CHOOSE it : Eq(it)
           G == [x \in (1..n) \X V |-> InsertKey(x[2], Key(all[x[1]]))]
<1>1. Inserted(sem, lex) = it0[DOMAIN all]
  BY DEF Inserted, FoldLeft, MapThenFoldSet
<1>2. all \in Seq(Range(sem) \cup Range(lex)) /\ n \in Nat /\ DOMAIN all = 1..n
  OBVIOUS
<1> HIDE DEF all
<1>3. none \in V
  OBVIOUS
<1>4. G \in [(1..n) \X V -> V]
  <2>1. ASSUME NEW k \in 1..n, NEW w \in V PROVE InsertKey(w, Key(all[k])) \in V
    <3>1. Key(all[k]) \in KeySet(all)
      BY <1>2 DEF KeySet
    <3> QED BY <3>1 DEF InsertKey
  <2> HIDE DEF V
  <2> QED BY <2>1
<1>5. \A k \in 1..n, w \in V : G[<<k, w>>] = InsertKey(w, Key(all[k]))
  OBVIOUS
<1> HIDE DEF G, n, V, none
<1>6. \E it : Eq(it)
  <2>1. PICK it \in [SUBSET (1..n) -> V] : Folds(n, none, G, it)
    BY <1>2, <1>3, <1>4, FoldExists
  <2>2. ASSUME NEW S \in SUBSET (1..n)
        PROVE  it[S] = Step(it, S)
    <3>1. it[S] = IF S = {} THEN none ELSE G[<<Max(S), it[S \ {Max(S)}]>>]
      BY <2>1 DEF Folds
    <3>2. S # {} => Max(S) \in 1..n /\ it[S \ {Max(S)}] \in V
      <4> HAVE S # {}
      <4>1. Max(S) \in 1..n
        BY <1>2, MaxAndRest
      <4> QED BY <4>1
    <3> QED BY <3>1, <3>2, <1>5, Zenon DEF InsertKey, none
  <2> HIDE DEF Step
  <2>3. it = [S \in SUBSET (1..n) |-> Step(it, S)]
    BY <2>2
  <2>4. Eq(it)
    BY <2>3, <1>2
  <2> HIDE DEF Eq
  <2> QED BY <2>4
<1>7. Eq(it0)
  <2> HIDE DEF Eq
  <2> QED BY <1>6
<1> HIDE DEF it0
<1>8. \A S \in SUBSET (1..n) : it0[S] = Step(it0, S)
  <2> HIDE DEF Step
  <2> QED BY <1>2, <1>7
<1>9. it0[{}] = none
  BY <1>8, Zenon DEF none
<1>10. \A k \in 1..n : it0[1..(k - 1)] \in V =>
                          it0[1..k] = G[<<k, it0[1..(k - 1)]>>]
  <2> TAKE k \in 1..n
  <2> HAVE it0[1..(k - 1)] \in V
  <2>1. 1..k \in SUBSET (1..n) /\ k \in Nat \ {0}
    BY <1>2
  <2>2. Max(1..k) = k /\ (1..k) \ {k} = 1..(k - 1) /\ 1..k # {}
    BY <2>1, InitialSegment
  <2>3. it0[1..k] = Step(it0, 1..k)
    <3> HIDE DEF Step
    <3> QED BY <1>8, <2>1
  <2>4. it0[1..k] = InsertKey(it0[1..(k - 1)], Key(all[k]))
    BY <2>2, <2>3, Zenon DEF InsertKey
  <2> QED BY <2>4, <1>5
<1> HIDE DEF Eq
<1>11. Follow(n, V, none, G, it0)
  BY <1>9, <1>10 DEF Follow
<1>12. PICK v \in [0..n -> V] : Leads(n, none, G, it0, v)
  BY <1>2, <1>3, <1>4, <1>11, FoldSteps
<1>13. ASSUME NEW k \in 1..n PROVE v[k] = InsertKey(v[k - 1], Key(all[k]))
  <2>1. v[k] = G[<<k, v[k - 1]>>]
    BY <1>12 DEF Leads, Trace
  <2>2. v[k - 1] \in V
    BY <1>2
  <2> QED BY <2>1, <2>2, <1>5
<1>14. Inserted(sem, lex) = v[n] /\ v[0] = <<>>
  BY <1>1, <1>2, <1>12 DEF Leads, Trace, none
<1> DEFINE P == {k \in 0..n : FirstSeen(all, k, v[k])}
<1>15. 0 \in P
  <2>1. <<>> \in Seq(KeySet(all)) /\ 1..Len(<<>>) = {} /\ 1..0 = {}
    OBVIOUS
  <2>2. FirstSeen(all, 0, <<>>)
    BY <2>1 DEF FirstSeen
  <2> QED BY <1>2, <1>14, <2>2
<1>16. \A k \in 1..n : k - 1 \in P => k \in P
  <2> TAKE k \in 1..n
  <2> HAVE k - 1 \in P
  <2>1. FirstSeen(all, k - 1, v[k - 1])
    OBVIOUS
  <2>2. FirstSeen(all, k, v[k])
    BY <1>2, <1>13, <2>1, InsertKeeps DEF n
  <2> QED BY <1>2, <2>2
<1>17. n \in P
  <2> HIDE DEF P
  <2>1. 0..n \subseteq P
    BY <1>2, <1>15, <1>16, UpTo
  <2> QED BY <1>2, <2>1
<1> QED
  BY <1>14, <1>17 DEF all, n

-----------------------------------------------------------------------------
(* The ranking, and the hit that is shown for a key.                        *)

\* The stable sort by the merged scores M: i comes before j.
Before(M, i, j) == M[i] > M[j] \/ (M[i] = M[j] /\ i < j)

Ahead(M, n, i) == {j \in 1..n : j # i /\ Before(M, j, i)}

\* Positions in a list of n keys are given to each key once, the better first.
Ranking(M, n, pl) ==
    /\ pl \in [1..n -> 1..n]
    /\ \A p \in 1..n : \E i \in 1..n : pl[i] = p
    /\ \A i, j \in 1..n : i # j => pl[i] # pl[j]
    /\ \A i, j \in 1..n : Before(M, i, j) => pl[i] < pl[j]

\* How many come before a key is its position in the ranking.
LEMMA RankingExists ==
    ASSUME NEW n \in Nat, NEW M \in [1..n -> Nat]
    PROVE  Ranking(M, n, [i \in 1..n |-> 1 + Cardinality(Ahead(M, n, i))])
<1> DEFINE A(i) == Ahead(M, n, i)
           pl == [i \in 1..n |-> 1 + Cardinality(A(i))]
<1>1. IsFiniteSet(1..n) /\ Cardinality(1..n) = n
  BY FS_Interval
<1>2. \A i \in 1..n : A(i) \in SUBSET (1..n) /\ i \notin A(i)
  BY DEF Ahead
<1>3. \A i, j \in 1..n : Before(M, i, j) => A(i) \subseteq A(j) /\ i \in A(j) /\ i # j
  <2> TAKE i, j \in 1..n
  <2> HAVE Before(M, i, j)
  <2>1. i # j /\ ~ Before(M, j, i)
    BY DEF Before
  <2>2. \A k \in 1..n : Before(M, k, i) => Before(M, k, j)
    BY DEF Before
  <2>3. \A k \in A(i) : k # j
    BY <2>1 DEF Ahead
  <2>4. A(i) \subseteq A(j)
    BY <2>2, <2>3 DEF Ahead
  <2> QED BY <2>1, <2>4 DEF Ahead
<1>4. \A i, j \in 1..n : i # j => Before(M, i, j) \/ Before(M, j, i)
  BY DEF Before
<1> HIDE DEF A
<1>5. \A i \in 1..n : /\ IsFiniteSet(A(i)) /\ Cardinality(A(i)) \in Nat
                      /\ Cardinality(A(i)) < n
  <2> TAKE i \in 1..n
  <2>1. IsFiniteSet(A(i)) /\ Cardinality(A(i)) <= Cardinality(1..n)
    BY <1>1, <1>2, FS_Subset
  <2>2. Cardinality(A(i)) # Cardinality(1..n)
    BY <1>1, <1>2, FS_Subset
  <2>3. Cardinality(A(i)) \in Nat
    BY <2>1, FS_CardinalityType
  <2> QED BY <1>1, <2>1, <2>2, <2>3
<1>6. \A i, j \in 1..n : Before(M, i, j) => Cardinality(A(i)) < Cardinality(A(j))
  <2> TAKE i, j \in 1..n
  <2> HAVE Before(M, i, j)
  <2>1. A(i) \in SUBSET A(j) /\ A(i) # A(j)
    BY <1>2, <1>3
  <2>2. Cardinality(A(i)) <= Cardinality(A(j)) /\ Cardinality(A(i)) # Cardinality(A(j))
    <3>1. IsFiniteSet(A(j))
      BY <1>5
    <3> QED BY <2>1, <3>1, FS_Subset
  <2> QED BY <1>5, <2>2
<1>7. pl \in [1..n -> 1..n]
  <2>1. \A i \in 1..n : 1 + Cardinality(A(i)) \in 1..n
    BY <1>5
  <2> QED BY <2>1
<1>8. \A i, j \in 1..n : Before(M, i, j) => pl[i] < pl[j]
  <2> TAKE i, j \in 1..n
  <2> HAVE Before(M, i, j)
  <2>1. Cardinality(A(i)) < Cardinality(A(j))
    BY <1>6
  <2>2. pl[i] = 1 + Cardinality(A(i)) /\ pl[j] = 1 + Cardinality(A(j))
    OBVIOUS
  <2> QED BY <1>5, <2>1, <2>2
<1> HIDE DEF pl
<1>9. \A i, j \in 1..n : i # j => pl[i] # pl[j]
  <2> TAKE i, j \in 1..n
  <2> HAVE i # j
  <2>1. pl[i] \in 1..n /\ pl[j] \in 1..n
    BY <1>7
  <2>2. pl[i] < pl[j] \/ pl[j] < pl[i]
    BY <1>4, <1>8
  <2> QED BY <2>1, <2>2
<1>10. \A p \in 1..n : \E i \in 1..n : pl[i] = p
  <2>1. pl \in Injection(1..n, 1..n)
    BY <1>7, <1>9 DEF Injection, IsInjective
  <2>2. pl \in Surjection(1..n, 1..n)
    BY <1>1, <2>1, FS_Injection
  <2> QED BY <2>2 DEF Surjection
<1>11. Ranking(M, n, pl)
  BY <1>7, <1>8, <1>9, <1>10 DEF Ranking
<1> QED
  BY <1>11 DEF pl, A

Scores(sem, lex, ks) == [i \in 1..Len(ks) |-> Merged(sem, lex, ks[i])]

LEMMA MergedNat ==
    ASSUME NEW sem, sem \in Seq(Range(sem)), NEW lex, lex \in Seq(Range(lex)), NEW key
    PROVE  Merged(sem, lex, key) \in Nat
<1>1. Part(sem, Semantic, key) \in Nat
  BY FusionAssumption, KeyPartSound
<1>2. Part(lex, Lexical, key) \in Nat
  BY FusionAssumption, KeyPartSound
<1> QED BY <1>1, <1>2 DEF Merged

\* Ranked gives the keys the positions pl.
Positions(sem, lex, ks, pl) ==
    /\ Ranking(Scores(sem, lex, ks), Len(ks), pl)
    /\ \A i \in 1..Len(ks) : Ranked(sem, lex, ks)[pl[i]] = ks[i]

LEMMA RankedSound ==
    ASSUME NEW sem, sem \in Seq(Range(sem)), NEW lex, lex \in Seq(Range(lex)),
           NEW K, NEW ks \in Seq(K)
    PROVE  /\ DOMAIN Ranked(sem, lex, ks) = 1..Len(ks) /\ Len(Ranked(sem, lex, ks)) = Len(ks)
           /\ \E pl : Positions(sem, lex, ks, pl)
<1> DEFINE n == Len(ks)
           M == Scores(sem, lex, ks)
           better(i, j) == \/ Merged(sem, lex, ks[i]) > Merged(sem, lex, ks[j])
                           \/ /\ Merged(sem, lex, ks[i]) = Merged(sem, lex, ks[j])
                              /\ i < j
           place(i) == 1 + Cardinality({j \in DOMAIN ks : j # i /\ better(j, i)})
           pl == [i \in 1..n |-> 1 + Cardinality(Ahead(M, n, i))]
           ranked == [p \in DOMAIN ks |-> ks[CHOOSE i \in DOMAIN ks : place(i) = p]]
<1>1. Ranked(sem, lex, ks) = ranked
  BY DEF Ranked
<1>2. n \in Nat /\ DOMAIN ks = 1..n
  OBVIOUS
<1>3. M \in [1..n -> Nat]
  BY MergedNat DEF Scores
<1>4. Ranking(M, n, pl)
  BY <1>2, <1>3, RankingExists
<1>5. \A i \in 1..n : pl[i] = place(i)
  <2> TAKE i \in 1..n
  <2>1. Ahead(M, n, i) = {j \in DOMAIN ks : j # i /\ better(j, i)}
    BY <1>2 DEF Ahead, Before, Scores
  <2> QED BY <2>1
<1> HIDE DEF pl, place, M, n
<1>6. \A i \in 1..n : ranked[pl[i]] = ks[i]
  <2> TAKE i \in 1..n
  <2> DEFINE j == CHOOSE j \in DOMAIN ks : place(j) = pl[i]
  <2>1. j \in 1..n /\ place(j) = pl[i]
    <3>1. \E k \in DOMAIN ks : place(k) = pl[i]
      BY <1>2, <1>5
    <3> QED BY <1>2, <3>1
  <2>2. pl[i] \in 1..n
    BY <1>4 DEF Ranking
  <2>3. ranked[pl[i]] = ks[j]
    BY <1>2, <2>2
  <2> HIDE DEF j
  <2>4. pl[j] = pl[i]
    BY <1>5, <2>1
  <2>5. j = i
    BY <1>4, <2>1, <2>4 DEF Ranking
  <2> HIDE DEF ranked
  <2> QED BY <2>3, <2>5
<1>7. DOMAIN ranked = 1..n /\ Len(ranked) = n
  BY <1>2
<1> HIDE DEF ranked
<1> QED
  BY <1>1, <1>4, <1>6, <1>7 DEF M, n, Positions

\* The hit shown for a key has it.
LEMMA ShownKey ==
    ASSUME NEW sem, sem \in Seq(Range(sem)), NEW lex, lex \in Seq(Range(lex)), NEW key,
           Found(sem, key) # {} \/ Found(lex, key) # {}
    PROVE  Key(Shown(sem, lex, key)) = key
<1>1. CASE Found(sem, key) # {}
  <2>1. Len(sem) \in Nat /\ Found(sem, key) \in SUBSET (1..Len(sem))
    BY DEF Found
  <2>2. Max(Found(sem, key)) \in Found(sem, key)
    BY <1>1, <2>1, MaxIsIn
  <2> QED BY <1>1, <2>2 DEF Shown, Found
<1>2. CASE Found(sem, key) = {}
  <2>1. Len(lex) \in Nat /\ Found(lex, key) \in SUBSET (0..Len(lex))
    BY DEF Found
  <2>2. Min(Found(lex, key)) \in Found(lex, key)
    BY <1>2, <2>1, LeastIn
  <2> QED BY <1>2, <2>2 DEF Shown, Found
<1> QED
  BY <1>1, <1>2

\* The best hits of a list.
Fetched(list, fetch) == SubSeq(list, 1, Min({fetch, Len(list)}))

LEMMA FetchedFound ==
    ASSUME NEW list, list \in Seq(Range(list)), NEW fetch \in Nat
    PROVE  /\ Fetched(list, fetch) \in Seq(Range(Fetched(list, fetch)))
           /\ \A key : Found(Fetched(list, fetch), key)
                       = {r \in Found(list, key) : r <= fetch}
<1> DEFINE n == Len(list)
           m == Min({fetch, n})
           top == SubSeq(list, 1, m)
<1>1. n \in Nat /\ DOMAIN list = 1..n
  OBVIOUS
<1>2. m \in {fetch, n} /\ m <= fetch /\ m <= n
  <2>1. fetch \in Int /\ n \in Int
    BY <1>1
  <2> HIDE DEF n
  <2> QED BY <2>1, LeastOfTwo
<1>3. m \in 0..n
  BY <1>1, <1>2
<1> HIDE DEF n, m
<1>4. DOMAIN top = 1..m /\ Len(top) = m /\ \A i \in 1..m : top[i] = list[i]
  BY <1>1, <1>3
<1>5. \A r \in 1..n : r \in 1..m <=> r <= fetch
  BY <1>1, <1>2, <1>3
<1>6. top \in Seq(Range(top))
  <2>1. \A i \in 1..m : top[i] \in Range(top)
    BY <1>4 DEF Range
  <2>2. top = [i \in 1..m |-> top[i]]
    BY <1>1, <1>3
  <2> HIDE DEF top
  <2> QED BY <1>1, <1>3, <2>1, <2>2
<1> HIDE DEF top
<1>7. \A key : Found(top, key) = {r \in Found(list, key) : r <= fetch}
  BY <1>1, <1>3, <1>4, <1>5 DEF Found
<1> QED
  BY <1>6, <1>7 DEF Fetched, top, m, n

\* A key is found at most once.
LEMMA FoundOnce ==
    ASSUME NEW list, list \in Seq(Range(list)), NEW key,
           Cardinality(Found(list, key)) <= 1
    PROVE  \A q, r \in Found(list, key) : q = r
<1> DEFINE T == Found(list, key)
<1>1. Len(list) \in Nat /\ T \in SUBSET (1..Len(list))
  BY DEF Found
<1>2. IsFiniteSet(T) /\ Cardinality(T) \in Nat
  <2>1. IsFiniteSet(1..Len(list))
    BY <1>1, FS_Interval
  <2>2. IsFiniteSet(T)
    BY <1>1, <2>1, FS_Subset
  <2> QED BY <2>2, FS_CardinalityType
<1>3. Cardinality(T) = 0 \/ Cardinality(T) = 1
  BY <1>2
<1> HIDE DEF T
<1>4. T = {} \/ \E x : T = {x}
  BY <1>2, <1>3, FS_EmptySet, FS_Singleton
<1> QED
  BY <1>4 DEF T

Above(list, a, b) == \A r \in Found(list, b) : \E q \in Found(list, a) : q < r
Once(list, key) == \A q, r \in Found(list, key) : q = r

\* In a list a key gets no less than one below it.
LEMMA PartAbove ==
    ASSUME NEW list, list \in Seq(Range(list)), NEW w \in Nat, NEW a, NEW b,
           Above(list, a, b), Once(list, a), Once(list, b)
    PROVE  Part(list, w, b) <= Part(list, w, a)
<1>1. Part(list, w, a) \in Nat /\ Part(list, w, b) \in Nat
  BY KeyPartSound
<1>2. CASE Found(list, b) = {}
  <2>1. Part(list, w, b) = 0
    BY <1>2, KeyPartSound
  <2> QED BY <1>1, <2>1
<1>3. CASE Found(list, b) # {}
  <2>1. PICK r \in Found(list, b) : TRUE
    BY <1>3
  <2>2. PICK q \in Found(list, a) : q < r
    BY <2>1 DEF Above
  <2>3. Found(list, a) = {q} /\ Found(list, b) = {r}
    BY <2>1, <2>2 DEF Once
  <2>4. q \in Nat \ {0} /\ r \in Nat
    BY <2>1, <2>2 DEF Found
  <2>5. Part(list, w, a) = Score(w, q)
    BY <2>3, <2>4, KeyPartSound
  <2>6. Part(list, w, b) = Score(w, r)
    BY <2>3, <2>4, KeyPartSound
  <2> QED BY <2>2, <2>4, <2>5, <2>6, ScoreFalls
<1> QED
  BY <1>2, <1>3

\* A key above another one in each list is ranked before it.
LEMMA AboveIsBefore ==
    ASSUME NEW sem, sem \in Seq(Range(sem)), NEW lex, lex \in Seq(Range(lex)),
           NEW a, NEW b, a # b,
           Above(sem, a, b), Once(sem, a), Once(sem, b),
           Above(lex, a, b), Once(lex, a), Once(lex, b),
           NEW i \in 1..Len(Inserted(sem, lex)), Inserted(sem, lex)[i] = b
    PROVE  \E j \in 1..Len(Inserted(sem, lex)) :
              /\ Inserted(sem, lex)[j] = a
              /\ Before(Scores(sem, lex, Inserted(sem, lex)), j, i)
<1> DEFINE ks == Inserted(sem, lex)
           all == sem \o lex
           n == Len(all)
           s == Len(sem)
<1>1. FirstSeen(all, n, ks)
  BY InsertedSound
<1>2. /\ s \in Nat /\ Len(lex) \in Nat /\ n = s + Len(lex)
      /\ DOMAIN sem = 1..s /\ DOMAIN lex = 1..Len(lex)
      /\ \A p \in 1..s : all[p] = sem[p]
      /\ \A p \in 1..Len(lex) : all[s + p] = lex[p]
  OBVIOUS
<1> HIDE DEF ks, all, n, s
<1>3. ASSUME NEW p \in 1..n, Key(all[p]) = b
      PROVE  \E q \in 1..n : Key(all[q]) = a /\ q < p
  <2>1. CASE p <= s
    <3>1. p \in Found(sem, b)
      BY <1>2, <1>3, <2>1 DEF Found
    <3>2. PICK q \in Found(sem, a) : q < p
      BY <3>1 DEF Above
    <3>3. q \in 1..s /\ Key(sem[q]) = a
      BY <1>2, <3>2 DEF Found
    <3>4. q \in 1..n /\ Key(all[q]) = a
      BY <1>2, <3>3
    <3> QED BY <3>2, <3>4
  <2>2. CASE p > s
    <3> DEFINE r == p - s
    <3>1. r \in 1..Len(lex) /\ p = s + r
      BY <1>2, <2>2
    <3> HIDE DEF r
    <3>2. r \in Found(lex, b)
      BY <1>2, <1>3, <3>1 DEF Found
    <3>3. PICK q \in Found(lex, a) : q < r
      BY <3>2 DEF Above
    <3>4. q \in 1..Len(lex) /\ Key(lex[q]) = a
      BY <1>2, <3>3 DEF Found
    <3>5. s + q \in 1..n /\ Key(all[s + q]) = a /\ s + q < p
      BY <1>2, <3>1, <3>3, <3>4
    <3> QED BY <3>5
  <2> QED BY <1>2, <2>1, <2>2
<1>4. PICK p \in 1..n : Key(all[p]) = b
  BY <1>1 DEF FirstSeen, ks
<1>5. PICK q \in 1..n : Key(all[q]) = a
  BY <1>3, <1>4
<1>6. PICK j \in 1..Len(ks) : ks[j] = a
  BY <1>1, <1>5 DEF FirstSeen
<1>7. i \in 1..Len(ks) /\ ks[i] = b /\ i # j
  BY <1>6 DEF ks
<1>8. ~ (i < j)
  <2> SUFFICES ASSUME i < j PROVE FALSE
    OBVIOUS
  <2>1. PICK x \in 1..n :
           Key(all[x]) = b /\ \A y \in 1..n : Key(all[y]) = a => x < y
    <3>1. \E x \in 1..n : /\ Key(all[x]) = ks[i]
                          /\ \A y \in 1..n : Key(all[y]) = ks[j] => x < y
      BY <1>1, <1>6, <1>7 DEF FirstSeen
    <3> QED BY <1>6, <1>7, <3>1
  <2>2. PICK y \in 1..n : Key(all[y]) = a /\ y < x
    BY <1>3, <2>1
  <2> QED BY <1>2, <2>1, <2>2
<1>9. Merged(sem, lex, b) <= Merged(sem, lex, a)
  <2>1. /\ Part(sem, Semantic, b) <= Part(sem, Semantic, a)
        /\ Part(sem, Semantic, a) \in Nat /\ Part(sem, Semantic, b) \in Nat
    BY FusionAssumption, PartAbove, KeyPartSound
  <2>2. /\ Part(lex, Lexical, b) <= Part(lex, Lexical, a)
        /\ Part(lex, Lexical, a) \in Nat /\ Part(lex, Lexical, b) \in Nat
    BY FusionAssumption, PartAbove, KeyPartSound
  <2> QED BY <2>1, <2>2 DEF Merged
<1>10. Before(Scores(sem, lex, ks), j, i)
  <2>1. Merged(sem, lex, a) \in Nat /\ Merged(sem, lex, b) \in Nat
    BY MergedNat
  <2>2. j < i
    <3>1. Len(ks) \in Nat
      BY <1>1 DEF FirstSeen
    <3> QED BY <1>7, <1>8, <3>1
  <2> QED BY <1>6, <1>7, <1>9, <2>1, <2>2 DEF Before, Scores
<1> QED
  BY <1>6, <1>10 DEF ks

FuseInv ==
    task.kind = "fuse" =>
        /\ task.lists \in ResultLists /\ task.topK \in TopKs
        /\ \/ result = <<>>
           \/ result = [hits |-> SearchHybrid(task.lists[1], task.lists[2], task.topK)]

\* After search_hybrid the hits are those of the lists.
LEMMA FuseInvariant == Spec => []FuseInv
<1>1. Init => FuseInv
  <2> SUFFICES ASSUME Init, task.kind = "fuse"
               PROVE  task.lists \in ResultLists /\ task.topK \in TopKs /\ result = <<>>
    BY DEF FuseInv
  <2>1. \/ task \in [kind : {"fuse"}, lists : ResultLists, topK : TopKs]
        \/ task.kind \in {"chunk", "library", "sections", "resolve"}
    BY DEF Init
  <2> QED BY <2>1 DEF Init
<1>2. FuseInv /\ [Next]_vars => FuseInv'
  <2> SUFFICES ASSUME FuseInv, [Next]_vars, task.kind = "fuse", task' = task
               PROVE  /\ task.lists \in ResultLists /\ task.topK \in TopKs
                      /\ \/ result' = <<>>
                         \/ result' = [hits |-> SearchHybrid(task.lists[1], task.lists[2],
                                                             task.topK)]
    BY DEF FuseInv, Next, vars, Execute, Library, Sections, Fuse, Resolve
  <2>1. CASE Fuse
    BY <2>1 DEF FuseInv, Fuse
  <2>2. ASSUME Execute \/ Library \/ Sections \/ Resolve PROVE FALSE
    BY <2>2 DEF Execute, Library, Sections, Resolve, Pending
  <2>3. CASE UNCHANGED vars
    BY <2>3 DEF FuseInv, vars
  <2> QED BY <2>1, <2>2, <2>3 DEF Next
<1> QED
  BY <1>1, <1>2, PTL DEF Spec

\* The hits are the first m of the keys in their positions pl.
TopHits(s, l, hits, m, pl) ==
    LET ks == Inserted(s, l) IN
    /\ m \in 0..Len(ks)
    /\ DOMAIN hits = 1..m
    /\ Ranking(Scores(s, l, ks), Len(ks), pl)
    /\ \A i \in 1..Len(ks) : pl[i] <= m => Key(hits[pl[i]].hit) = ks[i]

\* What search_hybrid returns: the best of the ranked keys.
LEMMA HitsSound ==
    ASSUME NEW sem, sem \in Seq(Range(sem)), NEW lex, lex \in Seq(Range(lex)),
           NEW topK \in Nat
    PROVE  \E m, pl : TopHits(Fetched(sem, 3 * topK), Fetched(lex, 3 * topK),
                             SearchHybrid(sem, lex, topK), m, pl)
<1> DEFINE s == Fetched(sem, 3 * topK)
           l == Fetched(lex, 3 * topK)
           hits == SearchHybrid(sem, lex, topK)
           ks == Inserted(s, l)
           ranked == Ranked(s, l, ks)
           m == Min({topK, Len(ranked)})
<1>1. hits = [p \in 1..m |-> [hit |-> Shown(s, l, ranked[p]),
                              score |-> Merged(s, l, ranked[p])]]
  BY DEF SearchHybrid, Fetched
<1> HIDE DEF hits
<1>2. s \in Seq(Range(s)) /\ l \in Seq(Range(l))
  <2>1. 3 * topK \in Nat
    OBVIOUS
  <2> QED BY <2>1, FetchedFound
<1> HIDE DEF s, l
<1>3. FirstSeen(s \o l, Len(s \o l), ks)
  BY <1>2, InsertedSound
<1>4. ks \in Seq(KeySet(s \o l)) /\ Len(ks) \in Nat
  BY <1>3 DEF FirstSeen
<1>5. Len(ranked) = Len(ks)
  <2> HIDE DEF ks
  <2> QED BY <1>2, <1>4, RankedSound
<1>6. PICK pl : /\ Ranking(Scores(s, l, ks), Len(ks), pl)
                /\ \A i \in 1..Len(ks) : ranked[pl[i]] = ks[i]
  <2> HIDE DEF ks
  <2>1. \E pl : Positions(s, l, ks, pl)
    BY <1>2, <1>4, RankedSound
  <2> QED BY <2>1 DEF Positions
<1>7. m \in 0..Len(ks)
  <2>1. topK \in Int /\ Len(ranked) \in Int
    BY <1>4, <1>5
  <2> HIDE DEF ranked, ks
  <2>2. m \in {topK, Len(ranked)} /\ m <= Len(ranked)
    BY <2>1, LeastOfTwo
  <2> HIDE DEF m
  <2> QED BY <1>4, <1>5, <2>2
<1> HIDE DEF m, ranked, ks
<1>8. ASSUME NEW i \in 1..Len(ks), pl[i] <= m PROVE Key(hits[pl[i]].hit) = ks[i]
  <2>1. pl[i] \in 1..m
    <3>1. pl[i] \in 1..Len(ks)
      BY <1>6 DEF Ranking
    <3> QED BY <1>4, <1>7, <1>8, <3>1
  <2>2. hits[pl[i]].hit = Shown(s, l, ks[i])
    BY <1>1, <1>6, <2>1
  <2>3. Found(s, ks[i]) # {} \/ Found(l, ks[i]) # {}
    <3>1. PICK p \in 1..Len(s \o l) : ks[i] = Key((s \o l)[p])
      BY <1>3 DEF FirstSeen
    <3>2. p \in 1..Len(s) \/ (p - Len(s) \in 1..Len(l) /\ (s \o l)[p] = l[p - Len(s)])
      BY <1>2, <3>1
    <3>3. CASE p \in 1..Len(s)
      <4>1. (s \o l)[p] = s[p] /\ p \in DOMAIN s
        BY <1>2, <3>3
      <4> QED BY <3>1, <4>1 DEF Found
    <3>4. CASE p - Len(s) \in 1..Len(l) /\ (s \o l)[p] = l[p - Len(s)]
      <4>1. p - Len(s) \in DOMAIN l
        BY <1>2, <3>4
      <4> QED BY <3>1, <3>4, <4>1 DEF Found
    <3> QED BY <3>2, <3>3, <3>4
  <2> QED BY <1>2, <2>2, <2>3, ShownKey
<1>9. DOMAIN hits = 1..m
  BY <1>1
<1>10. TopHits(s, l, hits, m, pl)
  BY <1>6, <1>7, <1>8, <1>9 DEF ks, TopHits
<1> QED
  BY <1>10 DEF s, l, hits

\* DominanceRespected: whatever the two lists, the weights and the number of hits
\* are, a key that is above another one in each list that has the other is above
\* it in the merged list, too (search_hybrid).
THEOREM FusionRespectsRanks == Spec => []DominanceRespected
<1>1. FuseInv => DominanceRespected
  <2> DEFINE sem == task.lists[1]
             lex == task.lists[2]
             s == Fetched(sem, 3 * task.topK)
             l == Fetched(lex, 3 * task.topK)
             ks == Inserted(s, l)
             hits == result.hits
  <2> SUFFICES ASSUME FuseInv, Done("fuse"), NEW a, NEW b, a # b,
                      Cardinality(Found(sem, a)) <= 1, Cardinality(Found(lex, a)) <= 1,
                      Cardinality(Found(sem, b)) <= 1, Cardinality(Found(lex, b)) <= 1,
                      Above(sem, a, b), Above(lex, a, b),
                      NEW p \in DOMAIN hits, Key(hits[p].hit) = b
               PROVE  \E q \in DOMAIN hits : Key(hits[q].hit) = a /\ q < p
    BY DEF DominanceRespected, Above
  <2>1. /\ task.lists \in ResultLists /\ task.topK \in Nat
        /\ hits = SearchHybrid(sem, lex, task.topK)
    <3>1. task.lists \in ResultLists /\ task.topK \in TopKs
          /\ result = [hits |-> SearchHybrid(task.lists[1], task.lists[2], task.topK)]
      BY DEF FuseInv, Done
    <3> QED BY <3>1, ResultsAssumption
  <2>2. sem \in Seq(Range(sem)) /\ lex \in Seq(Range(lex))
    BY <2>1, ResultsAssumption
  <2>3. 3 * task.topK \in Nat
    BY <2>1
  <2> HIDE DEF sem, lex, hits
  <2>4. /\ s \in Seq(Range(s)) /\ l \in Seq(Range(l))
        /\ \A key : /\ Found(s, key) = {r \in Found(sem, key) : r <= 3 * task.topK}
                    /\ Found(l, key) = {r \in Found(lex, key) : r <= 3 * task.topK}
    BY <2>2, <2>3, FetchedFound
  <2>5. /\ Once(sem, a) /\ Once(sem, b) /\ Once(lex, a) /\ Once(lex, b)
    BY <2>2, FoundOnce DEF Once
  <2> PICK m, pl :
         /\ m \in 0..Len(ks)
         /\ DOMAIN hits = 1..m
         /\ Ranking(Scores(s, l, ks), Len(ks), pl)
         /\ \A i \in 1..Len(ks) : pl[i] <= m => Key(hits[pl[i]].hit) = ks[i]
    <3>1. \E m, pl : TopHits(s, l, hits, m, pl)
      BY <2>1, <2>2, HitsSound
    <3> QED BY <3>1 DEF TopHits
  <2>6. Len(ks) \in Nat
    BY <2>4, InsertedSound DEF FirstSeen
  <2> HIDE DEF s, l
  <2>7. /\ Once(s, a) /\ Once(s, b) /\ Once(l, a) /\ Once(l, b)
    BY <2>4, <2>5 DEF Once
  <2>8. Above(s, a, b)
    <3>1. \A r \in Found(sem, a) \cup Found(sem, b) : r \in Nat
      BY <2>2 DEF Found
    <3> QED BY <2>1, <2>4, <3>1 DEF Above
  <2>9. Above(l, a, b)
    <3>1. \A r \in Found(lex, a) \cup Found(lex, b) : r \in Nat
      BY <2>2 DEF Found
    <3> QED BY <2>1, <2>4, <3>1 DEF Above
  <2>10. PICK i \in 1..Len(ks) : pl[i] = p
    <3>1. p \in 1..Len(ks)
      BY <2>6
    <3> QED BY <3>1 DEF Ranking
  <2>11. ks[i] = b
    BY <2>6, <2>10
  <2>12. PICK j \in 1..Len(ks) : ks[j] = a /\ Before(Scores(s, l, ks), j, i)
    BY <2>4, <2>7, <2>8, <2>9, <2>11, AboveIsBefore
  <2> HIDE DEF ks
  <2>13. pl[j] < pl[i] /\ pl[j] \in 1..Len(ks)
    BY <2>12 DEF Ranking
  <2>14. pl[j] \in 1..m
    BY <2>6, <2>10, <2>13
  <2> QED BY <2>10, <2>12, <2>13, <2>14
<1> QED
  BY <1>1, FuseInvariant, PTL

-----------------------------------------------------------------------------
(* The search for a chain of steps: walks over the registered steps.        *)

\* w leads from the source to f in n steps.
Walk(steps, source, n, w, f) ==
    /\ w \in Seq(ToSet(steps)) /\ Len(w) = n
    /\ n = 0 => f = source
    /\ n > 0 => w[1].input = source /\ w[n].output = f
    /\ \A i \in 1..(n - 1) : w[i].output = w[i + 1].input

Reached(steps, source, n, f) == \E w : Walk(steps, source, n, w, f)

\* A walk goes on with a step that takes the format it leads to.
LEMMA WalkOn ==
    ASSUME NEW steps, NEW source, NEW n \in Nat, NEW w, NEW e \in ToSet(steps),
           Walk(steps, source, n, w, e.input)
    PROVE  Walk(steps, source, n + 1, Append(w, e), e.output)
<1> DEFINE E == ToSet(steps)
           v == Append(w, e)
<1>1. w \in Seq(E) /\ Len(w) = n
  BY DEF Walk
<1>2. e \in E
  OBVIOUS
<1> HIDE DEF E
<1>3. /\ v \in Seq(E) /\ Len(v) = n + 1 /\ v[n + 1] = e
      /\ \A i \in 1..n : v[i] = w[i]
  BY <1>1, <1>2, Appended
<1> HIDE DEF v
<1>4. v[1].input = source
  <2>1. CASE n = 0
    BY <1>3, <2>1 DEF Walk
  <2>2. CASE n > 0
    <3>1. 1 \in 1..n
      BY <2>2
    <3> QED BY <1>3, <2>2, <3>1 DEF Walk
  <2> QED BY <2>1, <2>2
<1>5. ASSUME NEW i \in 1..n PROVE v[i].output = v[i + 1].input
  <2>1. CASE i = n
    <3>1. w[n].output = e.input
      BY <2>1 DEF Walk
    <3> QED BY <1>3, <2>1, <3>1
  <2>2. CASE i # n
    <3>1. i \in 1..(n - 1) /\ i + 1 \in 1..n
      BY <2>2
    <3>2. w[i].output = w[i + 1].input
      BY <3>1 DEF Walk
    <3> QED BY <1>3, <3>1, <3>2
  <2> QED BY <2>1, <2>2
<1>6. (n + 1) - 1 = n /\ n + 1 > 0 /\ n + 1 # 0
  OBVIOUS
<1> QED
  BY <1>3, <1>4, <1>5, <1>6 DEF Walk, v, E

\* The last step of a walk takes a format that a walk leads to.
LEMMA WalkBack ==
    ASSUME NEW steps, NEW source, NEW n \in Nat, NEW f, Reached(steps, source, n + 1, f)
    PROVE  \E e \in ToSet(steps) : e.output = f /\ Reached(steps, source, n, e.input)
<1> DEFINE E == ToSet(steps)
<1>1. PICK w : Walk(steps, source, n + 1, w, f)
  BY DEF Reached
<1> DEFINE v == SubSeq(w, 1, n)
<1>2. w \in Seq(E) /\ Len(w) = n + 1
  BY <1>1 DEF Walk
<1> HIDE DEF E
<1>3. /\ v \in Seq(E) /\ Len(v) = n /\ w[n + 1] \in E
      /\ \A i \in 1..n : v[i] = w[i]
  BY <1>2
<1> HIDE DEF v
<1>4. w[n + 1].output = f /\ w[1].input = source
  BY <1>1 DEF Walk
<1>5. \A i \in 1..n : w[i].output = w[i + 1].input
  BY <1>1 DEF Walk
<1>6. Walk(steps, source, n, v, w[n + 1].input)
  <2>1. CASE n = 0
    BY <1>3, <1>4, <2>1 DEF Walk, E
  <2>2. CASE n > 0
    <3>1. 1 \in 1..n /\ n \in 1..n
      BY <2>2
    <3>2. v[1].input = source /\ v[n].output = w[n + 1].input
      BY <1>3, <1>4, <1>5, <3>1
    <3>3. ASSUME NEW i \in 1..(n - 1) PROVE v[i].output = v[i + 1].input
      <4>1. i \in 1..n /\ i + 1 \in 1..n
        OBVIOUS
      <4> QED BY <1>3, <1>5, <4>1
    <3> QED BY <1>3, <2>2, <3>2, <3>3 DEF Walk, E
  <2> QED BY <2>1, <2>2
<1> QED
  BY <1>3, <1>4, <1>6 DEF Reached, E

\* No walk of no steps leads anywhere but to the source.
LEMMA WalkNone ==
    ASSUME NEW steps, NEW source
    PROVE  /\ Walk(steps, source, 0, <<>>, source)
           /\ \A f : Reached(steps, source, 0, f) => f = source
<1>1. <<>> \in Seq(ToSet(steps)) /\ Len(<<>>) = 0 /\ ~ (0 > 0)
      /\ 1..(0 - 1) = {}
  OBVIOUS
<1> QED
  BY <1>1 DEF Walk, Reached

-----------------------------------------------------------------------------
(* What the search keeps.                                                   *)

\* The formats a search can meet before it finds the target.
KnownFormats(steps, source, target) ==
    ({source} \cup {e.output : e \in ToSet(steps)}) \ {target}

Searches(steps, source, target) ==
    [found : Seq(Seq(ToSet(steps))), visited : SUBSET KnownFormats(steps, source, target),
     queue : Seq([format : KnownFormats(steps, source, target), path : Seq(ToSet(steps))])]

Queued(st, f) == \E i \in 1..Len(st.queue) : st.queue[i].format = f

\* All steps from f are done.
Expanded(steps, st, f) == \A e \in ToSet(steps) : e.input = f => e.output \in st.visited

\* The chain found is a shortest one, and has no more steps than there are.
Shortest(steps, source, target, st) ==
    /\ Len(st.found) = 1
    /\ \E m \in 1..Len(steps) :
          /\ Walk(steps, source, m, st.found[1], target)
          /\ \A j \in 0..(m - 1) : ~ Reached(steps, source, j, target)

\* Nothing leads to the target.
Exhausted(steps, source, target, st) ==
    /\ st.found = <<>> /\ st.queue = <<>>
    /\ \A n \in Nat : ~ Reached(steps, source, n, target)

\* The search has taken `pops` formats off its queue, all that walks of d steps
\* lead to are known, and what waits is d or d + 1 steps away, the nearer first.
Frontier(steps, source, target, st, d, pops) ==
    /\ st \in Searches(steps, source, target) /\ st.found = <<>>
    /\ source \in st.visited
    /\ \A i \in 1..Len(st.queue) :
          LET q == st.queue[i] IN
          /\ q.format \in st.visited
          /\ Len(q.path) \in {d, d + 1}
          /\ Walk(steps, source, Len(q.path), q.path, q.format)
          /\ \A j \in 0..(Len(q.path) - 1) : ~ Reached(steps, source, j, q.format)
    /\ \A i, j \in 1..Len(st.queue) :
          i < j => Len(st.queue[i].path) <= Len(st.queue[j].path)
    /\ \A j \in 0..d : \A f : Reached(steps, source, j, f) => f \in st.visited
    /\ Cardinality(st.visited) = pops + Len(st.queue)

\* Before a format is popped: the nearest is d steps away.
Waiting(steps, source, target, st, d, pops) ==
    /\ d \in Nat /\ d <= pops
    /\ Frontier(steps, source, target, st, d, pops)
    /\ st.queue # <<>> /\ Len(st.queue[1].path) = d
    /\ \A f \in st.visited : Queued(st, f) \/ Expanded(steps, st, f)

\* While the first n of the steps have been looked at from f.
Scanning(steps, source, target, st, d, pops, f, n) ==
    /\ Frontier(steps, source, target, st, d, pops)
    /\ \A g \in st.visited : g = f \/ Queued(st, g) \/ Expanded(steps, st, g)
    /\ \A i \in 1..n : steps[i].input = f => steps[i].output \in st.visited

\* There are not more formats to meet than steps, and one less if a step leads
\* to the target.
LEMMA FormatsBounded ==
    ASSUME NEW R, NEW steps \in Seq(R), NEW source, NEW target,
           NEW S \in SUBSET KnownFormats(steps, source, target)
    PROVE  /\ IsFiniteSet(S) /\ Cardinality(S) \in Nat
           /\ Cardinality(S) <= Len(steps) + 1
           /\ \A t \in 1..Len(steps) :
                 steps[t].output = target => Cardinality(S) <= Len(steps)
<1> DEFINE n == Len(steps)
           h(i) == IF i = 0 THEN source ELSE steps[i].output
           A == {i \in 0..n : h(i) # target}
           B == {h(i) : i \in A}
           g == [i \in A |-> h(i)]
<1>1. n \in Nat /\ DOMAIN steps = 1..n
  OBVIOUS
<1>2. IsFiniteSet(0..n) /\ Cardinality(0..n) = n + 1
  BY <1>1, FS_Interval
<1>3. A \in SUBSET (0..n)
  OBVIOUS
<1>4. S \subseteq B
  <2> SUFFICES ASSUME NEW x \in S PROVE x \in B
    OBVIOUS
  <2>1. x # target /\ (x = source \/ \E e \in ToSet(steps) : x = e.output)
    BY DEF KnownFormats
  <2>2. CASE x = source
    <3>1. 0 \in A /\ h(0) = x
      BY <1>1, <2>1, <2>2
    <3> QED BY <3>1
  <2>3. CASE \E e \in ToSet(steps) : x = e.output
    <3>1. PICK i \in 1..n : x = steps[i].output
      BY <1>1, <2>3 DEF ToSet
    <3>2. i # 0 /\ i \in 0..n
      BY <1>1
    <3>3. i \in A /\ h(i) = x
      BY <2>1, <3>1, <3>2
    <3> QED BY <3>3
  <2> QED BY <2>1, <2>2, <2>3
<1>5. g \in Surjection(A, B)
  <2> HIDE DEF A, h
  <2>1. g \in [A -> B] /\ \A b \in B : \E i \in A : g[i] = b
    OBVIOUS
  <2> HIDE DEF g, B
  <2> QED BY <2>1 DEF Surjection
<1>6. \A t \in 1..n : steps[t].output = target => A \in SUBSET ((0..n) \ {t})
  <2> TAKE t \in 1..n
  <2> HAVE steps[t].output = target
  <2>1. t # 0
    BY <1>1
  <2>2. t \notin A
    BY <2>1
  <2> QED BY <1>3, <2>2
<1> HIDE DEF A, B, g, h
<1>7. IsFiniteSet(A) /\ Cardinality(A) <= n + 1 /\ Cardinality(A) \in Nat
  <2>1. IsFiniteSet(A) /\ Cardinality(A) <= Cardinality(0..n)
    BY <1>2, <1>3, FS_Subset
  <2> QED BY <1>2, <2>1, FS_CardinalityType
<1>8. IsFiniteSet(B) /\ Cardinality(B) <= Cardinality(A) /\ Cardinality(B) \in Nat
  <2>1. IsFiniteSet(B) /\ Cardinality(B) <= Cardinality(A)
    BY <1>5, <1>7, FS_Surjection
  <2> QED BY <2>1, FS_CardinalityType
<1>9. IsFiniteSet(S) /\ Cardinality(S) <= Cardinality(B) /\ Cardinality(S) \in Nat
  <2>1. IsFiniteSet(S) /\ Cardinality(S) <= Cardinality(B)
    BY <1>4, <1>8, FS_Subset
  <2> QED BY <2>1, FS_CardinalityType
<1>10. ASSUME NEW t \in 1..n, steps[t].output = target PROVE Cardinality(S) <= n
  <2> DEFINE C == (0..n) \ {t}
  <2>1. A \in SUBSET C
    BY <1>6, <1>10
  <2>2. IsFiniteSet(C) /\ Cardinality(C) = n
    <3>1. t \in 0..n
      BY <1>1
    <3>2. IsFiniteSet(C) /\ Cardinality(C) = Cardinality(0..n) - 1
      BY <1>2, <3>1, FS_RemoveElement
    <3> QED BY <1>1, <1>2, <3>2
  <2> HIDE DEF C
  <2>3. Cardinality(A) <= Cardinality(C)
    BY <2>1, <2>2, FS_Subset
  <2> QED BY <1>1, <1>7, <1>8, <1>9, <2>2, <2>3
<1>11. Cardinality(S) <= n + 1
  BY <1>1, <1>7, <1>8, <1>9
<1> QED
  BY <1>9, <1>10, <1>11 DEF n

\* Walks of any length end in known formats if all known ones are expanded.
LEMMA AllExpanded ==
    ASSUME NEW steps, NEW source, NEW st, source \in st.visited,
           \A f \in st.visited : Expanded(steps, st, f)
    PROVE  \A n \in Nat : \A f : Reached(steps, source, n, f) => f \in st.visited
<1> TAKE n \in Nat
<1> DEFINE P == {k \in 0..n : \A f : Reached(steps, source, k, f) => f \in st.visited}
<1>1. 0 \in P
  <2>1. \A f : Reached(steps, source, 0, f) => f \in st.visited
    BY WalkNone
  <2>2. 0 \in 0..n
    OBVIOUS
  <2> QED BY <2>1, <2>2
<1>2. \A k \in 1..n : k - 1 \in P => k \in P
  <2> TAKE k \in 1..n
  <2> HAVE k - 1 \in P
  <2>1. ASSUME NEW f, Reached(steps, source, k, f) PROVE f \in st.visited
    <3> DEFINE j == k - 1
    <3>1. j \in Nat /\ Reached(steps, source, j + 1, f)
      BY <2>1
    <3> HIDE DEF j
    <3>2. PICK e \in ToSet(steps) : e.output = f /\ Reached(steps, source, j, e.input)
      BY <3>1, WalkBack
    <3>3. e.input \in st.visited
      BY <3>2 DEF j
    <3> QED BY <3>2, <3>3 DEF Expanded
  <2> QED BY <2>1
<1>3. n \in P
  <2> HIDE DEF P
  <2>1. 0..n \subseteq P
    BY <1>1, <1>2, UpTo
  <2> QED BY <2>1
<1> QED
  BY <1>3

\* A popped format is looked at next.
LEMMA PopKeeps ==
    ASSUME NEW R, NEW steps \in Seq(R), NEW source, NEW target, NEW st,
           NEW d, NEW pops \in Nat, Waiting(steps, source, target, st, d, pops)
    PROVE  LET q == st.queue[1]
               nw == [st EXCEPT !.queue = Tail(st.queue)] IN
           /\ q.path \in Seq(ToSet(steps)) /\ Len(q.path) = d
           /\ Walk(steps, source, d, q.path, q.format)
           /\ Scanning(steps, source, target, nw, d, pops + 1, q.format, 0)
<1> DEFINE q == st.queue[1]
           rest == Tail(st.queue)
           nw == [st EXCEPT !.queue = rest]
           Q == [format : KnownFormats(steps, source, target), path : Seq(ToSet(steps))]
           n == Len(st.queue)
<1>1. /\ Frontier(steps, source, target, st, d, pops) /\ d \in Nat
      /\ st.queue # <<>> /\ Len(q.path) = d
      /\ \A f \in st.visited : Queued(st, f) \/ Expanded(steps, st, f)
  BY DEF Waiting
<1>2. st \in Searches(steps, source, target) /\ st.queue \in Seq(Q)
  BY <1>1 DEF Frontier, Searches
<1> HIDE DEF Q
<1>3. /\ n \in Nat \ {0} /\ rest \in Seq(Q) /\ Len(rest) = n - 1 /\ q \in Q
      /\ \A i \in 1..(n - 1) : rest[i] = st.queue[i + 1] /\ i + 1 \in 1..n
      /\ 1 \in 1..n
  BY <1>1, <1>2
<1>4. /\ nw \in Searches(steps, source, target)
      /\ nw.queue = rest /\ nw.visited = st.visited /\ nw.found = st.found
  BY <1>2, <1>3 DEF Searches, Q
<1> HIDE DEF nw, rest, n, q
<1>5. Walk(steps, source, d, q.path, q.format) /\ q.path \in Seq(ToSet(steps))
  BY <1>1, <1>3 DEF Frontier, q, n, Q
<1>6. Frontier(steps, source, target, nw, d, pops + 1)
  <2>1. ASSUME NEW i \in 1..(n - 1)
        PROVE  LET p == rest[i] IN
               /\ p.format \in st.visited
               /\ Len(p.path) \in {d, d + 1}
               /\ Walk(steps, source, Len(p.path), p.path, p.format)
               /\ \A j \in 0..(Len(p.path) - 1) : ~ Reached(steps, source, j, p.format)
    BY <1>1, <1>3 DEF Frontier, n
  <2>2. ASSUME NEW i \in 1..(n - 1), NEW j \in 1..(n - 1), i < j
        PROVE  Len(rest[i].path) <= Len(rest[j].path)
    <3>1. i + 1 \in 1..n /\ j + 1 \in 1..n /\ i + 1 < j + 1
      BY <1>3, <2>2
    <3>2. Len(st.queue[i + 1].path) <= Len(st.queue[j + 1].path)
      BY <1>1, <3>1 DEF Frontier, n
    <3> QED BY <1>3, <3>2
  <2>3. Cardinality(st.visited) = (pops + 1) + (n - 1)
    <3>1. Cardinality(st.visited) = pops + n
      BY <1>1, Zenon DEF Frontier, n
    <3> QED BY <1>3, <3>1
  <2>4. /\ source \in st.visited /\ st.found = <<>>
        /\ \A j \in 0..d : \A f : Reached(steps, source, j, f) => f \in st.visited
    BY <1>1 DEF Frontier
  <2> QED BY <1>3, <1>4, <2>1, <2>2, <2>3, <2>4 DEF Frontier
<1>7. \A g \in nw.visited : g = q.format \/ Queued(nw, g) \/ Expanded(steps, nw, g)
  <2> TAKE g \in nw.visited
  <2>1. CASE Expanded(steps, st, g)
    BY <1>4, <2>1 DEF Expanded
  <2>2. CASE Queued(st, g)
    <3>1. PICK i \in 1..n : st.queue[i].format = g
      BY <2>2 DEF Queued, n
    <3>2. CASE i = 1
      BY <3>1, <3>2 DEF q
    <3>3. CASE i # 1
      <4> DEFINE j == i - 1
      <4>1. j \in 1..(n - 1) /\ j + 1 = i
        BY <1>3, <3>3
      <4> HIDE DEF j
      <4> QED BY <1>3, <1>4, <3>1, <4>1 DEF Queued
    <3> QED BY <3>2, <3>3
  <2> QED BY <1>1, <1>4, <2>1, <2>2
<1>8. 1..0 = {}
  OBVIOUS
<1>9. Scanning(steps, source, target, nw, d, pops + 1, q.format, 0)
  BY <1>6, <1>7, <1>8 DEF Scanning
<1> QED
  BY <1>1, <1>5, <1>9 DEF q, nw, rest

\* A step that is looked at leaves a state of the search.
LEMMA ScanType ==
    ASSUME NEW steps, NEW source, NEW target,
           NEW st \in Searches(steps, source, target),
           NEW popped, popped.path \in Seq(ToSet(steps)), NEW e \in ToSet(steps)
    PROVE  ScanEdge(st, popped, e, target) \in Searches(steps, source, target)
<1> DEFINE K == KnownFormats(steps, source, target)
           E == ToSet(steps)
           Q == [format : K, path : Seq(E)]
           path == Append(popped.path, e)
<1>1. st \in [found : Seq(Seq(E)), visited : SUBSET K, queue : Seq(Q)]
  BY DEF Searches
<1>2. e.output # target => e.output \in K
  BY DEF KnownFormats
<1>3. e \in E /\ popped.path \in Seq(E)
  OBVIOUS
<1> HIDE DEF K, E
<1>4. path \in Seq(E) /\ << path >> \in Seq(Seq(E))
  BY <1>3
<1> HIDE DEF path
<1>5. CASE e.output = target
  <2>1. [st EXCEPT !.found = << path >>] \in Searches(steps, source, target)
    BY <1>1, <1>4 DEF Searches, K, E
  <2> QED BY <1>5, <2>1 DEF ScanEdge, path
<1>6. CASE e.output # target
  <2> DEFINE nw == [st EXCEPT !.visited = @ \cup {e.output},
                              !.queue = Append(@, [format |-> e.output, path |-> path])]
  <2>1. [format |-> e.output, path |-> path] \in Q
    BY <1>2, <1>4, <1>6
  <2>2. nw \in Searches(steps, source, target)
    <3>1. st.queue \in Seq(Q) /\ st.visited \cup {e.output} \in SUBSET K
      BY <1>1, <1>2, <1>6
    <3>2. Append(st.queue, [format |-> e.output, path |-> path]) \in Seq(Q)
      BY <2>1, <3>1
    <3> QED BY <1>1, <3>1, <3>2 DEF Searches, K, E
  <2> HIDE DEF nw
  <2>3. ScanEdge(st, popped, e, target) = st \/ ScanEdge(st, popped, e, target) = nw
    BY <1>6 DEF ScanEdge, path, nw
  <2> QED BY <2>2, <2>3
<1> QED
  BY <1>5, <1>6

\* The search has looked at n steps, or found the target.
Scanned(steps, source, target, st, d, pops, f, n) ==
    \/ Scanning(steps, source, target, st, d, pops, f, n)
    \/ Shortest(steps, source, target, st)

\* A step that leads to the target ends the search.
LEMMA ScanFinds ==
    ASSUME NEW R, NEW steps \in Seq(R), NEW source, NEW target,
           NEW popped, NEW d \in Nat, NEW pops \in Nat, d < pops,
           Walk(steps, source, d, popped.path, popped.format),
           NEW n \in 1..Len(steps), NEW st,
           Frontier(steps, source, target, st, d, pops),
           steps[n].input = popped.format, steps[n].output = target
    PROVE  Shortest(steps, source, target, ScanEdge(st, popped, steps[n], target))
<1> DEFINE e == steps[n]
           path == Append(popped.path, e)
           nw == [st EXCEPT !.found = << path >>]
<1>1. e \in ToSet(steps)
  BY DEF ToSet
<1>2. ScanEdge(st, popped, e, target) = nw
  <2>1. st.found = <<>>
    BY DEF Frontier
  <2> QED BY <2>1 DEF ScanEdge
<1>3. nw.found = << path >>
  BY DEF Frontier, Searches
<1>4. Walk(steps, source, d + 1, path, target)
  <2>1. Walk(steps, source, d, popped.path, e.input)
    OBVIOUS
  <2> HIDE DEF e
  <2>2. Walk(steps, source, d + 1, path, e.output)
    BY <1>1, <2>1, WalkOn
  <2> QED BY <2>2 DEF e
<1>5. st.visited \in SUBSET KnownFormats(steps, source, target)
      /\ Len(st.queue) \in Nat
  BY DEF Frontier, Searches
<1>6. Cardinality(st.visited) <= Len(steps)
  BY <1>5, FormatsBounded
<1>7. Cardinality(st.visited) = pops + Len(st.queue)
  BY Zenon DEF Frontier
<1>8. d + 1 \in 1..Len(steps)
  BY <1>5, <1>6, <1>7
<1>9. \A j \in 0..d : ~ Reached(steps, source, j, target)
  <2>1. target \notin st.visited
    BY <1>5 DEF KnownFormats
  <2> QED BY <2>1 DEF Frontier
<1>10. 0..((d + 1) - 1) = 0..d
  OBVIOUS
<1> HIDE DEF nw, path
<1>11. Len(nw.found) = 1 /\ nw.found[1] = path
  BY <1>3
<1>12. Shortest(steps, source, target, nw)
  BY <1>4, <1>8, <1>9, <1>10, <1>11 DEF Shortest
<1> QED
  BY <1>2, <1>12 DEF e

\* A step that leads to a new format puts it into the queue.
LEMMA ScanAdds ==
    ASSUME NEW R, NEW steps \in Seq(R), NEW source, NEW target,
           NEW popped, NEW d \in Nat, NEW pops \in Nat,
           Walk(steps, source, d, popped.path, popped.format),
           NEW n \in 1..Len(steps), NEW st,
           Scanning(steps, source, target, st, d, pops, popped.format, n - 1),
           steps[n].input = popped.format, steps[n].output # target,
           steps[n].output \notin st.visited
    PROVE  Scanning(steps, source, target, ScanEdge(st, popped, steps[n], target),
                    d, pops, popped.format, n)
<1> DEFINE e == steps[n]
           g == e.output
           path == Append(popped.path, e)
           item == [format |-> g, path |-> path]
           nw == [st EXCEPT !.visited = @ \cup {g}, !.queue = Append(@, item)]
           Q == [format : KnownFormats(steps, source, target), path : Seq(ToSet(steps))]
           m == Len(st.queue)
<1>1. e \in ToSet(steps)
  BY DEF ToSet
<1>2. Frontier(steps, source, target, st, d, pops)
  BY DEF Scanning
<1>3. ScanEdge(st, popped, e, target) = nw
  <2>1. st.found = <<>>
    BY <1>2 DEF Frontier
  <2> QED BY <2>1 DEF ScanEdge
<1>4. popped.path \in Seq(ToSet(steps)) /\ Len(popped.path) = d
  BY DEF Walk
<1>5. Walk(steps, source, d + 1, path, g)
  <2>1. Walk(steps, source, d, popped.path, e.input)
    OBVIOUS
  <2> HIDE DEF e
  <2> QED BY <1>1, <2>1, WalkOn
<1>6. st \in Searches(steps, source, target)
  BY <1>2 DEF Frontier
<1>7. nw \in Searches(steps, source, target)
  <2>1. ScanEdge(st, popped, e, target) \in Searches(steps, source, target)
    <3> HIDE DEF e
    <3> QED BY <1>1, <1>4, <1>6, ScanType
  <2> QED BY <1>3, <2>1
<1>8. /\ nw.visited = st.visited \cup {g} /\ nw.queue = Append(st.queue, item)
      /\ nw.found = st.found
  BY <1>6 DEF Searches
<1>9. st.queue \in Seq(Q) /\ m \in Nat /\ item \in Q
  <2>1. st.queue \in Seq(Q)
    BY <1>6 DEF Searches
  <2>2. path \in Seq(ToSet(steps))
    BY <1>5 DEF Walk
  <2>3. g \in KnownFormats(steps, source, target)
    BY <1>1 DEF KnownFormats
  <2> QED BY <2>1, <2>2, <2>3
<1> HIDE DEF Q, item
<1>10. /\ Len(nw.queue) = m + 1 /\ nw.queue[m + 1] = item
       /\ \A i \in 1..m : nw.queue[i] = st.queue[i]
  BY <1>8, <1>9, Appended
<1>11. item.format = g /\ item.path = path /\ Len(path) = d + 1
  BY <1>5 DEF item, Walk
<1> HIDE DEF nw, path, g
<1>12. \A i \in 1..(m + 1) : i # m + 1 => i \in 1..m
  BY <1>9
<1>13. \A j \in 0..d : ~ Reached(steps, source, j, g)
  BY <1>2 DEF Frontier, g, e
<1>14. Frontier(steps, source, target, nw, d, pops)
  <2>1. ASSUME NEW i \in 1..(m + 1)
        PROVE  LET q == nw.queue[i] IN
               /\ q.format \in nw.visited
               /\ Len(q.path) \in {d, d + 1}
               /\ Walk(steps, source, Len(q.path), q.path, q.format)
               /\ \A j \in 0..(Len(q.path) - 1) : ~ Reached(steps, source, j, q.format)
    <3>1. CASE i = m + 1
      <4>1. 0..((d + 1) - 1) = 0..d
        OBVIOUS
      <4> QED BY <1>5, <1>8, <1>10, <1>11, <1>13, <3>1, <4>1
    <3>2. CASE i # m + 1
      <4>1. i \in 1..m /\ nw.queue[i] = st.queue[i]
        BY <1>10, <1>12, <3>2
      <4> QED BY <1>2, <1>8, <4>1 DEF Frontier, m
    <3> QED BY <3>1, <3>2
  <2>2. ASSUME NEW i \in 1..(m + 1), NEW j \in 1..(m + 1), i < j
        PROVE  Len(nw.queue[i].path) <= Len(nw.queue[j].path)
    <3>1. i \in 1..m /\ nw.queue[i] = st.queue[i]
      BY <1>9, <1>10, <2>2
    <3>2. CASE j = m + 1
      <4>1. Len(nw.queue[i].path) \in {d, d + 1}
        BY <2>1
      <4>2. Len(nw.queue[j].path) = d + 1
        BY <1>10, <1>11, <3>2
      <4> HIDE DEF m
      <4> QED BY <4>1, <4>2
    <3>3. CASE j # m + 1
      <4>1. j \in 1..m /\ nw.queue[j] = st.queue[j]
        BY <1>10, <1>12, <3>3
      <4> QED BY <1>2, <2>2, <3>1, <4>1 DEF Frontier, m
    <3> QED BY <3>2, <3>3
  <2>3. Cardinality(nw.visited) = pops + (m + 1)
    <3>1. Cardinality(st.visited) = pops + m
      BY <1>2, Zenon DEF Frontier, m
    <3>2. IsFiniteSet(st.visited)
      <4>1. st.visited \in SUBSET KnownFormats(steps, source, target)
        BY <1>6 DEF Searches
      <4> QED BY <4>1, FormatsBounded
    <3>3. g \notin st.visited
      BY DEF g, e
    <3>4. Cardinality(nw.visited) = Cardinality(st.visited) + 1
      BY <1>8, <3>2, <3>3, FS_AddElement
    <3> QED BY <1>9, <3>1, <3>4
  <2>4. /\ source \in nw.visited /\ nw.found = <<>>
        /\ \A j \in 0..d : \A f : Reached(steps, source, j, f) => f \in nw.visited
    BY <1>2, <1>8 DEF Frontier
  <2> QED BY <1>7, <1>10, <2>1, <2>2, <2>3, <2>4 DEF Frontier
<1>15. \A h \in nw.visited :
          h = popped.format \/ Queued(nw, h) \/ Expanded(steps, nw, h)
  <2> TAKE h \in nw.visited
  <2>1. CASE h = g
    <3>1. m + 1 \in 1..(m + 1)
      BY <1>9
    <3> QED BY <1>10, <1>11, <2>1, <3>1 DEF Queued
  <2>2. CASE h \in st.visited
    <3>1. h = popped.format \/ Queued(st, h) \/ Expanded(steps, st, h)
      BY <2>2 DEF Scanning
    <3>2. Queued(st, h) => Queued(nw, h)
      <4> HAVE Queued(st, h)
      <4>1. PICK i \in 1..m : st.queue[i].format = h
        BY DEF Queued, m
      <4>2. i \in 1..(m + 1)
        BY <1>9
      <4> QED BY <1>10, <4>1, <4>2 DEF Queued
    <3>3. Expanded(steps, st, h) => Expanded(steps, nw, h)
      BY <1>8 DEF Expanded
    <3> QED BY <3>1, <3>2, <3>3
  <2> QED BY <1>8, <2>1, <2>2
<1>16. \A i \in 1..n : steps[i].input = popped.format => steps[i].output \in nw.visited
  <2> TAKE i \in 1..n
  <2>1. CASE i = n
    BY <1>8, <2>1 DEF g
  <2>2. CASE i # n
    <3>1. i \in 1..(n - 1)
      BY <2>2
    <3> QED BY <1>8, <3>1 DEF Scanning
  <2> QED BY <2>1, <2>2
<1> QED
  BY <1>3, <1>14, <1>15, <1>16 DEF Scanning

\* A step that is looked at next.
LEMMA ScanStep ==
    ASSUME NEW R, NEW steps \in Seq(R), NEW source, NEW target,
           NEW popped, NEW d \in Nat, NEW pops \in Nat, d < pops,
           Walk(steps, source, d, popped.path, popped.format),
           NEW n \in 1..Len(steps), NEW st,
           Scanned(steps, source, target, st, d, pops, popped.format, n - 1)
    PROVE  Scanned(steps, source, target, ScanEdge(st, popped, steps[n], target),
                   d, pops, popped.format, n)
<1> DEFINE e == steps[n]
           nw == ScanEdge(st, popped, e, target)
<1>1. CASE Shortest(steps, source, target, st)
  <2>1. st.found # <<>>
    BY <1>1 DEF Shortest
  <2>2. nw = st
    BY <2>1 DEF ScanEdge
  <2> QED BY <1>1, <2>2 DEF Scanned
<1>2. CASE Scanning(steps, source, target, st, d, pops, popped.format, n - 1)
  <2>1. ASSUME nw = st,
               e.input = popped.format => e.output \in st.visited
        PROVE  Scanning(steps, source, target, nw, d, pops, popped.format, n)
    <3>1. \A i \in 1..n : steps[i].input = popped.format => steps[i].output \in st.visited
      <4> TAKE i \in 1..n
      <4>1. i = n \/ i \in 1..(n - 1)
        OBVIOUS
      <4> QED BY <1>2, <2>1, <4>1 DEF Scanning
    <3> QED BY <1>2, <2>1, <3>1 DEF Scanning
  <2>2. CASE e.input # popped.format
    <3>1. nw = st
      BY <2>2 DEF ScanEdge
    <3> QED BY <2>1, <2>2, <3>1 DEF Scanned
  <2>3. CASE e.input = popped.format /\ e.output = target
    <3>1. Frontier(steps, source, target, st, d, pops)
      BY <1>2 DEF Scanning
    <3>2. Shortest(steps, source, target, nw)
      BY <2>3, <3>1, ScanFinds
    <3> QED BY <3>2 DEF Scanned
  <2>4. CASE e.input = popped.format /\ e.output # target /\ e.output \in st.visited
    <3>1. nw = st
      BY <2>4 DEF ScanEdge
    <3> QED BY <2>1, <2>4, <3>1 DEF Scanned
  <2>5. CASE e.input = popped.format /\ e.output # target /\ e.output \notin st.visited
    <3>1. Scanning(steps, source, target, nw, d, pops, popped.format, n)
      BY <1>2, <2>5, ScanAdds
    <3> QED BY <3>1 DEF Scanned
  <2> QED BY <2>2, <2>3, <2>4, <2>5
<1> QED
  BY <1>1, <1>2 DEF Scanned

\* All steps are looked at in turn.
ScanAll(steps, popped, target, st) ==
    FoldLeft(LAMBDA s, step : ScanEdge(s, popped, step, target), st, steps)

ScanSteps(steps, popped, target, st, v) ==
    /\ v[0] = st
    /\ \A k \in 1..Len(steps) : v[k] = ScanEdge(v[k - 1], popped, steps[k], target)
    /\ ScanAll(steps, popped, target, st) = v[Len(steps)]

\* The loop over the steps goes through a trace.
LEMMA ScanTrace ==
    ASSUME NEW R, NEW steps \in Seq(R), NEW source, NEW target,
           NEW popped, popped.path \in Seq(ToSet(steps)),
           NEW st \in Searches(steps, source, target)
    PROVE  \E v \in [0..Len(steps) -> Searches(steps, source, target)] :
              ScanSteps(steps, popped, target, st, v)
<1> DEFINE n == Len(steps)
           V == Searches(steps, source, target)
           Step(it, S) == IF S = {} THEN st
                          ELSE ScanEdge(it[S \ {Max(S)}], popped, steps[Max(S)], target)
           Eq(it) == it = [S \in SUBSET DOMAIN steps |-> Step(it, S)]
           it0 == CHOOSE it : Eq(it)
           G == [x \in (1..n) \X V |-> ScanEdge(x[2], popped, steps[x[1]], target)]
<1>1. ScanAll(steps, popped, target, st) = it0[DOMAIN steps]
  BY DEF ScanAll, FoldLeft, MapThenFoldSet
<1>2. n \in Nat /\ DOMAIN steps = 1..n
  OBVIOUS
<1>3. \A k \in 1..n, w \in V : ScanEdge(w, popped, steps[k], target) \in V
  <2> TAKE k \in 1..n, w \in V
  <2>1. steps[k] \in ToSet(steps)
    BY DEF ToSet
  <2> QED BY <2>1, ScanType
<1> HIDE DEF V
<1>4. G \in [(1..n) \X V -> V]
  BY <1>3
<1>5. \A k \in 1..n, w \in V : G[<<k, w>>] = ScanEdge(w, popped, steps[k], target)
  OBVIOUS
<1>6. st \in V
  BY DEF V
<1> HIDE DEF G, n
<1>7. \E it : Eq(it)
  <2>1. PICK it \in [SUBSET (1..n) -> V] : Folds(n, st, G, it)
    BY <1>2, <1>4, <1>6, FoldExists
  <2>2. ASSUME NEW S \in SUBSET (1..n)
        PROVE  it[S] = Step(it, S)
    <3>1. it[S] = IF S = {} THEN st ELSE G[<<Max(S), it[S \ {Max(S)}]>>]
      BY <2>1 DEF Folds
    <3>2. S # {} => Max(S) \in 1..n /\ it[S \ {Max(S)}] \in V
      <4> HAVE S # {}
      <4>1. Max(S) \in 1..n
        BY <1>2, MaxAndRest
      <4> QED BY <4>1
    <3> QED BY <3>1, <3>2, <1>5
  <2> HIDE DEF Step
  <2>3. it = [S \in SUBSET (1..n) |-> Step(it, S)]
    BY <2>2
  <2>4. Eq(it)
    BY <2>3, <1>2
  <2> HIDE DEF Eq
  <2> QED BY <2>4
<1>8. Eq(it0)
  <2> HIDE DEF Eq
  <2> QED BY <1>7
<1> HIDE DEF it0
<1>9. it0[{}] = st
  <2>1. {} \in SUBSET DOMAIN steps
    OBVIOUS
  <2> QED BY <1>8, <2>1
<1>10. \A k \in 1..n : it0[1..(k - 1)] \in V =>
                         it0[1..k] = G[<<k, it0[1..(k - 1)]>>]
  <2> TAKE k \in 1..n
  <2> HAVE it0[1..(k - 1)] \in V
  <2>1. 1..k \in SUBSET DOMAIN steps /\ k \in Nat \ {0}
    BY <1>2
  <2>2. Max(1..k) = k /\ (1..k) \ {k} = 1..(k - 1) /\ 1..k # {}
    BY <2>1, InitialSegment
  <2>3. it0[1..k] = ScanEdge(it0[1..(k - 1)], popped, steps[k], target)
    <3>1. it0[1..k] = Step(it0, 1..k)
      <4> HIDE DEF Step
      <4> QED BY <1>8, <2>1
    <3> QED BY <2>2, <3>1, Zenon
  <2> QED BY <2>3, <1>5
<1> HIDE DEF Eq
<1>11. Follow(n, V, st, G, it0)
  BY <1>9, <1>10 DEF Follow
<1>12. PICK v \in [0..n -> V] : Leads(n, st, G, it0, v)
  BY <1>2, <1>4, <1>6, <1>11, FoldSteps
<1>13. ASSUME NEW k \in 1..n
       PROVE  v[k] = ScanEdge(v[k - 1], popped, steps[k], target)
  <2>1. v[k] = G[<<k, v[k - 1]>>]
    BY <1>12 DEF Leads, Trace
  <2>2. v[k - 1] \in V
    BY <1>2
  <2> QED BY <2>1, <2>2, <1>5
<1>14. it0[1..n] = v[n] /\ v[0] = st
  BY <1>12 DEF Leads, Trace
<1>15. ScanAll(steps, popped, target, st) = v[n]
  BY <1>1, <1>2, <1>14
<1> QED
  BY <1>13, <1>14, <1>15 DEF n, V, ScanSteps

\* All steps from the format are looked at.
LEMMA ScanAllSound ==
    ASSUME NEW R, NEW steps \in Seq(R), NEW source, NEW target,
           NEW popped, NEW d \in Nat, NEW pops \in Nat, d < pops,
           Walk(steps, source, d, popped.path, popped.format), NEW st,
           Scanning(steps, source, target, st, d, pops, popped.format, 0)
    PROVE  Scanned(steps, source, target, ScanAll(steps, popped, target, st),
                   d, pops, popped.format, Len(steps))
<1> DEFINE n == Len(steps)
<1>1. st \in Searches(steps, source, target) /\ popped.path \in Seq(ToSet(steps))
  BY DEF Scanning, Frontier, Walk
<1>2. PICK v \in [0..n -> Searches(steps, source, target)] :
          ScanSteps(steps, popped, target, st, v)
  BY <1>1, ScanTrace
<1> DEFINE P == {k \in 0..n :
                   Scanned(steps, source, target, v[k], d, pops, popped.format, k)}
<1>3. n \in Nat
  OBVIOUS
<1>4. 0 \in P
  <2>1. v[0] = st
    BY <1>2 DEF ScanSteps
  <2> QED BY <1>3, <2>1 DEF Scanned
<1>5. \A k \in 1..n : k - 1 \in P => k \in P
  <2> TAKE k \in 1..n
  <2> HAVE k - 1 \in P
  <2>1. v[k] = ScanEdge(v[k - 1], popped, steps[k], target)
    BY <1>2 DEF ScanSteps
  <2>2. Scanned(steps, source, target, v[k - 1], d, pops, popped.format, k - 1)
    OBVIOUS
  <2>3. Scanned(steps, source, target, v[k], d, pops, popped.format, k)
    BY <2>1, <2>2, ScanStep
  <2> QED BY <1>3, <2>3
<1>6. n \in P
  <2> HIDE DEF P
  <2>1. 0..n \subseteq P
    BY <1>3, <1>4, <1>5, UpTo
  <2> QED BY <1>3, <2>1
<1> QED
  BY <1>2, <1>6 DEF ScanSteps

\* What is known about the search after `pops` formats.
SearchedFor(steps, source, target, st, pops) ==
    \/ \E d : Waiting(steps, source, target, st, d, pops)
    \/ Exhausted(steps, source, target, st)
    \/ Shortest(steps, source, target, st)

\* When all steps from a format are looked at, the next one is waiting, or there
\* is none left.
LEMMA AfterScan ==
    ASSUME NEW steps, NEW source, NEW target, NEW st, NEW d \in Nat,
           NEW pops \in Nat, d < pops, NEW f, Len(steps) \in Nat,
           DOMAIN steps = 1..Len(steps),
           Scanning(steps, source, target, st, d, pops, f, Len(steps))
    PROVE  \/ \E c \in {d, d + 1} : Waiting(steps, source, target, st, c, pops)
           \/ Exhausted(steps, source, target, st)
<1>1. Frontier(steps, source, target, st, d, pops)
  BY DEF Scanning
<1>2. Expanded(steps, st, f)
  BY DEF Expanded, Scanning, ToSet
<1>3. \A g \in st.visited : Queued(st, g) \/ Expanded(steps, st, g)
  BY <1>2 DEF Scanning
<1>4. st.queue \in Seq([format : KnownFormats(steps, source, target),
                        path : Seq(ToSet(steps))])
      /\ st.visited \in SUBSET KnownFormats(steps, source, target)
  BY <1>1 DEF Frontier, Searches
<1>5. CASE st.queue = <<>>
  <2>1. \A g : ~ Queued(st, g)
    BY <1>5 DEF Queued
  <2>2. \A n \in Nat : \A g : Reached(steps, source, n, g) => g \in st.visited
    <3>1. source \in st.visited
      BY <1>1 DEF Frontier
    <3> QED BY <1>3, <2>1, <3>1, AllExpanded
  <2>3. target \notin st.visited
    BY <1>4 DEF KnownFormats
  <2> QED BY <1>1, <1>5, <2>2, <2>3 DEF Exhausted, Frontier
<1>6. CASE st.queue # <<>>
  <2> DEFINE c == Len(st.queue[1].path)
  <2>1. 1 \in 1..Len(st.queue)
    BY <1>4, <1>6
  <2>2. c \in {d, d + 1}
    BY <1>1, <2>1 DEF Frontier
  <2>3. CASE c = d
    <3>1. Waiting(steps, source, target, st, d, pops)
      BY <1>1, <1>3, <1>6, <2>3 DEF Waiting
    <3> QED BY <3>1
  <2>4. CASE c = d + 1
    <3>1. \A i \in 1..Len(st.queue) : Len(st.queue[i].path) = d + 1
      <4> TAKE i \in 1..Len(st.queue)
      <4>1. Len(st.queue[i].path) \in {d, d + 1}
        BY <1>1 DEF Frontier
      <4>2. CASE i = 1
        BY <2>4, <4>2
      <4>3. CASE i # 1
        <5>1. 1 < i
          BY <4>3
        <5>2. c <= Len(st.queue[i].path)
          BY <1>1, <2>1, <5>1 DEF Frontier
        <5> HIDE DEF c
        <5> QED BY <2>4, <4>1, <5>2
      <4> QED BY <4>2, <4>3
    <3>2. ASSUME NEW g, Reached(steps, source, d + 1, g) PROVE g \in st.visited
      <4>1. PICK e \in ToSet(steps) : e.output = g /\ Reached(steps, source, d, e.input)
        BY <3>2, WalkBack
      <4>2. e.input \in st.visited
        BY <1>1, <4>1 DEF Frontier
      <4>3. ~ Queued(st, e.input)
        <5> SUFFICES ASSUME NEW i \in 1..Len(st.queue), st.queue[i].format = e.input
                     PROVE  FALSE
          BY DEF Queued
        <5>1. d \in 0..((d + 1) - 1)
          OBVIOUS
        <5>2. \A j \in 0..((d + 1) - 1) : ~ Reached(steps, source, j, e.input)
          BY <1>1, <3>1 DEF Frontier
        <5> QED BY <4>1, <5>1, <5>2
      <4> QED BY <1>3, <4>1, <4>2, <4>3 DEF Expanded
    <3>3. \A j \in 0..(d + 1) : \A g : Reached(steps, source, j, g) => g \in st.visited
      <4> TAKE j \in 0..(d + 1)
      <4>1. j = d + 1 \/ j \in 0..d
        OBVIOUS
      <4> QED BY <1>1, <3>2, <4>1 DEF Frontier
    <3>4. \A i \in 1..Len(st.queue) : Len(st.queue[i].path) \in {d + 1, (d + 1) + 1}
      BY <3>1
    <3>5. Frontier(steps, source, target, st, d + 1, pops)
      BY <1>1, <3>3, <3>4 DEF Frontier
    <3>6. d + 1 \in Nat /\ d + 1 <= pops
      OBVIOUS
    <3>7. Waiting(steps, source, target, st, d + 1, pops)
      BY <1>3, <1>6, <2>4, <3>5, <3>6 DEF Waiting
    <3> QED BY <3>7
  <2> QED BY <2>2, <2>3, <2>4
<1> QED
  BY <1>5, <1>6

\* Taking a format off the queue and looking at all steps.
LEMMA SearchIsScan ==
    ASSUME NEW R, NEW steps \in Seq(R), NEW source, NEW target,
           NEW st \in Searches(steps, source, target), st.found = <<>>, st.queue # <<>>
    PROVE  /\ SearchStep(steps, st, target)
                 = ScanAll(steps, st.queue[1], target, [st EXCEPT !.queue = Tail(st.queue)])
           /\ st.queue[1].path \in Seq(ToSet(steps))
           /\ [st EXCEPT !.queue = Tail(st.queue)] \in Searches(steps, source, target)
<1> DEFINE popped == Popped(st.queue)
           Q == [format : KnownFormats(steps, source, target), path : Seq(ToSet(steps))]
<1>1. SearchStep(steps, st, target)
         = ScanAll(steps, popped.first, target, [st EXCEPT !.queue = popped.rest])
  BY Zenon DEF SearchStep, ScanAll, FoldLeft, MapThenFoldSet
<1>2. st.queue \in Seq(Q)
  BY DEF Searches
<1> HIDE DEF Q
<1>3. popped.first = st.queue[1] /\ popped.rest = Tail(st.queue)
  BY <1>2 DEF Popped
<1> HIDE DEF popped
<1>4. st.queue[1] \in Q /\ Tail(st.queue) \in Seq(Q)
  BY <1>2
<1>5. [st EXCEPT !.queue = Tail(st.queue)] \in Searches(steps, source, target)
  BY <1>4 DEF Searches, Q
<1> QED
  BY <1>1, <1>3, <1>4, <1>5 DEF Q

\* The search does not leave its states.
LEMMA SearchStepType ==
    ASSUME NEW R, NEW steps \in Seq(R), NEW source, NEW target,
           NEW st \in Searches(steps, source, target)
    PROVE  SearchStep(steps, st, target) \in Searches(steps, source, target)
<1>1. CASE st.found # <<>> \/ st.queue = <<>>
  BY <1>1 DEF SearchStep
<1>2. CASE st.found = <<>> /\ st.queue # <<>>
  <2> DEFINE nw == [st EXCEPT !.queue = Tail(st.queue)]
             q == st.queue[1]
  <2>1. /\ SearchStep(steps, st, target) = ScanAll(steps, q, target, nw)
        /\ q.path \in Seq(ToSet(steps)) /\ nw \in Searches(steps, source, target)
    BY <1>2, SearchIsScan
  <2> HIDE DEF nw, q
  <2>2. PICK v \in [0..Len(steps) -> Searches(steps, source, target)] :
            ScanSteps(steps, q, target, nw, v)
    BY <2>1, ScanTrace
  <2>3. Len(steps) \in 0..Len(steps)
    OBVIOUS
  <2> QED BY <2>1, <2>2, <2>3 DEF ScanSteps
<1> QED
  BY <1>1, <1>2

\* One format more.
LEMMA SearchStepSound ==
    ASSUME NEW R, NEW steps \in Seq(R), NEW source, NEW target,
           NEW pops \in Nat, NEW st, SearchedFor(steps, source, target, st, pops)
    PROVE  SearchedFor(steps, source, target, SearchStep(steps, st, target), pops + 1)
<1>1. CASE Exhausted(steps, source, target, st)
  <2>1. SearchStep(steps, st, target) = st
    BY <1>1 DEF Exhausted, SearchStep
  <2> QED BY <1>1, <2>1 DEF SearchedFor
<1>2. CASE Shortest(steps, source, target, st)
  <2>1. st.found # <<>>
    BY <1>2 DEF Shortest
  <2>2. SearchStep(steps, st, target) = st
    BY <2>1 DEF SearchStep
  <2> QED BY <1>2, <2>2 DEF SearchedFor
<1>3. ASSUME NEW d, Waiting(steps, source, target, st, d, pops)
      PROVE  SearchedFor(steps, source, target, SearchStep(steps, st, target), pops + 1)
  <2> DEFINE nw == [st EXCEPT !.queue = Tail(st.queue)]
             q == st.queue[1]
             new == SearchStep(steps, st, target)
             next == pops + 1
  <2>1. /\ d \in Nat /\ d <= pops /\ st.queue # <<>> /\ st.found = <<>>
        /\ st \in Searches(steps, source, target)
    BY <1>3 DEF Waiting, Frontier
  <2>2. d < next /\ next \in Nat
    BY <2>1
  <2>3. new = ScanAll(steps, q, target, nw)
    BY <2>1, SearchIsScan
  <2>4. /\ Walk(steps, source, d, q.path, q.format)
        /\ Scanning(steps, source, target, nw, d, next, q.format, 0)
    BY <1>3, PopKeeps
  <2> HIDE DEF nw, q, new, next
  <2>5. Scanned(steps, source, target, new, d, next, q.format, Len(steps))
    BY <2>1, <2>2, <2>3, <2>4, ScanAllSound
  <2>6. CASE Scanning(steps, source, target, new, d, next, q.format, Len(steps))
    <3>1. \/ \E c \in {d, d + 1} : Waiting(steps, source, target, new, c, next)
          \/ Exhausted(steps, source, target, new)
      <4>1. Len(steps) \in Nat /\ DOMAIN steps = 1..Len(steps)
        OBVIOUS
      <4> QED BY <2>1, <2>2, <2>6, <4>1, AfterScan
    <3> QED BY <3>1 DEF SearchedFor, new, next
  <2>7. CASE Shortest(steps, source, target, new)
    BY <2>7 DEF SearchedFor, new
  <2> QED BY <2>5, <2>6, <2>7 DEF Scanned
<1> QED
  BY <1>1, <1>2, <1>3 DEF SearchedFor

\* The state the search starts in.
Start(source) ==
    [found |-> <<>>, visited |-> {source},
     queue |-> << [format |-> source, path |-> <<>>] >>]

\* The source is waiting.
LEMMA StartSound ==
    ASSUME NEW R, NEW steps \in Seq(R), NEW source, NEW target, source # target
    PROVE  /\ Start(source) \in Searches(steps, source, target)
           /\ Waiting(steps, source, target, Start(source), 0, 0)
<1> DEFINE K == KnownFormats(steps, source, target)
           E == ToSet(steps)
           Q == [format : K, path : Seq(E)]
           item == [format |-> source, path |-> <<>>]
           st == Start(source)
<1>1. source \in K
  BY DEF KnownFormats
<1> HIDE DEF K, E
<1>2. item \in Q /\ <<>> \in Seq(Seq(E)) /\ {source} \in SUBSET K
  BY <1>1
<1>3. item.format = source /\ item.path = <<>> /\ Len(item.path) = 0
  OBVIOUS
<1>4. st = [found |-> <<>>, visited |-> {source}, queue |-> << item >>]
  BY DEF Start
<1> HIDE DEF Q, item, st
<1>5. << item >> \in Seq(Q) /\ Len(<< item >>) = 1 /\ << item >>[1] = item
  BY <1>2
<1>6. /\ st.found = <<>> /\ st.visited = {source} /\ st.queue \in Seq(Q)
      /\ Len(st.queue) = 1 /\ st.queue[1] = item /\ st.queue # <<>>
  BY <1>4, <1>5
<1>7. st \in [found : Seq(Seq(E)), visited : SUBSET K, queue : Seq(Q)]
  BY <1>2, <1>4, <1>5
<1>8. st \in Searches(steps, source, target)
  BY <1>7 DEF Searches, Q, K, E
<1>9. Walk(steps, source, 0, <<>>, source)
      /\ \A f : Reached(steps, source, 0, f) => f = source
  BY WalkNone
<1>10. Cardinality(st.visited) = 0 + Len(st.queue)
  <2>1. Cardinality({source}) = 1
    BY FS_Singleton
  <2> QED BY <1>6, <2>1
<1>11. 0..(0 - 1) = {} /\ 0..0 = {0}
  OBVIOUS
<1>12. Frontier(steps, source, target, st, 0, 0)
  <2>1. \A i \in 1..Len(st.queue) : i = 1
    BY <1>6
  <2>2. \A i, j \in 1..Len(st.queue) : ~ (i < j)
    BY <1>6
  <2>3. ASSUME NEW i \in 1..Len(st.queue)
        PROVE  LET q == st.queue[i] IN
               /\ q.format \in st.visited
               /\ Len(q.path) \in {0, 0 + 1}
               /\ Walk(steps, source, Len(q.path), q.path, q.format)
               /\ \A j \in 0..(Len(q.path) - 1) : ~ Reached(steps, source, j, q.format)
    BY <1>3, <1>6, <1>9, <1>11, <2>1
  <2>4. \A j \in 0..0 : \A f : Reached(steps, source, j, f) => f \in st.visited
    BY <1>6, <1>9, <1>11
  <2> QED BY <1>6, <1>8, <1>10, <2>2, <2>3, <2>4 DEF Frontier
<1>13. Queued(st, source)
  <2>1. 1 \in 1..Len(st.queue)
    BY <1>6
  <2> QED BY <1>3, <1>6, <2>1 DEF Queued
<1>14. Waiting(steps, source, target, st, 0, 0)
  BY <1>3, <1>6, <1>12, <1>13 DEF Waiting
<1> QED
  BY <1>8, <1>14 DEF st

\* The loop of the search goes through the states v.
SearchSteps(steps, source, target, v) ==
    /\ v[0] = Start(source)
    /\ \A k \in 1..(Len(steps) + 1) : v[k] = SearchStep(steps, v[k - 1], target)
    /\ ResolvePipeline(steps, source, target) = v[Len(steps) + 1].found

LEMMA SearchTrace ==
    ASSUME NEW R, NEW steps \in Seq(R), NEW source, NEW target, source # target
    PROVE  \E v \in [0..(Len(steps) + 1) -> Searches(steps, source, target)] :
              SearchSteps(steps, source, target, v)
<1> DEFINE n == Len(steps) + 1
           V == Searches(steps, source, target)
           b0 == Start(source)
           ids == [i \in 1..n |-> i]
           Step(it, S) == IF S = {} THEN b0
                          ELSE SearchStep(steps, it[S \ {Max(S)}], target)
           Eq(it) == it = [S \in SUBSET DOMAIN ids |-> Step(it, S)]
           it0 == CHOOSE it : Eq(it)
           G == [x \in (1..n) \X V |-> SearchStep(steps, x[2], target)]
<1>1. ResolvePipeline(steps, source, target) = it0[DOMAIN ids].found
  BY Zenon DEF ResolvePipeline, Start, FoldLeft, MapThenFoldSet
<1>2. n \in Nat /\ DOMAIN ids = 1..n
  OBVIOUS
<1>3. b0 \in V /\ \A w \in V : SearchStep(steps, w, target) \in V
  BY StartSound, SearchStepType
<1> HIDE DEF V, ids, b0, n
<1>4. G \in [(1..n) \X V -> V]
  BY <1>3
<1>5. \A k \in 1..n, w \in V : G[<<k, w>>] = SearchStep(steps, w, target)
  OBVIOUS
<1> HIDE DEF G
<1>6. \E it : Eq(it)
  <2>1. PICK it \in [SUBSET (1..n) -> V] : Folds(n, b0, G, it)
    BY <1>2, <1>3, <1>4, FoldExists
  <2>2. ASSUME NEW S \in SUBSET (1..n)
        PROVE  it[S] = Step(it, S)
    <3>1. it[S] = IF S = {} THEN b0 ELSE G[<<Max(S), it[S \ {Max(S)}]>>]
      BY <2>1 DEF Folds
    <3>2. S # {} => Max(S) \in 1..n /\ it[S \ {Max(S)}] \in V
      <4> HAVE S # {}
      <4>1. Max(S) \in 1..n
        BY <1>2, MaxAndRest
      <4> QED BY <4>1
    <3> QED BY <3>1, <3>2, <1>5
  <2> HIDE DEF Step
  <2>3. it = [S \in SUBSET (1..n) |-> Step(it, S)]
    BY <2>2
  <2>4. Eq(it)
    BY <2>3, <1>2
  <2> HIDE DEF Eq
  <2> QED BY <2>4
<1>7. Eq(it0)
  <2> HIDE DEF Eq
  <2> QED BY <1>6
<1> HIDE DEF it0
<1>8. it0[{}] = b0
  <2>1. {} \in SUBSET DOMAIN ids
    OBVIOUS
  <2> QED BY <1>7, <2>1
<1>9. \A k \in 1..n : it0[1..(k - 1)] \in V =>
                         it0[1..k] = G[<<k, it0[1..(k - 1)]>>]
  <2> TAKE k \in 1..n
  <2> HAVE it0[1..(k - 1)] \in V
  <2>1. 1..k \in SUBSET DOMAIN ids /\ k \in Nat \ {0}
    BY <1>2
  <2>2. Max(1..k) = k /\ (1..k) \ {k} = 1..(k - 1) /\ 1..k # {}
    BY <2>1, InitialSegment
  <2>3. it0[1..k] = SearchStep(steps, it0[1..(k - 1)], target)
    <3>1. it0[1..k] = Step(it0, 1..k)
      <4> HIDE DEF Step
      <4> QED BY <1>7, <2>1
    <3> QED BY <2>2, <3>1, Zenon
  <2> QED BY <2>3, <1>5
<1> HIDE DEF Eq
<1>10. Follow(n, V, b0, G, it0)
  BY <1>8, <1>9 DEF Follow
<1>11. PICK v \in [0..n -> V] : Leads(n, b0, G, it0, v)
  BY <1>2, <1>3, <1>4, <1>10, FoldSteps
<1>12. ASSUME NEW k \in 1..n PROVE v[k] = SearchStep(steps, v[k - 1], target)
  <2>1. v[k] = G[<<k, v[k - 1]>>]
    BY <1>11 DEF Leads, Trace
  <2>2. v[k - 1] \in V
    BY <1>2
  <2> QED BY <2>1, <2>2, <1>5
<1>13. it0[1..n] = v[n] /\ v[0] = b0
  BY <1>11 DEF Leads, Trace
<1>14. ResolvePipeline(steps, source, target) = v[n].found
  BY <1>1, <1>2, <1>13
<1> QED
  BY <1>12, <1>13, <1>14 DEF n, V, b0, SearchSteps

\* What resolve_pipeline returns: a shortest chain, or nothing if there is none.
\* It does not stop with formats waiting, because there are not so many.
LEMMA ResolveSound ==
    ASSUME NEW R, NEW steps \in Seq(R), NEW source, NEW target, source # target
    PROVE  LET found == ResolvePipeline(steps, source, target) IN
           \/ /\ found = <<>>
              /\ \A n \in Nat : ~ Reached(steps, source, n, target)
           \/ \E m \in 1..Len(steps) :
                 /\ Walk(steps, source, m, found[1], target)
                 /\ \A j \in 0..(m - 1) : ~ Reached(steps, source, j, target)
<1> DEFINE n == Len(steps) + 1
<1>1. PICK v \in [0..n -> Searches(steps, source, target)] :
          SearchSteps(steps, source, target, v)
  BY SearchTrace
<1>2. n \in Nat /\ Len(steps) \in Nat
  OBVIOUS
<1> DEFINE P == {k \in 0..n : SearchedFor(steps, source, target, v[k], k)}
<1>3. 0 \in P
  <2>1. v[0] = Start(source)
    BY <1>1 DEF SearchSteps
  <2>2. Waiting(steps, source, target, Start(source), 0, 0)
    BY StartSound
  <2> QED BY <1>2, <2>1, <2>2 DEF SearchedFor
<1>4. \A k \in 1..n : k - 1 \in P => k \in P
  <2> TAKE k \in 1..n
  <2> HAVE k - 1 \in P
  <2> DEFINE j == k - 1
  <2>1. j \in Nat /\ j + 1 = k
    BY <1>2
  <2>2. v[k] = SearchStep(steps, v[j], target)
    BY <1>1 DEF SearchSteps
  <2>3. SearchedFor(steps, source, target, v[j], j)
    OBVIOUS
  <2> HIDE DEF j
  <2>4. SearchedFor(steps, source, target, v[k], j + 1)
    BY <2>1, <2>2, <2>3, SearchStepSound
  <2> QED BY <1>2, <2>1, <2>4
<1>5. SearchedFor(steps, source, target, v[n], n)
  <2> HIDE DEF P
  <2>1. 0..n \subseteq P
    BY <1>2, <1>3, <1>4, UpTo
  <2>2. n \in P
    BY <1>2, <2>1
  <2> QED BY <2>2 DEF P
<1>6. ResolvePipeline(steps, source, target) = v[n].found
  BY <1>1 DEF SearchSteps
<1>7. ASSUME NEW d, Waiting(steps, source, target, v[n], d, n) PROVE FALSE
  <2> DEFINE st == v[n]
  <2>1. /\ st.queue # <<>> /\ st.visited \in SUBSET KnownFormats(steps, source, target)
        /\ Len(st.queue) \in Nat \ {0}
    <3>1. st.queue # <<>> /\ st \in Searches(steps, source, target)
      BY <1>7 DEF Waiting, Frontier
    <3> HIDE DEF st
    <3> QED BY <3>1 DEF Searches
  <2>2. Cardinality(st.visited) = n + Len(st.queue)
    BY <1>7, Zenon DEF Waiting, Frontier
  <2>3. Cardinality(st.visited) <= Len(steps) + 1
    BY <2>1, FormatsBounded
  <2> HIDE DEF st
  <2> QED BY <1>2, <2>1, <2>2, <2>3
<1>8. CASE Exhausted(steps, source, target, v[n])
  BY <1>6, <1>8 DEF Exhausted
<1>9. CASE Shortest(steps, source, target, v[n])
  BY <1>6, <1>9 DEF Shortest
<1> QED
  BY <1>5, <1>7, <1>8, <1>9 DEF SearchedFor

-----------------------------------------------------------------------------
(* The registered steps and their chains.                                   *)

\* The steps are registered in turn.
LEMMA RegisteredType ==
    ASSUME NEW R, NEW added \in Seq(R)
    PROVE  FoldLeft(RegisterStep, <<>>, added) \in Seq(R)
<1> DEFINE n == Len(added)
           V == Seq(R)
           none == <<>>
           Step(it, S) == IF S = {} THEN <<>>
                          ELSE RegisterStep(it[S \ {Max(S)}], added[Max(S)])
           Eq(it) == it = [S \in SUBSET DOMAIN added |-> Step(it, S)]
           it0 == CHOOSE it : Eq(it)
           G == [x \in (1..n) \X V |-> RegisterStep(x[2], added[x[1]])]
<1>1. FoldLeft(RegisterStep, <<>>, added) = it0[DOMAIN added]
  BY Zenon DEF FoldLeft, MapThenFoldSet
<1>2. n \in Nat /\ DOMAIN added = 1..n /\ none \in V
  OBVIOUS
<1>3. \A k \in 1..n, w \in V : RegisterStep(w, added[k]) \in V
  <2> TAKE k \in 1..n, w \in V
  <2>1. added[k] \in R
    OBVIOUS
  <2> HIDE DEF n
  <2>2. Append(w, added[k]) \in V
    BY <2>1
  <2> QED BY <2>2 DEF RegisterStep
<1> HIDE DEF V, n, none
<1>4. G \in [(1..n) \X V -> V]
  BY <1>3
<1>5. \A k \in 1..n, w \in V : G[<<k, w>>] = RegisterStep(w, added[k])
  OBVIOUS
<1> HIDE DEF G
<1>6. \E it : Eq(it)
  <2>1. PICK it \in [SUBSET (1..n) -> V] : Folds(n, none, G, it)
    BY <1>2, <1>4, FoldExists
  <2>2. ASSUME NEW S \in SUBSET (1..n)
        PROVE  it[S] = Step(it, S)
    <3>1. it[S] = IF S = {} THEN none ELSE G[<<Max(S), it[S \ {Max(S)}]>>]
      BY <2>1 DEF Folds
    <3>2. S # {} => Max(S) \in 1..n /\ it[S \ {Max(S)}] \in V
      <4> HAVE S # {}
      <4>1. Max(S) \in 1..n
        BY <1>2, MaxAndRest
      <4> QED BY <4>1
    <3> QED BY <3>1, <3>2, <1>5 DEF none
  <2> HIDE DEF Step
  <2>3. it = [S \in SUBSET (1..n) |-> Step(it, S)]
    BY <2>2
  <2>4. Eq(it)
    BY <2>3, <1>2
  <2> HIDE DEF Eq
  <2> QED BY <2>4
<1>7. Eq(it0)
  <2> HIDE DEF Eq
  <2> QED BY <1>6
<1> HIDE DEF it0
<1>8. it0[{}] = none
  <2>1. {} \in SUBSET DOMAIN added
    OBVIOUS
  <2> QED BY <1>7, <2>1 DEF none
<1>9. \A k \in 1..n : it0[1..(k - 1)] \in V =>
                         it0[1..k] = G[<<k, it0[1..(k - 1)]>>]
  <2> TAKE k \in 1..n
  <2> HAVE it0[1..(k - 1)] \in V
  <2>1. 1..k \in SUBSET DOMAIN added /\ k \in Nat \ {0}
    BY <1>2
  <2>2. Max(1..k) = k /\ (1..k) \ {k} = 1..(k - 1) /\ 1..k # {}
    BY <2>1, InitialSegment
  <2>3. it0[1..k] = RegisterStep(it0[1..(k - 1)], added[k])
    <3>1. it0[1..k] = Step(it0, 1..k)
      <4> HIDE DEF Step
      <4> QED BY <1>7, <2>1
    <3> QED BY <2>2, <3>1, Zenon
  <2> QED BY <2>3, <1>5
<1> HIDE DEF Eq
<1>10. Follow(n, V, none, G, it0)
  BY <1>8, <1>9 DEF Follow
<1>11. PICK v \in [0..n -> V] : Leads(n, none, G, it0, v)
  BY <1>2, <1>4, <1>10, FoldSteps
<1>12. it0[1..n] = v[n] /\ v[n] \in V
  BY <1>2, <1>11 DEF Leads
<1> QED
  BY <1>1, <1>2, <1>12 DEF V

\* One of them is removed.
LEMMA UnregisterType ==
    ASSUME NEW R, NEW steps \in Seq(R), NEW name
    PROVE  UnregisterStep(steps, name) \in Seq(R)
<1> DEFINE at == Named(steps, name)
           i == CHOOSE j \in at : TRUE
<1>1. CASE at = {}
  BY <1>1 DEF UnregisterStep
<1>2. CASE at # {}
  <2>1. i \in 1..Len(steps)
    BY <1>2 DEF Named
  <2> HIDE DEF i
  <2>2. SubSeq(steps, 1, i - 1) \in Seq(R) /\ SubSeq(steps, i + 1, Len(steps)) \in Seq(R)
    BY <2>1
  <2>3. RemoveAt(steps, i) \in Seq(R)
    BY <2>2 DEF RemoveAt
  <2> QED BY <1>2, <2>3 DEF UnregisterStep, i
<1> QED
  BY <1>1, <1>2

ResolveInv ==
    task.kind = "resolve" =>
        /\ task.added \in Registries
        /\ \/ result = <<>>
           \/ result = [pipeline |-> ResolvePipeline(Registered, task.source, task.target)]

\* After resolve_pipeline the result is that of the registered steps.
LEMMA ResolveInvariant == Spec => []ResolveInv
<1>1. Init => ResolveInv
  <2> SUFFICES ASSUME Init, task.kind = "resolve"
               PROVE  task.added \in Registries /\ result = <<>>
    BY DEF ResolveInv
  <2>1. \/ task \in [kind : {"resolve"}, added : Registries, removed : 0..1,
                     source : Formats, target : {"md"}]
        \/ task.kind \in {"chunk", "library", "sections", "fuse"}
    BY DEF Init
  <2> QED BY <2>1 DEF Init
<1>2. ResolveInv /\ [Next]_vars => ResolveInv'
  <2> SUFFICES ASSUME ResolveInv, [Next]_vars PROVE ResolveInv'
    OBVIOUS
  <2>1. task' = task
    BY DEF Next, vars, Execute, Library, Sections, Fuse, Resolve
  <2>2. Registered' = Registered
    BY <2>1, Zenon DEF Registered
  <2> SUFFICES ASSUME task.kind = "resolve"
               PROVE  /\ task.added \in Registries
                      /\ \/ result' = <<>>
                         \/ result' = [pipeline |-> ResolvePipeline(Registered, task.source,
                                                                    task.target)]
    BY <2>1, <2>2 DEF ResolveInv
  <2>3. CASE Resolve
    BY <2>3 DEF ResolveInv, Resolve
  <2>4. ASSUME Execute \/ Library \/ Sections \/ Fuse PROVE FALSE
    BY <2>4 DEF Execute, Library, Sections, Fuse, Pending
  <2>5. CASE UNCHANGED vars
    BY <2>5 DEF ResolveInv, vars
  <2> QED BY <2>3, <2>4, <2>5 DEF Next
<1> QED
  BY <1>1, <1>2, PTL DEF Spec

\* The chains of n steps are the walks of n steps to the target.
LEMMA ChainsAreWalks ==
    ASSUME NEW n \in Nat \ {0}
    PROVE  \A p : p \in Chains(n) <=> Walk(Registered, task.source, n, p, task.target)
<1> TAKE p
<1> DEFINE E == ToSet(Registered)
<1>1. p \in [1..n -> E] <=> p \in Seq(E) /\ Len(p) = n
  OBVIOUS
<1> QED
  BY <1>1 DEF Chains, Walk

\* ResolvesShortest: whatever steps are registered, in whatever order and with
\* whatever cycles, a chain that is found is a shortest one, and none is found
\* only if there is none (resolve_pipeline).
THEOREM ChainsAreShortest == Spec => []ResolvesShortest
<1>1. ResolveInv => ResolvesShortest
  <2> DEFINE steps == Registered
             source == task.source
             target == task.target
             lens == {n \in 1..Len(steps) : Chains(n) # {}}
             found == ResolvePipeline(steps, source, target)
  <2> SUFFICES ASSUME ResolveInv, Done("resolve")
               PROVE  IF source = target THEN result.pipeline = << <<>> >>
                      ELSE IF lens = {} THEN result.pipeline = <<>>
                           ELSE result.pipeline[1] \in Chains(Min(lens))
    BY DEF ResolvesShortest
  <2>1. task.added \in Registries /\ result.pipeline = found
    BY DEF ResolveInv, Done
  <2>2. CASE source = target
    BY <2>1, <2>2 DEF ResolvePipeline
  <2>3. CASE source # target
    <3>1. steps \in Seq(Range(task.added))
      <4>1. FoldLeft(RegisterStep, <<>>, task.added) \in Seq(Range(task.added))
        BY <2>1, RegistriesAssumption, RegisteredType
      <4>2. UnregisterStep(FoldLeft(RegisterStep, <<>>, task.added), task.added[1].name)
               \in Seq(Range(task.added))
        BY <4>1, UnregisterType
      <4> QED BY <4>1, <4>2, Zenon DEF Registered
    <3>2. Len(steps) \in Nat
      BY <3>1
    <3>3. \A n \in Nat \ {0} : \A p : p \in Chains(n) <=> Walk(steps, source, n, p, target)
      BY ChainsAreWalks
    <3> HIDE DEF steps, source, target, found
    <3>4. \/ /\ found = <<>>
             /\ \A n \in Nat : ~ Reached(steps, source, n, target)
          \/ \E m \in 1..Len(steps) :
                /\ Walk(steps, source, m, found[1], target)
                /\ \A j \in 0..(m - 1) : ~ Reached(steps, source, j, target)
      BY <2>3, <3>1, ResolveSound DEF found
    <3>5. \A n \in lens : n \in 1..Len(steps) /\ Reached(steps, source, n, target)
      <4> TAKE n \in lens
      <4>1. n \in 1..Len(steps) /\ \E p : p \in Chains(n)
        OBVIOUS
      <4> QED BY <3>2, <3>3, <4>1 DEF Reached
    <3>6. ASSUME NEW m \in 1..Len(steps), Walk(steps, source, m, found[1], target)
          PROVE  m \in lens /\ found[1] \in Chains(m)
      BY <3>2, <3>3, <3>6
    <3>7. CASE lens = {}
      BY <2>1, <2>3, <3>4, <3>6, <3>7
    <3>8. CASE lens # {}
      <4>1. lens \in SUBSET (0..Len(steps))
        BY <3>2
      <4> HIDE DEF lens
      <4>2. Min(lens) \in lens /\ \A y \in lens : Min(lens) <= y
        BY <3>2, <3>8, <4>1, LeastIn
      <4>3. Min(lens) \in Nat /\ Reached(steps, source, Min(lens), target)
        BY <3>2, <3>5, <4>2
      <4>4. PICK m \in 1..Len(steps) :
               /\ Walk(steps, source, m, found[1], target)
               /\ \A j \in 0..(m - 1) : ~ Reached(steps, source, j, target)
        BY <3>4, <4>3
      <4>5. m \in lens /\ found[1] \in Chains(m)
        BY <3>6, <4>4
      <4>6. ~ Min(lens) \in 0..(m - 1)
        BY <4>3, <4>4
      <4>7. m = Min(lens)
        BY <3>2, <4>2, <4>3, <4>5, <4>6
      <4> QED BY <2>1, <2>3, <3>8, <4>5, <4>7
    <3> QED BY <3>7, <3>8
  <2> QED BY <2>2, <2>3
<1> QED
  BY <1>1, ResolveInvariant, PTL
=============================================================================
