---------------------------- MODULE EventBusProofs ----------------------------
(***************************************************************************)
(* Proofs about EventBus, for any clients, any capacity of the queues and  *)
(* of the history, and any coroutine that publishes.                       *)
(*                                                                         *)
(* The argument: what a client got and what waits in its queue is together *)
(* all that was published since it connected, in order, until its queue is *)
(* full for the first time or goes off the bus; from then on it stays part *)
(* of it, in order, because an event is only ever put at the end.  A poll  *)
(* moves an event from the queue to what was got and changes nothing.      *)
(***************************************************************************)
EXTENDS EventBus, SequenceTheorems, TLAPS

\* Somebody publishes, whoever it is and at whatever moment; or the bus steps.
BusStep ==
    \/ \E type \in TypeSet, run \in Nat : Publish(type, run)
    \/ BusNext

BusSpec == BusInit /\ [][BusStep]_busVars

-----------------------------------------------------------------------------
(* The inductive invariant.                                                *)

EventsOf(t) == [type : {t}, run : Nat]

QueueRecord == [msgs : Seq(Events), subscribed : BOOLEAN, age : 0..(MaxAge + 1),
                full : BOOLEAN, since : Nat]

BusShape ==
    /\ history \in Seq(Events)
    /\ Len(history) <= MaxHistory
    /\ streams \in [Clients -> [TypeSet -> QueueRecord]]
    /\ pos \in [Clients -> 0..(Len(Types) + 1)]
    /\ gone \subseteq Clients
    /\ sent \in [TypeSet -> Seq(Events)]
    /\ seen \in [Clients -> [TypeSet -> Seq(Events)]]

\* A queue holds events of its type, and has been full if it is.
Sound(q, t) ==
    /\ q.msgs \in Seq(EventsOf(t))
    /\ Len(q.msgs) <= Capacity
    /\ Len(q.msgs) = Capacity => q.full

QueuesSound == \A c \in Clients, t \in TypeSet : Sound(streams[c][t], t)

\* What was got is part of what was due, in its order; its beginning if whole.
Follows(got, due, whole) ==
    \E f \in [DOMAIN got -> DOMAIN due] :
        \A i \in DOMAIN got :
            /\ due[f[i]] = got[i]
            /\ i > 1 => f[i - 1] < f[i]
            /\ whole => f[i] = i

\* LossExplained of a queue q, of which g was yielded, when s was published.
Explained(q, s, g) ==
    LET due == SubSeq(s, q.since + 1, Len(s))
        got == g \o q.msgs IN
    /\ Follows(got, due, ~q.full)
    /\ q.subscribed /\ ~q.full => Len(got) = Len(due)

StreamsExplained ==
    \A c \in Clients, t \in TypeSet :
        pos[c] > 0 =>
            /\ streams[c][t].since <= Len(sent[t])
            /\ Explained(streams[c][t], sent[t], seen[c][t])

BusInv == BusShape /\ QueuesSound /\ StreamsExplained

-----------------------------------------------------------------------------
(* Sequences of events.                                                    *)

LEMMA ThreeTypes ==
    /\ Len(Types) = 3
    /\ TypeSet = {Types[1], Types[2], Types[3]}
    /\ Types[1] # Types[2] /\ Types[1] # Types[3] /\ Types[2] # Types[3]
<1>1. Len(Types) = 3 /\ DOMAIN Types = 1..3
  BY DEF Types
<1> QED
  BY <1>1 DEF TypeSet, ToSet, Types

\* Nothing follows from anything, and a sequence from itself.
LEMMA FollowsNothing ==
    ASSUME NEW due, NEW whole
    PROVE  Follows(<<>>, due, whole)
<1> DEFINE f == [i \in {} |-> i]
<1>1. DOMAIN <<>> = {}
  OBVIOUS
<1>2. f \in [{} -> DOMAIN due]
  OBVIOUS
<1> QED
  BY <1>1, <1>2 DEF Follows

LEMMA FollowsLess ==
    ASSUME NEW got, NEW due, NEW whole, NEW part, Follows(got, due, whole),
           part => whole
    PROVE  Follows(got, due, part)
BY DEF Follows

\* More may be due.
LEMMA FollowsDue ==
    ASSUME NEW S, NEW got \in Seq(S), NEW due \in Seq(S), NEW e \in S,
           NEW whole, Follows(got, due, whole)
    PROVE  Follows(got, Append(due, e), whole)
<1>1. PICK f \in [DOMAIN got -> DOMAIN due] :
            \A i \in DOMAIN got : /\ due[f[i]] = got[i]
                                  /\ i > 1 => f[i - 1] < f[i]
                                  /\ whole => f[i] = i
  BY DEF Follows
<1>2. /\ DOMAIN due = 1..Len(due) /\ Len(due) \in Nat
      /\ DOMAIN Append(due, e) = 1..(Len(due) + 1)
      /\ \A j \in 1..Len(due) : Append(due, e)[j] = due[j]
  BY AppendProperties, LenProperties
<1>3. f \in [DOMAIN got -> DOMAIN Append(due, e)]
  BY <1>1, <1>2
<1>4. \A i \in DOMAIN got : Append(due, e)[f[i]] = got[i]
  BY <1>1, <1>2
<1> QED
  BY <1>1, <1>3, <1>4 DEF Follows

\* More may be due and got.
LEMMA FollowsBoth ==
    ASSUME NEW S, NEW got \in Seq(S), NEW due \in Seq(S), NEW e \in S,
           NEW whole, Follows(got, due, whole), whole => Len(got) = Len(due)
    PROVE  Follows(Append(got, e), Append(due, e), whole)
<1> DEFINE n == Len(got)
           m == Len(due)
<1>0. whole => n = m
  OBVIOUS
<1>1. PICK f \in [DOMAIN got -> DOMAIN due] :
            \A i \in DOMAIN got : /\ due[f[i]] = got[i]
                                  /\ i > 1 => f[i - 1] < f[i]
                                  /\ whole => f[i] = i
  BY DEF Follows
<1>2. /\ DOMAIN due = 1..m /\ m \in Nat
      /\ DOMAIN Append(due, e) = 1..(m + 1)
      /\ \A j \in 1..m : Append(due, e)[j] = due[j]
      /\ Append(due, e)[m + 1] = e
  BY AppendProperties, LenProperties
<1>3. /\ DOMAIN got = 1..n /\ n \in Nat
      /\ DOMAIN Append(got, e) = 1..(n + 1)
      /\ \A j \in 1..n : Append(got, e)[j] = got[j]
      /\ Append(got, e)[n + 1] = e
  BY AppendProperties, LenProperties
<1> HIDE DEF n, m
<1> DEFINE g == [i \in 1..(n + 1) |-> IF i = n + 1 THEN m + 1 ELSE f[i]]
<1>4. g \in [DOMAIN Append(got, e) -> DOMAIN Append(due, e)]
  BY <1>1, <1>2, <1>3
<1>5. ASSUME NEW i \in 1..(n + 1)
      PROVE  /\ Append(due, e)[g[i]] = Append(got, e)[i]
             /\ i > 1 => g[i - 1] < g[i]
             /\ whole => g[i] = i
  <2>1. CASE i = n + 1
    <3>1. whole => n = m
      BY <1>0
    <3> QED
      BY <2>1, <3>1, <1>1, <1>2, <1>3
  <2>2. CASE i \in 1..n
    <3>0. g[i] = f[i]
      BY <2>2, <1>3
    <3>1. f[i] \in 1..m /\ due[f[i]] = got[i]
      BY <2>2, <1>1, <1>2, <1>3
    <3>2. Append(due, e)[f[i]] = due[f[i]] /\ Append(got, e)[i] = got[i]
      BY <2>2, <3>1, <1>2, <1>3
    <3>4. whole => g[i] = i
      BY <2>2, <3>0, <1>1, <1>3
    <3>3. i > 1 => g[i - 1] = f[i - 1] /\ f[i - 1] < f[i]
      <4> SUFFICES ASSUME i > 1 PROVE g[i - 1] = f[i - 1] /\ f[i - 1] < f[i]
        OBVIOUS
      <4>1. i - 1 \in 1..n /\ i - 1 # n + 1
        BY <2>2, <1>3
      <4>2. g[i - 1] = f[i - 1]
        BY <4>1, <1>3
      <4> HIDE DEF g
      <4>3. f[i - 1] < f[i]
        BY <2>2, <1>1, <1>3
      <4> QED
        BY <4>2, <4>3
    <3> QED
      BY <3>0, <3>1, <3>2, <3>3, <3>4
  <2>3. i = n + 1 \/ i \in 1..n
    BY <1>3
  <2> QED
    BY <2>1, <2>2, <2>3
<1> HIDE DEF g
<1> QED
  BY <1>3, <1>4, <1>5 DEF Follows

\* What is due from some place on grows with what is published.
LEMMA DueGrows ==
    ASSUME NEW S, NEW s \in Seq(S), NEW e \in S, NEW k \in Nat, k <= Len(s)
    PROVE  /\ SubSeq(s, k + 1, Len(s)) \in Seq(S)
           /\ SubSeq(Append(s, e), k + 1, Len(Append(s, e)))
                = Append(SubSeq(s, k + 1, Len(s)), e)
<1> DEFINE n == Len(s)
           a == SubSeq(s, k + 1, n)
           b == SubSeq(Append(s, e), k + 1, n + 1)
<1>1. n \in Nat /\ k <= n /\ \A i \in 1..n : s[i] \in S
  BY LenProperties, ElementOfSeq
<1>2. /\ Append(s, e) \in Seq(S) /\ Len(Append(s, e)) = n + 1
      /\ \A i \in 1..n : Append(s, e)[i] = s[i]
      /\ Append(s, e)[n + 1] = e
  BY AppendProperties
<1>3. \A i \in (k + 1)..n : s[i] \in S
  BY <1>1
<1>4. \A i \in (k + 1)..(n + 1) : Append(s, e)[i] \in S
  BY <1>1, <1>2
<1>5. /\ a \in Seq(S) /\ Len(a) = n - k
      /\ \A i \in 1..(n - k) : a[i] = s[k + i]
  BY <1>1, <1>3, SubSeqProperties, k + 1 \in Int
<1>6. /\ b \in Seq(S) /\ Len(b) = n - k + 1
      /\ \A i \in 1..(n - k + 1) : b[i] = Append(s, e)[k + i]
  BY <1>1, <1>4, SubSeqProperties, k + 1 \in Int, n + 1 \in Int
<1>7. /\ Append(a, e) \in Seq(S) /\ Len(Append(a, e)) = n - k + 1
      /\ \A i \in 1..(n - k) : Append(a, e)[i] = a[i]
      /\ Append(a, e)[n - k + 1] = e
  BY <1>5, AppendProperties
<1> HIDE DEF a, b, n
<1>8. \A i \in 1..Len(b) : b[i] = Append(a, e)[i]
  <2> TAKE i \in 1..Len(b)
  <2>1. CASE i = n - k + 1
    BY <2>1, <1>1, <1>2, <1>6, <1>7
  <2>2. CASE i \in 1..(n - k)
    <3>1. k + i \in 1..n
      BY <2>2, <1>1
    <3> QED
      BY <2>2, <3>1, <1>1, <1>2, <1>5, <1>6, <1>7
  <2>3. i = n - k + 1 \/ i \in 1..(n - k)
    BY <1>1, <1>6
  <2> QED
    BY <2>1, <2>2, <2>3
<1>9. b = Append(a, e)
  BY <1>6, <1>7, <1>8, SeqEqual
<1> QED
  BY <1>2, <1>5, <1>9 DEF a, b, n

\* An event that goes from the queue to the client stays got.
LEMMA YieldKeepsGot ==
    ASSUME NEW S, NEW g \in Seq(S), NEW q \in Seq(S), q # <<>>
    PROVE  Append(g, Head(q)) \o Tail(q) = g \o q
<1>1. /\ Head(q) \in S /\ Tail(q) \in Seq(S)
      /\ q = <<Head(q)>> \o Tail(q)
  BY HeadTailProperties, HeadTailAppend, AppendIsConcat, ConcatProperties
<1>2. Append(g, Head(q)) = g \o <<Head(q)>>
  BY <1>1, AppendIsConcat
<1>3. <<Head(q)>> \in Seq(S)
  BY <1>1
<1> QED
  BY <1>1, <1>2, <1>3, ConcatAssociative

LEMMA PutKeepsGot ==
    ASSUME NEW S, NEW g \in Seq(S), NEW q \in Seq(S), NEW e \in S
    PROVE  g \o Append(q, e) = Append(g \o q, e)
<1>1. <<e>> \in Seq(S) /\ g \o q \in Seq(S)
  BY ConcatProperties
<1>2. /\ Append(q, e) = q \o <<e>>
      /\ Append(g \o q, e) = (g \o q) \o <<e>>
  BY <1>1, AppendIsConcat
<1> QED
  BY <1>1, <1>2, ConcatAssociative

-----------------------------------------------------------------------------
(* One queue.                                                              *)

LEMMA EventsOfType ==
    ASSUME NEW t \in TypeSet
    PROVE  /\ EventsOf(t) \subseteq Events
           /\ Seq(EventsOf(t)) \subseteq Seq(Events)
<1>1. EventsOf(t) \subseteq Events
  BY DEF EventsOf, Events
<1> QED
  BY <1>1, SeqMonotonic

\* What put_nowait makes of a queue.
LEMMA PutCases ==
    ASSUME NEW q \in QueueRecord, NEW t \in TypeSet, Sound(q, t),
           NEW e \in EventsOf(t)
    PROVE  \/ /\ Len(q.msgs) = Capacity /\ q.full
              /\ Put(q, e) = q
           \/ /\ Len(q.msgs) < Capacity
              /\ Put(q, e) \in QueueRecord
              /\ Put(q, e).msgs = Append(q.msgs, e)
              /\ Put(q, e).subscribed = q.subscribed
              /\ Put(q, e).since = q.since
              /\ q.full => Put(q, e).full
              /\ Len(q.msgs) + 1 = Capacity => Put(q, e).full
<1> DEFINE p == [msgs |-> Append(q.msgs, e), subscribed |-> q.subscribed,
                 age |-> 0, full |-> q.full \/ Len(q.msgs) + 1 = Capacity,
                 since |-> q.since]
<1>1. /\ q = [msgs |-> q.msgs, subscribed |-> q.subscribed, age |-> q.age,
              full |-> q.full, since |-> q.since]
      /\ q.msgs \in Seq(Events) /\ q.since \in Nat
      /\ q.subscribed \in BOOLEAN /\ q.full \in BOOLEAN
  BY DEF QueueRecord
<1>2. Len(q.msgs) \in Nat /\ Len(q.msgs) <= Capacity
  BY <1>1, LenProperties DEF Sound
<1>3. CASE Len(q.msgs) = Capacity
  BY <1>2, <1>3, BusAssumption DEF Sound, Put
<1>4. CASE Len(q.msgs) < Capacity
  <2>0. Put(q, e) = [q EXCEPT !.msgs = Append(@, e), !.age = 0,
                              !.full = @ \/ Len(q.msgs) + 1 = Capacity]
    BY <1>2, <1>4, BusAssumption DEF Put
  <2>1. Put(q, e) = p
    BY <2>0, <1>1, Zenon
  <2>2. Append(q.msgs, e) \in Seq(Events)
    BY <1>1, EventsOfType, AppendProperties
  <2>3. p \in QueueRecord
    BY <1>1, <2>2, BusAssumption DEF QueueRecord
  <2>4. /\ p.msgs = Append(q.msgs, e) /\ p.subscribed = q.subscribed
        /\ p.since = q.since
        /\ q.full => p.full
        /\ Len(q.msgs) + 1 = Capacity => p.full
    OBVIOUS
  <2> HIDE DEF p
  <2> QED
    BY <1>4, <2>1, <2>3, <2>4
<1> QED
  BY <1>2, <1>3, <1>4, BusAssumption

LEMMA PutSound ==
    ASSUME NEW q \in QueueRecord, NEW t \in TypeSet, Sound(q, t),
           NEW e \in EventsOf(t)
    PROVE  Put(q, e) \in QueueRecord /\ Sound(Put(q, e), t)
<1>1. CASE Put(q, e) = q
  BY <1>1
<1>2. CASE /\ Len(q.msgs) < Capacity
           /\ Put(q, e) \in QueueRecord
           /\ Put(q, e).msgs = Append(q.msgs, e)
           /\ Len(q.msgs) + 1 = Capacity => Put(q, e).full
  <2>1. q.msgs \in Seq(EventsOf(t))
    BY DEF Sound
  <2>2. /\ Append(q.msgs, e) \in Seq(EventsOf(t))
        /\ Len(Append(q.msgs, e)) = Len(q.msgs) + 1
        /\ Len(q.msgs) \in Nat
    BY <2>1, AppendProperties, LenProperties
  <2> QED
    BY <1>2, <2>2, BusAssumption DEF Sound
<1> QED
  BY <1>1, <1>2, PutCases

\* An event that is dropped is explained by the full queue, and one that is
\* put comes after all the others.
LEMMA PutExplained ==
    ASSUME NEW q \in QueueRecord, NEW t \in TypeSet, Sound(q, t),
           NEW e \in EventsOf(t),
           NEW s \in Seq(Events), NEW g \in Seq(Events), q.since <= Len(s),
           Explained(q, s, g), q.subscribed
    PROVE  /\ Put(q, e).since <= Len(Append(s, e))
           /\ Explained(Put(q, e), Append(s, e), g)
<1> DEFINE due == SubSeq(s, q.since + 1, Len(s))
           got == g \o q.msgs
           all == Append(s, e)
<1>1. e \in Events /\ q.msgs \in Seq(Events) /\ q.since \in Nat
  BY EventsOfType DEF QueueRecord
<1>2. /\ due \in Seq(Events)
      /\ SubSeq(all, q.since + 1, Len(all)) = Append(due, e)
  <2>1. \A k \in Nat : k <= Len(s) =>
            /\ SubSeq(s, k + 1, Len(s)) \in Seq(Events)
            /\ SubSeq(Append(s, e), k + 1, Len(Append(s, e)))
                 = Append(SubSeq(s, k + 1, Len(s)), e)
    BY <1>1, DueGrows
  <2> QED
    BY <1>1, <2>1
<1>3. /\ Len(all) = Len(s) + 1 /\ Len(s) \in Nat
  BY <1>1, AppendProperties, LenProperties
<1>4. got \in Seq(Events)
  BY <1>1, ConcatProperties
<1>5. /\ Follows(got, due, ~q.full)
      /\ ~q.full => Len(got) = Len(due)
  BY DEF Explained
<1>6. CASE q.full /\ Put(q, e) = q
  <2>1. Follows(got, Append(due, e), ~q.full)
    BY <1>1, <1>2, <1>4, <1>5, FollowsDue
  <2> HIDE DEF due, got, all
  <2>2. SubSeq(all, q.since + 1, Len(all)) = Append(due, e)
    BY <1>2
  <2>3. Explained(q, all, g)
    BY <2>1, <2>2, <1>6 DEF Explained, got
  <2> QED
    BY <1>1, <1>3, <1>6, <2>3 DEF all
<1>7. CASE /\ Put(q, e).msgs = Append(q.msgs, e)
           /\ Put(q, e).subscribed = q.subscribed
           /\ Put(q, e).since = q.since
           /\ q.full => Put(q, e).full
  <2>1. Follows(Append(got, e), Append(due, e), ~q.full)
    BY <1>1, <1>2, <1>4, <1>5, FollowsBoth
  <2>0. /\ Len(Append(got, e)) = Len(got) + 1
        /\ Len(Append(due, e)) = Len(due) + 1
    BY <1>1, <1>2, <1>4, AppendProperties
  <2>2. g \o Append(q.msgs, e) = Append(got, e)
    <3>1. \A x, y \in Seq(Events), z \in Events :
              x \o Append(y, z) = Append(x \o y, z)
      BY PutKeepsGot
    <3> QED
      BY <1>1, <3>1
  <2> HIDE DEF due, got, all
  <2>4. Follows(Append(got, e), Append(due, e), ~Put(q, e).full)
    BY <1>7, <2>1, FollowsLess
  <2>3. Explained(Put(q, e), all, g)
    BY <1>2, <1>5, <1>7, <2>0, <2>4, <2>2 DEF Explained
  <2> QED
    BY <1>1, <1>3, <1>7, <2>3 DEF all
<1> QED
  BY <1>6, <1>7, PutCases

\* A queue that is off the bus misses what is published.
LEMMA MissExplained ==
    ASSUME NEW q \in QueueRecord, NEW e \in Events,
           NEW s \in Seq(Events), NEW g \in Seq(Events), q.since <= Len(s),
           Explained(q, s, g), ~q.subscribed
    PROVE  /\ q.since <= Len(Append(s, e))
           /\ Explained(q, Append(s, e), g)
<1> DEFINE due == SubSeq(s, q.since + 1, Len(s))
           got == g \o q.msgs
           all == Append(s, e)
<1>1. q.msgs \in Seq(Events) /\ q.since \in Nat
  BY DEF QueueRecord
<1>2. /\ due \in Seq(Events)
      /\ SubSeq(all, q.since + 1, Len(all)) = Append(due, e)
  <2>1. \A k \in Nat : k <= Len(s) =>
            /\ SubSeq(s, k + 1, Len(s)) \in Seq(Events)
            /\ SubSeq(Append(s, e), k + 1, Len(Append(s, e)))
                 = Append(SubSeq(s, k + 1, Len(s)), e)
    BY DueGrows
  <2> QED
    BY <1>1, <2>1
<1>3. /\ Len(all) = Len(s) + 1 /\ Len(s) \in Nat
  BY AppendProperties, LenProperties
<1>4. got \in Seq(Events)
  BY <1>1, ConcatProperties
<1>5. Follows(got, Append(due, e), ~q.full)
  BY <1>2, <1>4, FollowsDue DEF Explained
<1> HIDE DEF due, all
<1>6. Explained(q, all, g)
  BY <1>2, <1>5 DEF Explained
<1> QED
  BY <1>1, <1>3, <1>6 DEF all

-----------------------------------------------------------------------------
(* The steps of the bus.                                                   *)

\* The history is never longer than its bound, and ends with what was just
\* published (publish).
LEMMA RememberShape ==
    ASSUME NEW h \in Seq(Events), NEW e \in Events
    PROVE  /\ Remember(h, e) \in Seq(Events)
           /\ Len(Remember(h, e)) <= MaxHistory
           /\ Remember(h, e) # <<>>
           /\ Last(Remember(h, e)) = e
<1> DEFINE all == Append(h, e)
           n == Len(all)
           S == {1, n + 1 - MaxHistory}
           m == Max(S)
<1>1. /\ all \in Seq(Events) /\ n = Len(h) + 1 /\ Len(h) \in Nat /\ all[n] = e
      /\ \A i \in 1..n : all[i] \in Events
  BY AppendProperties, LenProperties, ElementOfSeq
<1>2. m \in S /\ \A i \in S : m >= i
  <2> HIDE DEF n
  <2>1. \E i \in S : \A j \in S : i >= j
    BY <1>1, BusAssumption
  <2> QED
    BY <2>1 DEF Max
<1> HIDE DEF n, all, m
<1>3. m \in 1..n /\ n - m + 1 <= MaxHistory
  BY <1>1, <1>2, BusAssumption
<1>4. m \in Int /\ n \in Int /\ \A i \in m..n : all[i] \in Events
  BY <1>1, <1>3
<1>5. /\ SubSeq(all, m, n) \in Seq(Events)
      /\ Len(SubSeq(all, m, n)) = n - m + 1
      /\ \A i \in 1..(n - m + 1) : SubSeq(all, m, n)[i] = all[m + i - 1]
  BY <1>3, <1>4, SubSeqProperties
<1>6. Remember(h, e) = SubSeq(all, m, n)
  BY DEF Remember, all, n, m
<1>7. Last(Remember(h, e)) = all[n]
  BY <1>3, <1>5, <1>6 DEF Last
<1>8. Remember(h, e) # <<>>
  <2>1. Len(Remember(h, e)) > 0
    BY <1>3, <1>5, <1>6
  <2> QED
    BY <2>1, Len(<<>>) = 0
<1> QED
  BY <1>1, <1>3, <1>5, <1>6, <1>7, <1>8

LEMMA BusStarts == BusInit => BusInv
<1> SUFFICES ASSUME BusInit PROVE BusInv
  OBVIOUS
<1>1. NoQueue \in QueueRecord /\ NoQueue.msgs = <<>>
  BY BusAssumption DEF NoQueue, QueueRecord
<1>2. BusShape
  BY <1>1, ThreeTypes, BusAssumption DEF BusInit, BusShape
<1>3. QueuesSound
  <2>1. \A t \in TypeSet : Sound(NoQueue, t)
    BY <1>1, EmptySeq, BusAssumption DEF Sound
  <2> QED
    BY <2>1 DEF BusInit, QueuesSound
<1>4. StreamsExplained
  BY DEF BusInit, StreamsExplained
<1> QED
  BY <1>2, <1>3, <1>4 DEF BusInv

LEMMA PublishKeeps ==
    ASSUME BusInv, NEW type \in TypeSet, NEW run \in Nat, Publish(type, run)
    PROVE  BusInv'
<1> DEFINE e == [type |-> type, run |-> run]
<1>1. e \in EventsOf(type) /\ e \in Events
  BY DEF EventsOf, Events
<1> USE DEF BusInv
<1>2. /\ history' = Remember(history, e)
      /\ streams' = [c \in Clients |->
             [streams[c] EXCEPT ![type] = IF @.subscribed THEN Put(@, e) ELSE @]]
      /\ sent' = [sent EXCEPT ![type] = Append(@, e)]
      /\ UNCHANGED <<pos, gone, seen>>
  BY DEF Publish
<1> HIDE DEF e
<1>3. \A c \in Clients, t \in TypeSet :
          /\ streams[c][t] \in QueueRecord /\ Sound(streams[c][t], t)
          /\ seen[c][t] \in Seq(Events)
          /\ DOMAIN streams[c] = TypeSet
  BY DEF BusShape, QueuesSound
<1>0. sent \in [TypeSet -> Seq(Events)] /\ \A t \in TypeSet : sent[t] \in Seq(Events)
  BY DEF BusShape
<1>4. \A c \in Clients :
          /\ streams'[c][type] = IF streams[c][type].subscribed
                                 THEN Put(streams[c][type], e)
                                 ELSE streams[c][type]
          /\ \A t \in TypeSet \ {type} : streams'[c][t] = streams[c][t]
          /\ DOMAIN streams'[c] = TypeSet
  BY <1>2, <1>3
<1>5. \A c \in Clients :
          streams'[c][type] \in QueueRecord /\ Sound(streams'[c][type], type)
  BY <1>1, <1>3, <1>4, PutSound
<1>6. /\ sent'[type] = Append(sent[type], e)
      /\ \A t \in TypeSet \ {type} : sent'[t] = sent[t]
      /\ sent' \in [TypeSet -> Seq(Events)]
  <2>1. Append(sent[type], e) \in Seq(Events)
    BY <1>0, <1>1, AppendProperties
  <2> QED
    BY <1>0, <1>2, <2>1
<1>7. streams' \in [Clients -> [TypeSet -> QueueRecord]]
  <2>1. \A c \in Clients : streams'[c] \in [TypeSet -> QueueRecord]
    <3> TAKE c \in Clients
    <3>1. streams'[c] = [streams[c] EXCEPT ![type] = streams'[c][type]]
      BY <1>2, <1>4
    <3>2. streams[c] \in [TypeSet -> QueueRecord]
      BY DEF BusShape
    <3>3. streams'[c][type] \in QueueRecord
      BY <1>5
    <3> QED
      BY <3>1, <3>2, <3>3
  <2>2. streams' = [c \in Clients |-> streams'[c]]
    BY <1>2
  <2> QED
    BY <2>1, <2>2
<1>8. BusShape'
  BY <1>1, <1>2, <1>6, <1>7, RememberShape DEF BusShape
<1>9. QueuesSound'
  BY <1>3, <1>4, <1>5 DEF QueuesSound
<1>10. StreamsExplained'
  <2> SUFFICES ASSUME NEW c \in Clients, NEW t \in TypeSet, pos[c] > 0
               PROVE  /\ streams'[c][t].since <= Len(sent'[t])
                      /\ Explained(streams'[c][t], sent'[t], seen[c][t])
    BY <1>2 DEF StreamsExplained
  <2>1. /\ streams[c][t].since <= Len(sent[t])
        /\ Explained(streams[c][t], sent[t], seen[c][t])
    BY DEF StreamsExplained
  <2>2. CASE t # type
    BY <2>1, <2>2, <1>4, <1>6
  <2>3. CASE t = type /\ streams[c][t].subscribed
    BY <2>1, <2>3, <1>0, <1>1, <1>3, <1>4, <1>6, PutExplained
  <2>4. CASE t = type /\ ~streams[c][t].subscribed
    BY <2>1, <2>4, <1>0, <1>1, <1>3, <1>4, <1>6, MissExplained
  <2> QED
    BY <2>2, <2>3, <2>4
<1> QED
  BY <1>8, <1>9, <1>10

LEMMA NewQueue ==
    ASSUME NEW n
    PROVE  [NoQueue EXCEPT !.subscribed = TRUE, !.since = n]
             = [msgs |-> <<>>, subscribed |-> TRUE, age |-> 0,
                full |-> FALSE, since |-> n]
<1>1. ASSUME NEW q, NEW r, r = [q EXCEPT !.subscribed = TRUE, !.since = n],
             q = [msgs |-> q.msgs, subscribed |-> q.subscribed,
                  age |-> q.age, full |-> q.full, since |-> q.since]
      PROVE  r = [msgs |-> q.msgs, subscribed |-> TRUE, age |-> q.age,
                  full |-> q.full, since |-> n]
  BY <1>1, Zenon
<1>2. /\ NoQueue.msgs = <<>> /\ NoQueue.age = 0
      /\ NoQueue.full = FALSE
      /\ NoQueue = [msgs |-> NoQueue.msgs, subscribed |-> NoQueue.subscribed,
                    age |-> NoQueue.age, full |-> NoQueue.full,
                    since |-> NoQueue.since]
  BY DEF NoQueue
<1> QED
  BY <1>1, <1>2

LEMMA ConnectKeeps ==
    ASSUME BusInv, NEW c \in Clients, Connect(c)
    PROVE  BusInv'
<1> USE DEF BusInv
<1> DEFINE new(t) == [msgs |-> <<>>, subscribed |-> TRUE, age |-> 0,
                      full |-> FALSE, since |-> Len(sent[t])]
<1>1. \A t \in TypeSet :
          [NoQueue EXCEPT !.subscribed = TRUE, !.since = Len(sent[t])] = new(t)
  BY NewQueue
<1>2. /\ pos' = [pos EXCEPT ![c] = 1]
      /\ streams' = [streams EXCEPT ![c] = [t \in TypeSet |-> new(t)]]
      /\ seen' = [seen EXCEPT ![c] = [t \in TypeSet |-> <<>>]]
      /\ UNCHANGED <<history, gone, sent>>
  BY <1>1 DEF Connect
<1>3. \A t \in TypeSet : new(t) \in QueueRecord /\ sent[t] \in Seq(Events)
                         /\ Len(sent[t]) \in Nat
  BY LenProperties, BusAssumption DEF BusShape, QueueRecord
<1>4. BusShape'
  <2>1. [t \in TypeSet |-> new(t)] \in [TypeSet -> QueueRecord]
    BY <1>3
  <2>2. [t \in TypeSet |-> <<>>] \in [TypeSet -> Seq(Events)]
    OBVIOUS
  <2> QED
    <3>1. streams' \in [Clients -> [TypeSet -> QueueRecord]]
      BY <1>2, <2>1 DEF BusShape
    <3>2. seen' \in [Clients -> [TypeSet -> Seq(Events)]]
      BY <1>2, <2>2 DEF BusShape
    <3>3. pos' \in [Clients -> 0..(Len(Types) + 1)]
      BY <1>2, ThreeTypes DEF BusShape
    <3> QED
      BY <1>2, <3>1, <3>2, <3>3 DEF BusShape
<1>5. /\ \A t \in TypeSet : streams'[c][t] = new(t) /\ seen'[c][t] = <<>>
      /\ \A d \in Clients \ {c} :
             streams'[d] = streams[d] /\ seen'[d] = seen[d] /\ pos'[d] = pos[d]
  BY <1>2 DEF BusShape
<1>6. QueuesSound'
  <2>1. \A t \in TypeSet : Sound(new(t), t)
    BY BusAssumption DEF Sound
  <2> QED
    BY <1>5, <2>1 DEF QueuesSound
<1>7. StreamsExplained'
  <2> SUFFICES ASSUME NEW d \in Clients, NEW t \in TypeSet, pos'[d] > 0
               PROVE  /\ streams'[d][t].since <= Len(sent[t])
                      /\ Explained(streams'[d][t], sent[t], seen'[d][t])
    BY <1>2 DEF StreamsExplained
  <2>1. CASE d # c
    BY <2>1, <1>5 DEF StreamsExplained
  <2>2. CASE d = c
    <3>1. SubSeq(sent[t], Len(sent[t]) + 1, Len(sent[t])) = <<>>
      BY <1>3, SubSeqEmpty
    <3>2. <<>> \o <<>> = <<>>
      OBVIOUS
    <3>3. Explained(new(t), sent[t], <<>>)
      BY <3>1, <3>2, FollowsNothing DEF Explained
    <3> QED
      BY <3>3, <2>2, <1>3, <1>5
  <2> QED
    BY <2>1, <2>2
<1> QED
  BY <1>4, <1>6, <1>7

LEMMA ShorterQueue ==
    ASSUME NEW q \in QueueRecord
    PROVE  [q EXCEPT !.msgs = Tail(@)]
             = [msgs |-> Tail(q.msgs), subscribed |-> q.subscribed,
                age |-> q.age, full |-> q.full, since |-> q.since]
<1>1. q = [msgs |-> q.msgs, subscribed |-> q.subscribed, age |-> q.age,
           full |-> q.full, since |-> q.since]
  BY DEF QueueRecord
<1>2. ASSUME NEW r, r = [q EXCEPT !.msgs = Tail(@)]
      PROVE  r = [msgs |-> Tail(q.msgs), subscribed |-> q.subscribed,
                  age |-> q.age, full |-> q.full, since |-> q.since]
  BY <1>1, <1>2, Zenon
<1> QED
  BY <1>2

LEMMA LeastOfThree ==
    ASSUME NEW R \in SUBSET (1..3), R # {}
    PROVE  \E i \in R : \A j \in R : i <= j
<1>1. \A j \in R : j = 1 \/ j = 2 \/ j = 3
  OBVIOUS
<1>2. CASE 1 \in R
  BY <1>1, <1>2
<1>3. CASE 1 \notin R /\ 2 \in R
  BY <1>1, <1>3
<1>4. CASE 1 \notin R /\ 2 \notin R
  <2>1. \A j \in R : j # 1 /\ j # 2
    BY <1>4
  <2>2. \A j \in R : j = 3
    BY <1>1, <2>1
  <2> PICK i \in R : TRUE
    OBVIOUS
  <2>3. \A j \in R : i <= j
    BY <2>2
  <2> QED
    BY <2>3, Zenon
<1> QED
  BY <1>2, <1>3, <1>4

LEMMA PollKeeps ==
    ASSUME BusInv, NEW c \in Clients, Poll(c)
    PROVE  BusInv'
<1> USE DEF BusInv
<1>0. pos[c] \in 0..4
  BY ThreeTypes DEF BusShape
<1> DEFINE ready == {p \in pos[c]..Len(Types) : streams[c][Types[p]].msgs # <<>>}
           p == Min(ready)
           t == Types[p]
           q == streams[c][t]
<1>1. CASE ready = {}
  <2>1. /\ pos' = [pos EXCEPT ![c] = 1]
        /\ pos[c] > 0
        /\ UNCHANGED <<history, streams, gone, sent, seen>>
    BY <1>1 DEF Poll
  <2>2. BusShape'
    <3>1. pos' \in [Clients -> 0..(Len(Types) + 1)]
      BY <2>1, ThreeTypes DEF BusShape
    <3> QED
      BY <2>1, <3>1 DEF BusShape
  <2>3. QueuesSound'
    BY <2>1 DEF QueuesSound
  <2>4. \A d \in Clients : pos'[d] > 0 => pos[d] > 0
    BY <2>1 DEF BusShape
  <2>5. StreamsExplained'
    BY <2>1, <2>4 DEF StreamsExplained
  <2> QED
    BY <2>2, <2>3, <2>5
<1>2. CASE ready # {}
  <2>1. /\ pos[c] > 0 /\ pos[c] \in Nat
        /\ seen' = [seen EXCEPT ![c][t] = Append(@, Head(q.msgs))]
        /\ streams' = [streams EXCEPT ![c][t].msgs = Tail(@)]
        /\ pos' = [pos EXCEPT ![c] = p + 1]
        /\ UNCHANGED <<history, gone, sent>>
    <3>1. pos[c] \in Nat
      BY <1>0
    <3> QED
      BY <1>2, <3>1 DEF Poll
  <2>2. p \in ready
    <3>1. \E i \in ready : \A j \in ready : i <= j
      <4>1. ready \subseteq 1..3
        <5> SUFFICES ASSUME NEW i \in ready PROVE i \in 1..3
          OBVIOUS
        <5>1. i \in pos[c]..3
          BY ThreeTypes
        <5>2. pos[c] > 0
          BY <2>1
        <5> HIDE DEF ready
        <5> QED
          BY <5>1, <5>2, <1>0
      <4>2. \A R \in SUBSET (1..3) : R # {} => \E i \in R : \A j \in R : i <= j
        BY LeastOfThree
      <4> HIDE DEF ready
      <4> QED
        BY <1>2, <4>1, <4>2
    <3> QED
      BY <3>1 DEF Min
  <2>3. p \in 1..3 /\ q.msgs # <<>> /\ t \in TypeSet
    <3>1. p \in pos[c]..3 /\ q.msgs # <<>>
      BY <2>2, ThreeTypes
    <3> HIDE DEF p
    <3>2. p \in 1..3
      BY <2>1, <3>1
    <3> QED
      BY <3>1, <3>2, ThreeTypes
  <2> HIDE DEF ready, p, t, q
  <2>4. /\ q \in QueueRecord /\ Sound(q, t) /\ seen[c][t] \in Seq(Events)
        /\ q.msgs \in Seq(Events) /\ q = streams[c][t]
    BY <2>3 DEF BusShape, QueuesSound, q, QueueRecord
  <2> DEFINE n == [msgs |-> Tail(q.msgs), subscribed |-> q.subscribed,
                   age |-> q.age, full |-> q.full, since |-> q.since]
             g == Append(seen[c][t], Head(q.msgs))
  <2>5. /\ Tail(q.msgs) \in Seq(Events) /\ Head(q.msgs) \in Events
        /\ Tail(q.msgs) \in Seq(EventsOf(t))
        /\ Len(Tail(q.msgs)) = Len(q.msgs) - 1
        /\ Len(q.msgs) \in Nat
    BY <2>3, <2>4, HeadTailProperties, LenProperties DEF Sound
  <2>6. n \in QueueRecord
    BY <2>4, <2>5 DEF QueueRecord
  <2>7. Sound(n, t)
    BY <2>4, <2>5, BusAssumption DEF Sound
  <2>8. g \in Seq(Events)
    BY <2>4, <2>5, AppendProperties
  <2>9. g \o n.msgs = seen[c][t] \o q.msgs
    BY <2>3, <2>4, YieldKeepsGot
  <2>10. \A s : Explained(q, s, seen[c][t]) => Explained(n, s, g)
    BY <2>9 DEF Explained
  <2>11. [q EXCEPT !.msgs = Tail(@)] = n
    BY <2>4, ShorterQueue
  <2> HIDE DEF n, g
  <2>12. /\ streams' = [streams EXCEPT ![c] = [streams[c] EXCEPT ![t] = n]]
         /\ seen' = [seen EXCEPT ![c] = [seen[c] EXCEPT ![t] = g]]
    <3>1. streams' = [streams EXCEPT ![c] = [streams[c] EXCEPT ![t] =
                         [streams[c][t] EXCEPT !.msgs = Tail(@)]]]
      BY <2>1, Zenon
    <3> QED
      BY <2>1, <2>4, <2>11, <3>1, Zenon DEF g
  <2>13. /\ streams'[c][t] = n /\ seen'[c][t] = g
         /\ \A u \in TypeSet \ {t} :
                streams'[c][u] = streams[c][u] /\ seen'[c][u] = seen[c][u]
         /\ \A d \in Clients \ {c} :
                streams'[d] = streams[d] /\ seen'[d] = seen[d] /\ pos'[d] = pos[d]
    BY <2>1, <2>3, <2>12 DEF BusShape
  <2>14. BusShape'
    <3>1. [streams[c] EXCEPT ![t] = n] \in [TypeSet -> QueueRecord]
      BY <2>3, <2>6 DEF BusShape
    <3>2. [seen[c] EXCEPT ![t] = g] \in [TypeSet -> Seq(Events)]
      BY <2>3, <2>8 DEF BusShape
    <3>3. pos' \in [Clients -> 0..(Len(Types) + 1)]
      BY <2>1, <2>3, ThreeTypes DEF BusShape
    <3>4. streams' \in [Clients -> [TypeSet -> QueueRecord]]
      BY <2>12, <3>1 DEF BusShape
    <3>5. seen' \in [Clients -> [TypeSet -> Seq(Events)]]
      BY <2>12, <3>2 DEF BusShape
    <3>6. UNCHANGED <<history, gone, sent>>
      BY <2>1
    <3> QED
      BY <3>3, <3>4, <3>5, <3>6 DEF BusShape
  <2>15. QueuesSound'
    BY <2>7, <2>13 DEF QueuesSound
  <2>16. StreamsExplained'
    <3> SUFFICES ASSUME NEW d \in Clients, NEW u \in TypeSet, pos'[d] > 0
                 PROVE  /\ streams'[d][u].since <= Len(sent[u])
                        /\ Explained(streams'[d][u], sent[u], seen'[d][u])
      BY <2>1 DEF StreamsExplained
    <3>1. CASE d # c \/ u # t
      BY <3>1, <2>1, <2>13 DEF StreamsExplained
    <3>2. CASE d = c /\ u = t
      <4>1. q.since <= Len(sent[t]) /\ Explained(q, sent[t], seen[c][t])
        BY <2>1, <2>3, <2>4 DEF StreamsExplained
      <4>2. n.since = q.since
        BY DEF n
      <4> QED
        BY <3>2, <4>1, <4>2, <2>10, <2>13
    <3> QED
      BY <3>1, <3>2
  <2> QED
    BY <2>14, <2>15, <2>16
<1> QED
  BY <1>1, <1>2

\* What keeps the messages, the numbers and the clients of all queues, and lets
\* a queue age or go off the bus.
LEMMA AgeKeeps ==
    ASSUME BusInv, UNCHANGED <<history, pos, gone, sent, seen>>,
           streams' \in [Clients -> [TypeSet -> QueueRecord]],
           \A c \in Clients, t \in TypeSet :
               /\ streams'[c][t].msgs = streams[c][t].msgs
               /\ streams'[c][t].full = streams[c][t].full
               /\ streams'[c][t].since = streams[c][t].since
               /\ streams'[c][t].subscribed => streams[c][t].subscribed
    PROVE  BusInv'
<1> USE DEF BusInv
<1>1. BusShape'
  BY DEF BusShape
<1>2. QueuesSound'
  BY DEF QueuesSound, Sound
<1>3. StreamsExplained'
  <2> SUFFICES ASSUME NEW c \in Clients, NEW t \in TypeSet, pos[c] > 0
               PROVE  /\ streams'[c][t].since <= Len(sent[t])
                      /\ Explained(streams'[c][t], sent[t], seen[c][t])
    BY DEF StreamsExplained
  <2>1. /\ streams[c][t].since <= Len(sent[t])
        /\ Explained(streams[c][t], sent[t], seen[c][t])
    BY DEF StreamsExplained
  <2> QED
    BY <2>1 DEF Explained
<1> QED
  BY <1>1, <1>2, <1>3

LEMMA TickKeeps ==
    ASSUME BusInv, Tick
    PROVE  BusInv'
<1> DEFINE older(q) == [q EXCEPT !.age = IF @ <= MaxAge THEN @ + 1 ELSE @]
<1>1. \A c \in Clients, t \in TypeSet : streams[c][t] \in QueueRecord
  BY DEF BusInv, BusShape
<1>2. /\ streams' = [c \in Clients |-> [t \in TypeSet |-> older(streams[c][t])]]
      /\ UNCHANGED <<history, pos, gone, sent, seen>>
  BY DEF Tick
<1>3. ASSUME NEW q \in QueueRecord
      PROVE  /\ older(q) \in QueueRecord
             /\ older(q).msgs = q.msgs /\ older(q).full = q.full
             /\ older(q).since = q.since /\ older(q).subscribed = q.subscribed
  <2>1. q.age \in 0..(MaxAge + 1)
    BY DEF QueueRecord
  <2>2. (IF q.age <= MaxAge THEN q.age + 1 ELSE q.age) \in 0..(MaxAge + 1)
    BY <2>1, BusAssumption
  <2> QED
    BY <2>2 DEF QueueRecord
<1> HIDE DEF older
<1>4. \A c \in Clients, t \in TypeSet :
         /\ streams'[c][t] = older(streams[c][t])
         /\ streams'[c][t] \in QueueRecord
  BY <1>1, <1>2, <1>3
<1>5. streams' \in [Clients -> [TypeSet -> QueueRecord]]
  BY <1>2, <1>4
<1> QED
  BY <1>1, <1>2, <1>3, <1>4, <1>5, AgeKeeps

LEMMA CleanupKeeps ==
    ASSUME BusInv, Cleanup
    PROVE  BusInv'
<1>1. \A c \in Clients, t \in TypeSet : streams[c][t] \in QueueRecord
  BY DEF BusInv, BusShape
<1>2. /\ streams' = [c \in Clients |-> [t \in TypeSet |->
             [streams[c][t] EXCEPT !.subscribed = @ /\ ~Abandoned(streams[c][t])]]]
      /\ UNCHANGED <<history, pos, gone, sent, seen>>
  BY DEF Cleanup
<1>3. ASSUME NEW q \in QueueRecord
      PROVE  [q EXCEPT !.subscribed = @ /\ ~Abandoned(q)] \in QueueRecord
  <2>1. (q.subscribed /\ ~Abandoned(q)) \in BOOLEAN
    OBVIOUS
  <2> QED
    BY <2>1 DEF QueueRecord
<1>4. \A c \in Clients, t \in TypeSet :
         LET q == streams[c][t] IN
         /\ streams'[c][t] = [q EXCEPT !.subscribed = @ /\ ~Abandoned(q)]
         /\ streams'[c][t] \in QueueRecord
  BY <1>1, <1>2, <1>3
<1>5. streams' \in [Clients -> [TypeSet -> QueueRecord]]
  BY <1>2, <1>4
<1> QED
  <2>1. ASSUME NEW q \in QueueRecord, NEW r,
               r = [q EXCEPT !.subscribed = @ /\ ~Abandoned(q)]
        PROVE  /\ r.msgs = q.msgs /\ r.full = q.full
               /\ r.since = q.since
               /\ r.subscribed <=> q.subscribed /\ ~Abandoned(q)
    BY <2>1 DEF QueueRecord
  <2>2. \A c \in Clients, t \in TypeSet :
            /\ streams'[c][t].msgs = streams[c][t].msgs
            /\ streams'[c][t].full = streams[c][t].full
            /\ streams'[c][t].since = streams[c][t].since
            /\ streams'[c][t].subscribed
                  <=> streams[c][t].subscribed /\ ~Abandoned(streams[c][t])
    <3> TAKE c \in Clients, t \in TypeSet
    <3>1. /\ streams[c][t] \in QueueRecord
          /\ streams'[c][t] = [streams[c][t] EXCEPT
                 !.subscribed = @ /\ ~Abandoned(streams[c][t])]
      BY <1>1, <1>4, Zenon
    <3> QED
      BY <2>1, <3>1, Zenon
  <2> QED
    BY <1>2, <1>5, <2>2, AgeKeeps

LEMMA BusStepKeeps == BusInv /\ [BusStep]_busVars => BusInv'
<1> SUFFICES ASSUME BusInv, [BusStep]_busVars PROVE BusInv'
  OBVIOUS
<1>1. CASE \E type \in TypeSet, run \in Nat : Publish(type, run)
  BY <1>1, PublishKeeps
<1>2. CASE \E c \in Clients : Connect(c) \/ Poll(c) \/ EndStream(c) \/ HangUp(c)
  <2> PICK c \in Clients : Connect(c) \/ Poll(c) \/ EndStream(c) \/ HangUp(c)
    BY <1>2
  <2>1. CASE EndStream(c) \/ HangUp(c)
    <3>1. /\ UNCHANGED <<history, streams, sent, seen>>
          /\ gone' \subseteq Clients
          /\ pos' = pos \/ pos' = [pos EXCEPT ![c] = 0]
      BY <2>1 DEF BusInv, BusShape, EndStream, HangUp
    <3>0. pos \in [Clients -> 0..4] /\ Len(Types) = 3
      BY ThreeTypes DEF BusInv, BusShape
    <3>2. pos' \in [Clients -> 0..(Len(Types) + 1)]
      <4>1. CASE pos' = pos
        BY <4>1, <3>0
      <4>2. CASE pos' = [pos EXCEPT ![c] = 0]
        BY <4>2, <3>0
      <4> QED
        BY <3>1, <4>1, <4>2
    <3>3. \A d \in Clients : pos'[d] > 0 => pos[d] > 0
      BY <3>0, <3>1
    <3>4. BusShape'
      BY <3>1, <3>2 DEF BusInv, BusShape
    <3>5. QueuesSound' /\ StreamsExplained'
      BY <3>1, <3>3 DEF BusInv, QueuesSound, StreamsExplained
    <3> QED
      BY <3>4, <3>5 DEF BusInv
  <2> QED
    BY <2>1, ConnectKeeps, PollKeeps
<1>3. CASE Tick \/ Cleanup
  BY <1>3, TickKeeps, CleanupKeeps
<1>4. CASE UNCHANGED busVars
  BY <1>4 DEF busVars, BusInv, BusShape, QueuesSound, StreamsExplained
<1> QED
  BY <1>1, <1>2, <1>3, <1>4 DEF BusStep, BusNext

\* A restart of the process while no stream is open.
LEMMA RestartKeeps ==
    ASSUME BusInv, \A c \in Clients : pos[c] = 0,
           history' = <<>>, sent' = [t \in TypeSet |-> <<>>],
           UNCHANGED <<streams, pos, gone, seen>>
    PROVE  BusInv'
<1>1. BusShape'
  BY BusAssumption DEF BusInv, BusShape
<1>2. QueuesSound' /\ StreamsExplained'
  BY DEF BusInv, QueuesSound, StreamsExplained
<1> QED
  BY <1>1, <1>2 DEF BusInv

LEMMA InvTypes == BusInv => BusTypeOK
<1> SUFFICES ASSUME BusInv PROVE BusTypeOK
  OBVIOUS
<1>1. ASSUME NEW x \in Queues
      PROVE  /\ Queue(x).msgs \in Seq([type : {x[2]}, run : Nat])
             /\ Len(Queue(x).msgs) <= Capacity
             /\ Queue(x).subscribed \in BOOLEAN /\ Queue(x).age \in 0..(MaxAge + 1)
  <2>1. x[1] \in Clients /\ x[2] \in TypeSet
    BY DEF Queues
  <2>2. Queue(x) \in QueueRecord /\ Sound(Queue(x), x[2])
    BY <2>1 DEF BusInv, BusShape, QueuesSound, Queue
  <2> QED
    BY <2>2 DEF QueueRecord, Sound, EventsOf
<1> QED
  BY <1>1 DEF BusInv, BusShape, BusTypeOK

LEMMA InvExplains == BusInv => LossExplained
<1> SUFFICES ASSUME BusInv, NEW x \in Queues, pos[x[1]] > 0
             PROVE  Explained(Queue(x), sent[x[2]], seen[x[1]][x[2]])
  BY Zenon DEF LossExplained, Explained, Follows
<1> QED
  BY DEF Queues, Queue, BusInv, StreamsExplained

-----------------------------------------------------------------------------
(* The theorems.                                                           *)

\* BusInv is an invariant of the bus, whoever publishes.
THEOREM BusInvariant == BusSpec => []BusInv
<1>1. BusInit => BusInv
  BY BusStarts
<1>2. BusInv /\ [BusStep]_busVars => BusInv'
  BY BusStepKeeps
<1> QED
  BY <1>1, <1>2, PTL DEF BusSpec

\* The queues and the history never hold more than they may, and each queue
\* holds events of its own type only (publish, _queue_meta).
THEOREM BusTypes == BusSpec => []BusTypeOK
<1>1. BusInv => BusTypeOK
  BY InvTypes
<1> QED
  BY <1>1, BusInvariant, PTL

\* Whoever publishes and however the streams are polled: a stream yields the
\* events of a type in their order, each at most once, and until its queue is
\* full for the first time all of them, or the first ones if the queue went off
\* the bus (publish, stream_events, cleanup_stale_subscribers).
THEOREM BusExplainsLoss == BusSpec => []LossExplained
<1>1. BusInv => LossExplained
  BY InvExplains
<1> QED
  BY <1>1, BusInvariant, PTL
=============================================================================
