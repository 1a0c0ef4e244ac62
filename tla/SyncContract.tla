---------------------------- MODULE SyncContract ----------------------------
(***************************************************************************)
(* What the parquet -> LanceDB synchronisation promises, and nothing of    *)
(* how it is done.  Every key (workspace, collection, entity, rep) has a   *)
(* source version (the parquet file) and a view version (its LanceDB rows, *)
(* 0 when there are none).  A write makes the key owed.  A key stops being *)
(* owed when the view shows the source, when the queue says in its log     *)
(* that it gives the key up, or when the key is forgotten, of which        *)
(* nothing tells; a key that is on record is never forgotten.              *)
(***************************************************************************)
EXTENDS Naturals

CONSTANTS Keys,       \* the dedup keys of the queue
          MaxWrites   \* bound on the parquet writes of a behaviour

VARIABLES source,     \* [Keys -> version of the parquet file]
          view,       \* [Keys -> version of the LanceDB rows]
          owed,       \* keys for which a synchronisation is promised
          recorded,   \* owed keys that a durable record says are pending
          disclaimed, \* keys whose synchronisation was given up, with a log line
          forgotten   \* keys whose synchronisation was lost without one

cvars == <<source, view, owed, recorded, disclaimed, forgotten>>

CInit ==
    /\ source = [k \in Keys |-> 0]
    /\ view = [k \in Keys |-> 0]
    /\ owed = {}
    /\ recorded = {}
    /\ disclaimed = {}
    /\ forgotten = {}

\* A new version of the parquet file: the key is owed and not on record yet,
\* whatever was given up or lost for an older version no longer counts.
CWrite(k) ==
    /\ \E v \in 1..MaxWrites :
          /\ v > source[k]
          /\ source' = [source EXCEPT ![k] = v]
    /\ owed' = owed \cup {k}
    /\ recorded' = recorded \ {k}
    /\ disclaimed' = disclaimed \ {k}
    /\ forgotten' = forgotten \ {k}
    /\ UNCHANGED view

\* The rows of a key that is not settled change: removed, or replaced by
\* those of a version that was current when the work began.
CTouch(k) ==
    /\ k \in owed \cup disclaimed \cup forgotten
    /\ \E v \in 0..source[k] : view' = [view EXCEPT ![k] = v]
    /\ UNCHANGED <<source, owed, recorded, disclaimed, forgotten>>

\* The work on a key starts, starts again, or goes on record: it is owed.
CAdopt(k) ==
    /\ owed' = owed \cup {k}
    /\ recorded' \in {recorded \cup {k}, recorded \ {k}}
    /\ disclaimed' = disclaimed \ {k}
    /\ forgotten' = forgotten \ {k}
    /\ UNCHANGED <<source, view>>

\* The promise is kept: only when the view shows the source.
CSettle(k) ==
    /\ k \in owed
    /\ view[k] = source[k]
    /\ owed' = owed \ {k}
    /\ recorded' = recorded \ {k}
    /\ UNCHANGED <<source, view, disclaimed, forgotten>>

\* The promises of the keys K are given up, visibly.
CDisclaim(K) ==
    /\ K \subseteq owed
    /\ owed' = owed \ K
    /\ recorded' = recorded \ K
    /\ disclaimed' = disclaimed \cup K
    /\ UNCHANGED <<source, view, forgotten>>

\* The promises of the keys K, none of them on record, are lost.
CForget(K) ==
    /\ K \subseteq owed \ recorded
    /\ owed' = owed \ K
    /\ forgotten' = forgotten \cup K
    /\ UNCHANGED <<source, view, recorded, disclaimed>>

CNext ==
    \/ \E k \in Keys : CWrite(k) \/ CTouch(k) \/ CAdopt(k) \/ CSettle(k)
    \/ \E K \in SUBSET Keys : CDisclaim(K) \/ CForget(K)

CSpec == CInit /\ [][CNext]_cvars

=============================================================================
