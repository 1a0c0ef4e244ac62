------------------------------- MODULE EventBus -------------------------------
(***************************************************************************)
(* The event bus (app/services/event_bus.py), the server-sent event stream *)
(* of a client (app/routers/events.py) and the cleanup loop (app/main.py). *)
(*                                                                         *)
(* publish has no await: an event is published in one step, of whichever   *)
(* coroutine publishes it.  EventBus has no unsubscribe, so the call of it *)
(* when a stream ends raises AttributeError and the queues stay.           *)
(***************************************************************************)
EXTENDS Naturals, Sequences, SequencesExt, FiniteSets, FiniteSetsExt

CONSTANTS Clients,
          Capacity,     \* maxsize of a queue (1000)
          MaxHistory,   \* _max_history (1000)
          MaxAge        \* max_age_seconds (an hour), in ticks of the clock

ASSUME BusAssumption ==
    Capacity \in Nat \ {0} /\ MaxHistory \in Nat \ {0} /\ MaxAge \in Nat

\* The types that are published, in the order of EventType.
Types == <<"entity_created", "rep_completed", "index_completed">>
TypeSet == ToSet(Types)

VARIABLES
    history,   \* _history
    streams,   \* client -> type -> queue and its _queue_meta
    pos,       \* client -> queue its generator polls next, 0: not running
    gone,      \* clients that have hung up
    sent,      \* history variable: type -> events published since the start
    seen       \* history variable: client -> type -> events yielded

busVars == <<history, streams, pos, gone, sent, seen>>

\* `age`: the ticks since last_read, no more counted than decide; created_at is
\* not later.  `full`, `since`: history variables, whether the queue was ever
\* full and how many events were published before it.
NoQueue == [msgs |-> <<>>, subscribed |-> FALSE, age |-> 0,
            full |-> FALSE, since |-> 0]

BusInit ==
    /\ history = <<>>
    /\ streams = [c \in Clients |-> [t \in TypeSet |-> NoQueue]]
    /\ pos = [c \in Clients |-> 0]
    /\ gone = {}
    /\ sent = [t \in TypeSet |-> <<>>]
    /\ seen = [c \in Clients |-> [t \in TypeSet |-> <<>>]]

\* Mutant of Remember: the history is not trimmed.
RememberAll(events, e) == Append(events, e)

Remember(events, e) ==
    LET all == Append(events, e) IN
    SubSeq(all, Max({1, Len(all) + 1 - MaxHistory}), Len(all))

\* Mutant of Put: the oldest event makes room, and the queue counts as read.
PutOverOldest(q, e) ==
    [q EXCEPT !.msgs = Append(IF Len(@) < Capacity THEN @ ELSE Tail(@), e),
              !.age = 0]

\* put_nowait: a full queue drops the event and its last_read stays.  last_read
\* is set here only, so it is the time of the last event that was put, not read.
Put(q, e) ==
    IF Len(q.msgs) >= Capacity THEN q
    ELSE [q EXCEPT !.msgs = Append(@, e), !.age = 0,
                   !.full = @ \/ Len(q.msgs) + 1 = Capacity]

\* publish
Publish(type, run) ==
    LET e == [type |-> type, run |-> run] IN
    /\ history' = Remember(history, e)
    /\ streams' = [c \in Clients |->
           [streams[c] EXCEPT ![type] = IF @.subscribed THEN Put(@, e) ELSE @]]
    /\ sent' = [sent EXCEPT ![type] = Append(@, e)]
    /\ UNCHANGED <<pos, gone, seen>>

\* stream_events: a queue for each type.
Connect(c) ==
    /\ pos[c] = 0
    /\ c \notin gone
    /\ pos' = [pos EXCEPT ![c] = 1]
    /\ streams' = [streams EXCEPT ![c] = [t \in TypeSet |->
           [NoQueue EXCEPT !.subscribed = TRUE, !.since = Len(sent[t])]]]
    /\ seen' = [seen EXCEPT ![c] = [t \in TypeSet |-> <<>>]]
    /\ UNCHANGED <<history, gone, sent>>

\* The first queue from pos on that has an event yields it; without one the
\* generator sleeps and begins a new pass.  A new pass looks at the connection
\* first.
Poll(c) ==
    LET ready == {p \in pos[c]..Len(Types) : streams[c][Types[p]].msgs # <<>>}
        p == Min(ready)
        t == Types[p] IN
    /\ pos[c] > 0
    /\ pos[c] > 1 \/ c \notin gone
    /\ IF ready = {}
       THEN /\ pos[c] > 1
            /\ pos' = [pos EXCEPT ![c] = 1]
            /\ UNCHANGED <<streams, seen>>
       ELSE /\ seen' = [seen EXCEPT ![c][t] = Append(@, Head(streams[c][t].msgs))]
            /\ streams' = [streams EXCEPT ![c][t].msgs = Tail(@)]
            /\ pos' = [pos EXCEPT ![c] = p + 1]
    /\ UNCHANGED <<history, gone, sent>>

\* request.is_disconnected(): the generator ends, its queues stay.
EndStream(c) ==
    /\ pos[c] = 1
    /\ c \in gone
    /\ pos' = [pos EXCEPT ![c] = 0]
    /\ UNCHANGED <<history, streams, gone, sent, seen>>

\* The client hangs up.
HangUp(c) ==
    /\ pos[c] > 0
    /\ c \notin gone
    /\ gone' = gone \cup {c}
    /\ UNCHANGED <<history, streams, pos, sent, seen>>

Queues == Clients \X TypeSet
Queue(x) == streams[x[1]][x[2]]

\* Time passes for all queues alike, whatever is published meanwhile.
Tick ==
    /\ \E x \in Queues : Queue(x).subscribed /\ Queue(x).age <= MaxAge
    /\ streams' = [c \in Clients |-> [t \in TypeSet |->
           [streams[c][t] EXCEPT !.age = IF @ <= MaxAge THEN @ + 1 ELSE @]]]
    /\ UNCHANGED <<history, pos, gone, sent, seen>>

\* Mutant of Abandoned: events nobody has read keep a queue.
AbandonedEmpty(q) == q.subscribed /\ q.age > MaxAge /\ q.msgs = <<>>

Abandoned(q) == q.subscribed /\ q.age > MaxAge

\* cleanup_stale_subscribers, from the loop in main.py.
Cleanup ==
    /\ \E x \in Queues : Abandoned(Queue(x))
    /\ streams' = [c \in Clients |-> [t \in TypeSet |->
           [streams[c][t] EXCEPT !.subscribed = @ /\ ~Abandoned(streams[c][t])]]]
    /\ UNCHANGED <<history, pos, gone, sent, seen>>

BusNext ==
    \/ \E c \in Clients : Connect(c) \/ Poll(c) \/ EndStream(c) \/ HangUp(c)
    \/ Tick
    \/ Cleanup

\* The clock goes on, the cleanup loop runs and a stream is polled.  Nothing is
\* assumed of when events are published.
BusFairness ==
    /\ WF_busVars(Cleanup)
    /\ WF_busVars(Tick)
    /\ \A c \in Clients : WF_busVars(Poll(c)) /\ WF_busVars(EndStream(c))

-----------------------------------------------------------------------------
Events == [type : TypeSet, run : Nat]

BusTypeOK ==
    /\ history \in Seq(Events)
    /\ Len(history) <= MaxHistory
    /\ DOMAIN streams = Clients
    /\ \A x \in Queues :
        /\ Queue(x).msgs \in Seq([type : {x[2]}, run : Nat])
        /\ Len(Queue(x).msgs) <= Capacity
        /\ Queue(x).subscribed \in BOOLEAN /\ Queue(x).age \in 0..(MaxAge + 1)
    /\ pos \in [Clients -> 0..(Len(Types) + 1)]
    /\ gone \subseteq Clients

\* A stream gives each event of a type at most once and in the order in which
\* they were published.  Until its queue is full for the first time it misses
\* none while the queue is on the bus, and only the last ones, never one in
\* between, when the queue was taken from it (publish, stream_events,
\* cleanup_stale_subscribers).
LossExplained ==
    \A x \in Queues :
        pos[x[1]] > 0 =>
            LET q == Queue(x)
                due == SubSeq(sent[x[2]], q.since + 1, Len(sent[x[2]]))
                got == seen[x[1]][x[2]] \o q.msgs IN
            /\ \E f \in [DOMAIN got -> DOMAIN due] :
                  \A i \in DOMAIN got :
                      /\ due[f[i]] = got[i]
                      /\ i > 1 => f[i - 1] < f[i]
                      /\ ~q.full => f[i] = i
            /\ q.subscribed /\ ~q.full => Len(got) = Len(due)

\* The queues of a client that has left do not stay on the bus for good,
\* although unsubscribe fails, and however many events are published: an
\* abandoned queue ages once it is full, and the cleanup takes it with whatever
\* it holds (stream_events, publish, cleanup_stale_subscribers).
LeftQueuesGo ==
    \A c \in Clients :
        (c \in gone) ~> (\A t \in TypeSet : ~streams[c][t].subscribed)
=============================================================================
