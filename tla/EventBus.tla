------------------------------ MODULE EventBus ------------------------------
(***************************************************************************)
(* The bus behind the live War Room stream (backend/orchestrator/bus.py)   *)
(* and the endpoint that serves it (backend/api/warroom.py, GET /events).  *)
(*                                                                         *)
(* An event is its `seq`: payloads play no part in delivery.  Everything   *)
(* runs on one asyncio loop, so an action is the code between two points   *)
(* where the stream generator is suspended (a `yield` or an `await`).      *)
(* The client is a browser EventSource: it remembers the `id:` of the last *)
(* frame it was sent, whatever the frame was, and presents it as           *)
(* Last-Event-ID when it reconnects.  session.bind starts another bus at   *)
(* seq 0; a tab that was open before brings the old bus's id to it.        *)
(***************************************************************************)
EXTENDS Integers, Sequences, FiniteSets

CONSTANTS
    Clients,       \* the browsers that may hold a stream open
    HistoryLimit,  \* HISTORY_LIMIT, the length of the ring
    QueueLimit,    \* SUBSCRIBER_QUEUE_LIMIT, events a subscriber may have waiting
    MaxEvents,     \* bound: events emitted in a behaviour
    OldIds         \* ids a tab may still hold from the bus of an earlier session

ASSUME BusAssumption ==
    /\ HistoryLimit \in Nat \ {0}
    /\ QueueLimit \in Nat \ {0}
    /\ MaxEvents \in Nat
    /\ OldIds \subseteq Nat

VARIABLES
    seq,         \* EventBus._seq, the seq the next event will carry
    history,     \* EventBus._history, oldest first
    phase,       \* where each client's stream() generator is suspended
    replay_from, \* the argument stream() was called with
    pending,     \* the part of the replayed history not yet looked at
    replayed,    \* the local `replayed` of stream()
    queue,       \* Subscriber.queue
    dropped,     \* Subscriber.dropped, as the seqs it counted
    sent,        \* the events written on the present connection
    oldest,      \* the oldest seq the ring held when the replay was taken
    lastId       \* client: id of the last frame received, None before any

busVars    == <<seq, history>>
streamVars == <<phase, replay_from, pending, replayed, queue, dropped, sent, oldest>>
clientVars == lastId
vars       == <<busVars, streamVars, clientVars>>

None == -1

\* "closed": no generator.  "opened": suspended on the opener's yield.
\* "replaying": suspended on a replayed event.  "live": in wait_for(queue.get()).
\* "timedout": wait_for's timer has fired and the task has not resumed yet.
Phases == {"closed", "opened", "replaying", "live", "timedout"}

\* mutant: subscribing only once the replay is over
SubscribedLate(c) == phase[c] \in {"live", "timedout"}
\* stream() subscribes before its first yield and unsubscribes in its finally.
Subscribed(c) == phase[c] # "closed"

Elements(s) == {s[i] : i \in DOMAIN s}

AtLeast(a, b) == IF a >= b THEN a ELSE b

-----------------------------------------------------------------------------
(* Producing *)

\* mutant: the ring evicts one event early
RememberShort(h, e) ==
    IF Len(h) + 1 < HistoryLimit \/ h = <<>> THEN Append(h, e) ELSE Append(Tail(h), e)
\* deque(maxlen=history_limit).append
Remember(h, e) ==
    IF Len(h) < HistoryLimit THEN Append(h, e) ELSE Append(Tail(h), e)

\* mutants: the queue has no limit; a full queue makes room by losing its oldest
OfferedUnbounded(q, e) == Append(q, e)
OfferedDropOldest(q, e) ==
    IF Len(q) < QueueLimit THEN Append(q, e) ELSE Append(Tail(q), e)
\* Subscriber.offer: a full queue refuses the event and counts it.
Offered(q, e) == IF Len(q) < QueueLimit THEN Append(q, e) ELSE q
Refused(q, d, e) == IF Len(q) < QueueLimit THEN d ELSE d \cup {e}

\* EventBus.emit and _publish: no await between stamping and fan-out.
Emit ==
    /\ seq < MaxEvents
    /\ seq' = seq + 1
    /\ history' = Remember(history, seq)
    /\ queue' = [c \in Clients |->
                   IF Subscribed(c) THEN Offered(queue[c], seq) ELSE queue[c]]
    /\ dropped' = [c \in Clients |->
                   IF Subscribed(c) THEN Refused(queue[c], dropped[c], seq)
                                    ELSE dropped[c]]
    /\ UNCHANGED <<phase, replay_from, pending, replayed, sent, oldest, clientVars>>

-----------------------------------------------------------------------------
(* Consuming *)

\* GET /events: Last-Event-ID + 1, and without one replay_from, which is 0.
Cursor(c) == IF lastId[c] # None THEN lastId[c] + 1 ELSE 0

\* A frame reaches the client: to_sse writes its seq as `id:`.
Frame(c, id) == lastId' = [lastId EXCEPT ![c] = id]

\* stream() up to the opener's yield: subscribe, then the opener, whose id is
\* replay_from.  (Bound: a client whose cursor has run past every event there
\* will be does not reconnect again; each opener moves the cursor by one.)
Connect(c) ==
    /\ phase[c] = "closed"
    /\ Cursor(c) <= MaxEvents + 1
    /\ phase' = [phase EXCEPT ![c] = "opened"]
    /\ replay_from' = [replay_from EXCEPT ![c] = Cursor(c)]
    /\ Frame(c, AtLeast(Cursor(c), 0))
    /\ UNCHANGED <<busVars, pending, replayed, queue, dropped, sent, oldest>>

\* An event frame leaves the generator and reaches the client.
Deliver(c, e) ==
    /\ sent' = [sent EXCEPT ![c] = @ \cup {e}]
    /\ Frame(c, e)

\* The oldest event history() can return.
OldestHeld == IF history = <<>> THEN seq ELSE history[1]

\* Resuming from the opener evaluates history(since=replay_from) once; the
\* loop then walks that list.  The filter is applied while walking.
TakeReplay(c) ==
    /\ phase[c] = "opened"
    /\ phase' = [phase EXCEPT ![c] = "replaying"]
    /\ pending' = [pending EXCEPT ![c] = history]
    /\ oldest' = [oldest EXCEPT ![c] = OldestHeld]
    /\ UNCHANGED <<busVars, replay_from, replayed, queue, dropped, sent, clientVars>>

\* history(): an event below `since` is not part of the replay.
ReplaySkips(c) ==
    /\ phase[c] = "replaying"
    /\ pending[c] # <<>>
    /\ Head(pending[c]) < replay_from[c]
    /\ pending' = [pending EXCEPT ![c] = Tail(@)]
    /\ UNCHANGED <<busVars, phase, replay_from, replayed, queue, dropped, sent,
                   oldest, clientVars>>

Replay(c) ==
    /\ phase[c] = "replaying"
    /\ pending[c] # <<>>
    /\ Head(pending[c]) >= replay_from[c]
    /\ pending' = [pending EXCEPT ![c] = Tail(@)]
    /\ replayed' = [replayed EXCEPT ![c] = Head(pending[c])]
    /\ Deliver(c, Head(pending[c]))
    /\ UNCHANGED <<busVars, phase, replay_from, queue, dropped, oldest>>

ReplayDone(c) ==
    /\ phase[c] = "replaying"
    /\ pending[c] = <<>>
    /\ phase' = [phase EXCEPT ![c] = "live"]
    /\ UNCHANGED <<busVars, replay_from, pending, replayed, queue, dropped, sent,
                   oldest, clientVars>>

\* mutant: the live loop does not test for what the replay wrote
LiveUnfiltered(c) ==
    /\ phase[c] = "live"
    /\ queue[c] # <<>>
    /\ queue' = [queue EXCEPT ![c] = Tail(@)]
    /\ Deliver(c, Head(queue[c]))
    /\ UNCHANGED <<busVars, phase, replay_from, pending, replayed, dropped, oldest>>
\* The live loop takes the head of the queue; an event the replay already
\* wrote is passed over.
Live(c) ==
    /\ phase[c] = "live"
    /\ queue[c] # <<>>
    /\ queue' = [queue EXCEPT ![c] = Tail(@)]
    /\ IF Head(queue[c]) <= replayed[c]
         THEN UNCHANGED <<sent, clientVars>>
         ELSE Deliver(c, Head(queue[c]))
    /\ UNCHANGED <<busVars, phase, replay_from, pending, replayed, dropped, oldest>>

\* wait_for only starts its timer on an empty queue.
TimerFires(c) ==
    /\ phase[c] = "live"
    /\ queue[c] = <<>>
    /\ phase' = [phase EXCEPT ![c] = "timedout"]
    /\ UNCHANGED <<busVars, replay_from, pending, replayed, queue, dropped, sent,
                   oldest, clientVars>>

\* mutant: the handler beats again instead of going back to the queue
HeartbeatForever(c) ==
    /\ phase[c] = "timedout"
    /\ Frame(c, AtLeast(seq - 1, 0))
    /\ UNCHANGED <<busVars, phase, replay_from, pending, replayed, queue, dropped,
                   sent, oldest>>
\* The TimeoutError handler.  Events emitted since the timer fired are in the
\* queue, and counted in _seq.
Heartbeat(c) ==
    /\ phase[c] = "timedout"
    /\ phase' = [phase EXCEPT ![c] = "live"]
    /\ Frame(c, AtLeast(seq - 1, 0))
    /\ UNCHANGED <<busVars, replay_from, pending, replayed, queue, dropped, sent,
                   oldest>>

\* The connection drops at any suspension point; the finally unsubscribes, and
\* the subscriber goes with the generator's locals.
Disconnect(c) ==
    /\ Subscribed(c)
    /\ phase' = [phase EXCEPT ![c] = "closed"]
    /\ replay_from' = [replay_from EXCEPT ![c] = 0]
    /\ pending' = [pending EXCEPT ![c] = <<>>]
    /\ replayed' = [replayed EXCEPT ![c] = None]
    /\ queue' = [queue EXCEPT ![c] = <<>>]
    /\ dropped' = [dropped EXCEPT ![c] = {}]
    /\ sent' = [sent EXCEPT ![c] = {}]
    /\ oldest' = [oldest EXCEPT ![c] = 0]
    /\ UNCHANGED <<busVars, clientVars>>

-----------------------------------------------------------------------------
Init ==
    /\ seq = 0
    /\ history = <<>>
    /\ phase = [c \in Clients |-> "closed"]
    /\ replay_from = [c \in Clients |-> 0]
    /\ pending = [c \in Clients |-> <<>>]
    /\ replayed = [c \in Clients |-> None]
    /\ queue = [c \in Clients |-> <<>>]
    /\ dropped = [c \in Clients |-> {}]
    /\ sent = [c \in Clients |-> {}]
    /\ oldest = [c \in Clients |-> 0]
    /\ lastId \in [Clients -> OldIds \cup {None}]

StreamStep(c) ==
    \/ TakeReplay(c) \/ ReplaySkips(c) \/ Replay(c) \/ ReplayDone(c)
    \/ Live(c) \/ TimerFires(c) \/ Heartbeat(c)

Next ==
    \/ Emit
    \/ \E c \in Clients : Connect(c) \/ StreamStep(c) \/ Disconnect(c)

Spec == Init /\ [][Next]_vars

\* The server keeps pulling an open generator, and the loop runs every task
\* that is ready.  Nothing makes a client connect or stay.
FairSpec == Spec /\ \A c \in Clients : WF_vars(StreamStep(c))

-----------------------------------------------------------------------------
(* Properties *)

TypeOK ==
    /\ seq \in 0..MaxEvents
    /\ history \in Seq(Nat) /\ Len(history) <= HistoryLimit
    /\ phase \in [Clients -> Phases]
    /\ replay_from \in [Clients -> Nat]
    /\ pending \in [Clients -> Seq(Nat)]
    /\ replayed \in [Clients -> Nat \cup {None}]
    /\ queue \in [Clients -> Seq(Nat)]
    /\ \A c \in Clients : Len(queue[c]) <= QueueLimit
    /\ dropped \in [Clients -> SUBSET Nat]
    /\ sent \in [Clients -> SUBSET Nat]
    /\ oldest \in [Clients -> Nat]
    /\ lastId \in [Clients -> Nat \cup {None}]

\* The ring is always the last events emitted, in order and without a hole, so
\* the `seq` of an event is a position a client can resume from.
HistoryIsSuffix ==
    /\ Len(history) = (IF seq < HistoryLimit THEN seq ELSE HistoryLimit)
    /\ \A i \in 1..Len(history) : history[i] = seq - Len(history) + i - 1

\* A connection never goes back: the replay, the queue behind it and the live
\* loop's `seq <= replayed` test together never write an event twice or out of
\* order, whatever is emitted between the opener and the end of the replay.
InOrderOnce ==
    [][\A c \in Clients :
          \A e \in sent'[c] \ sent[c] : \A d \in sent[c] : d < e]_vars

\* The only holes in an open connection are the ones the bus knows about: an
\* event at or after the cursor, and before the last event written, was
\* written, or was refused by the full queue, or had already left the ring when
\* the replay was taken.
HolesAreCounted ==
    \A c \in Clients : Subscribed(c) =>
        \A d \in sent[c] : \A e \in replay_from[c]..d :
            e \in sent[c] \cup dropped[c] \/ e < oldest[c]

\* Every event not yet written on an open live connection is still on its way,
\* unless it was refused: nothing disappears between the replay and the queue.
NothingInFlightIsLost ==
    \A c \in Clients : phase[c] \in {"live", "timedout"} =>
        \A e \in AtLeast(replay_from[c], oldest[c])..(seq - 1) :
            e \in sent[c] \cup dropped[c] \cup Elements(queue[c])

\* A client that keeps its connection open is brought up to date: every event
\* is eventually written to it or refused by its queue (or left the ring before
\* the replay).
CaughtUp(c) ==
    \A e \in replay_from[c]..(seq - 1) :
        e \in sent[c] \cup dropped[c] \/ e < oldest[c]
StreamCatchesUp ==
    \A c \in Clients : Subscribed(c) ~> (~Subscribed(c) \/ CaughtUp(c))

=============================================================================
