--------------------------- MODULE EventBusProofs ---------------------------
(***************************************************************************)
(* Proofs about the War Room stream, for any set of clients, any ring and  *)
(* queue size and any number of events.                                    *)
(*                                                                         *)
(* None of the stream's properties is inductive by itself.  What makes     *)
(* them so is Stream: where the replay's cursor stands (Replaying), what   *)
(* is left in the queue (Queued) and that every event is accounted for at  *)
(* every moment (Covered).                                                 *)
(***************************************************************************)
EXTENDS EventBus, SequenceTheorems, TLAPS

-----------------------------------------------------------------------------
(* The inductive invariant *)

\* The first event this connection owes its client.
Owed(c) == AtLeast(replay_from[c], oldest[c])

\* A stretch of the ring: consecutive events, all emitted before n.
Consecutive(p, n) ==
    /\ \A i, j \in 1..Len(p) : p[j] = p[i] + (j - i)
    /\ \A i \in 1..Len(p) : p[i] < n

\* The replay has written (s) every event owed (o) up to `replayed` (r) and up
\* to what is left of it (p), which comes after all it has written.
Replaying(o, p, r, s) ==
    /\ \A e \in Nat : o <= e /\ e <= r => e \in s
    /\ p # <<>> => \A e \in Nat : o <= e /\ e < p[1] => e \in s
    /\ p # <<>> => \A d \in s : d < p[1]

\* The queue (q) is in order; an event written (s) came with the replay (r) or
\* is older than everything still queued.
Queued(q, r, s, n) ==
    /\ \A i, j \in 1..Len(q) : i < j => q[i] < q[j]
    /\ \A i \in 1..Len(q) : q[i] < n
    /\ \A d \in s : d < n
    /\ \A d \in s : d <= r \/ \A i \in 1..Len(q) : d < q[i]

\* Every event owed (o) that was emitted (n) is written (s), refused (x), queued
\* (q) or still in the replay (p).
Covered(o, n, s, x, q, p) ==
    \A e \in Nat : o <= e /\ e < n =>
        \/ e \in s \/ e \in x
        \/ \E i \in 1..Len(q) : q[i] = e
        \/ \E i \in 1..Len(p) : p[i] = e

\* What a generator holds at each of its suspension points.
AtPhase(c) ==
    /\ phase[c] = "closed" => queue[c] = <<>> /\ dropped[c] = {}
    /\ phase[c] \in {"closed", "opened"} =>
          pending[c] = <<>> /\ sent[c] = {} /\ replayed[c] = None
    /\ phase[c] = "replaying" => \A d \in sent[c] : d <= replayed[c]
    /\ phase[c] \in {"live", "timedout"} => pending[c] = <<>>

Stream(c) ==
    /\ AtPhase(c)
    /\ Consecutive(pending[c], seq)
    /\ Replaying(Owed(c), pending[c], replayed[c], sent[c])
    /\ Queued(queue[c], replayed[c], sent[c], seq)
    /\ phase[c] \in {"replaying", "live", "timedout"} =>
          Covered(Owed(c), seq, sent[c], dropped[c], queue[c], pending[c])

\* The inductive invariant.
Delivery == TypeOK /\ HistoryIsSuffix /\ \A c \in Clients : Stream(c)

-----------------------------------------------------------------------------
(* Sequences of events *)

\* What is left of a replay, or of a queue, when its head has been taken.
LEMMA TailOfEvents ==
    ASSUME NEW s \in Seq(Nat), s # <<>>
    PROVE  /\ Len(s) \in Nat \ {0}
           /\ Head(s) = s[1] /\ s[1] \in Nat
           /\ Tail(s) \in Seq(Nat)
           /\ Len(Tail(s)) = Len(s) - 1
           /\ \A i \in 1..(Len(s) - 1) : Tail(s)[i] = s[i + 1]
  OBVIOUS

\* A ring or a queue with one more event in it.
LEMMA AppendOfEvents ==
    ASSUME NEW s \in Seq(Nat), NEW e \in Nat
    PROVE  /\ Append(s, e) \in Seq(Nat)
           /\ Len(Append(s, e)) = Len(s) + 1
           /\ \A i \in 1..Len(s) : Append(s, e)[i] = s[i]
           /\ Append(s, e)[Len(s) + 1] = e
  OBVIOUS

-----------------------------------------------------------------------------
(* Type correctness *)

\* The ring stays within its limit when an event is remembered.
LEMMA RememberType ==
    ASSUME NEW h \in Seq(Nat), Len(h) <= HistoryLimit, NEW e \in Nat
    PROVE  Remember(h, e) \in Seq(Nat) /\ Len(Remember(h, e)) <= HistoryLimit
<1>. USE BusAssumption
<1>1. CASE Len(h) < HistoryLimit
  BY <1>1, AppendOfEvents DEF Remember
<1>2. CASE ~(Len(h) < HistoryLimit)
  <2>1. h # <<>>
    BY <1>2
  <2>2. Tail(h) \in Seq(Nat) /\ Len(Tail(h)) = Len(h) - 1
    BY <2>1, TailOfEvents
  <2>. QED
    BY <1>2, <2>2, AppendOfEvents DEF Remember
<1>. QED
  BY <1>1, <1>2

\* A subscriber's queue stays within its limit when an event is offered.
LEMMA OfferedType ==
    ASSUME NEW q \in Seq(Nat), Len(q) <= QueueLimit, NEW e \in Nat
    PROVE  Offered(q, e) \in Seq(Nat) /\ Len(Offered(q, e)) <= QueueLimit
  BY AppendOfEvents, BusAssumption DEF Offered

\* A new bus starts well typed, whatever ids the tabs bring to it (session.bind,
\* EventBus.__init__).
LEMMA StartTyped == Init => TypeOK
<1>. SUFFICES ASSUME Init PROVE TypeOK
  OBVIOUS
<1>1. lastId \in [Clients -> OldIds \cup {None}] /\ OldIds \subseteq Nat
  BY BusAssumption DEF Init
<1>2. lastId \in [Clients -> Nat \cup {None}]
  BY <1>1
<1>3. <<>> \in Seq(Nat) /\ Len(<<>>) = 0
  OBVIOUS
<1>. QED
  BY <1>2, <1>3, BusAssumption DEF Init, TypeOK, Phases, None

\* Every variable keeps its type: the ring and every queue stay within their
\* limits (EventBus.emit, Subscriber.offer, EventBus.stream).
THEOREM TypeCorrect == Spec => []TypeOK
<1>. USE BusAssumption DEF None
<1>1. Init => TypeOK
  BY StartTyped
<1>2. TypeOK /\ [Next]_vars => TypeOK'
  <2>. SUFFICES ASSUME TypeOK, [Next]_vars PROVE TypeOK'
    OBVIOUS
  <2>1. CASE Emit
    <3>1. seq \in Nat /\ seq' \in 0..MaxEvents
      BY <2>1 DEF Emit, TypeOK
    <3>2. history' \in Seq(Nat) /\ Len(history') <= HistoryLimit
      BY <2>1, <3>1, RememberType DEF Emit, TypeOK
    <3>3. ASSUME NEW c \in Clients
          PROVE  queue'[c] \in Seq(Nat) /\ Len(queue'[c]) <= QueueLimit
      BY <2>1, <3>1, OfferedType DEF Emit, TypeOK
    <3>4. queue' \in [Clients -> Seq(Nat)]
      BY <2>1, <3>3 DEF Emit
    <3>5. dropped' \in [Clients -> SUBSET Nat]
      BY <2>1, <3>1 DEF Emit, TypeOK, Refused
    <3>. QED
      BY <2>1, <3>1, <3>2, <3>3, <3>4, <3>5 DEF Emit, TypeOK, clientVars
  <2>2. ASSUME NEW c \in Clients, Connect(c) PROVE TypeOK'
    <3>1. Cursor(c) \in Nat /\ AtLeast(Cursor(c), 0) \in Nat
      BY DEF Cursor, AtLeast, TypeOK
    <3>. QED
      BY <2>2, <3>1 DEF Connect, TypeOK, Frame, Phases, busVars
  <2>3. ASSUME NEW c \in Clients, TakeReplay(c) PROVE TypeOK'
    <3>1. OldestHeld \in Nat
      BY TailOfEvents DEF OldestHeld, TypeOK
    <3>. QED
      BY <2>3, <3>1 DEF TakeReplay, TypeOK, Phases, busVars, clientVars
  <2>4. ASSUME NEW c \in Clients, ReplaySkips(c) PROVE TypeOK'
    <3>1. Tail(pending[c]) \in Seq(Nat)
      BY <2>4, TailOfEvents DEF ReplaySkips, TypeOK
    <3>. QED
      BY <2>4, <3>1 DEF ReplaySkips, TypeOK, busVars, clientVars
  <2>5. ASSUME NEW c \in Clients, Replay(c) PROVE TypeOK'
    <3>1. Tail(pending[c]) \in Seq(Nat) /\ Head(pending[c]) \in Nat
      BY <2>5, TailOfEvents DEF Replay, TypeOK
    <3>. QED
      BY <2>5, <3>1 DEF Replay, Deliver, Frame, TypeOK, busVars
  <2>6. ASSUME NEW c \in Clients, ReplayDone(c) PROVE TypeOK'
    BY <2>6 DEF ReplayDone, TypeOK, Phases, busVars, clientVars
  <2>7. ASSUME NEW c \in Clients, Live(c) PROVE TypeOK'
    <3>1. /\ Tail(queue[c]) \in Seq(Nat) /\ Len(Tail(queue[c])) <= QueueLimit
          /\ Head(queue[c]) \in Nat
      BY <2>7, TailOfEvents DEF Live, TypeOK
    <3>2. CASE Head(queue[c]) <= replayed[c]
      BY <2>7, <3>1, <3>2 DEF Live, TypeOK, busVars, clientVars
    <3>3. CASE ~(Head(queue[c]) <= replayed[c])
      <4>1. Deliver(c, Head(queue[c]))
        BY <2>7, <3>3 DEF Live
      <4>2. /\ sent' \in [Clients -> SUBSET Nat]
            /\ lastId' \in [Clients -> Nat \cup {None}]
        BY <4>1, <3>1 DEF Deliver, Frame, TypeOK
      <4>. QED
        BY <2>7, <3>1, <4>2 DEF Live, TypeOK, busVars
    <3>. QED
      BY <3>2, <3>3
  <2>8. ASSUME NEW c \in Clients, TimerFires(c) PROVE TypeOK'
    BY <2>8 DEF TimerFires, TypeOK, Phases, busVars, clientVars
  <2>9. ASSUME NEW c \in Clients, Heartbeat(c) PROVE TypeOK'
    <3>1. AtLeast(seq - 1, 0) \in Nat
      BY DEF AtLeast, TypeOK
    <3>. QED
      BY <2>9, <3>1 DEF Heartbeat, Frame, TypeOK, Phases, busVars
  <2>10. ASSUME NEW c \in Clients, Disconnect(c) PROVE TypeOK'
    BY <2>10 DEF Disconnect, TypeOK, Phases, busVars, clientVars
  <2>11. CASE UNCHANGED vars
    BY <2>11 DEF vars, busVars, streamVars, clientVars, TypeOK
  <2>. QED
    BY <2>1, <2>2, <2>3, <2>4, <2>5, <2>6, <2>7, <2>8, <2>9, <2>10, <2>11
       DEF Next, StreamStep
<1>. QED
  BY <1>1, <1>2, PTL DEF Spec

-----------------------------------------------------------------------------
(* The ring *)

\* What HistoryIsSuffix says of a ring h when the next seq is n.
Suffix(h, n) ==
    /\ Len(h) = (IF n < HistoryLimit THEN n ELSE HistoryLimit)
    /\ \A i \in 1..Len(h) : h[i] = n - Len(h) + i - 1

\* Remembering an event keeps the ring the last events emitted.
LEMMA RememberKeepsSuffix ==
    ASSUME NEW h \in Seq(Nat), NEW n \in Nat, Suffix(h, n)
    PROVE  Suffix(Remember(h, n), n + 1)
<1>. USE BusAssumption
<1>. DEFINE k == Remember(h, n)
<1>1. CASE Len(h) < HistoryLimit
  <2>1. k = Append(h, n) /\ Len(h) = n
    BY <1>1 DEF Remember, Suffix
  <2>2. Len(k) = n + 1 /\ k[n + 1] = n /\ \A i \in 1..n : k[i] = h[i]
    BY <2>1, AppendOfEvents
  <2>3. \A i \in 1..n : h[i] = i - 1
    BY <2>1 DEF Suffix
  <2>4. \A i \in 1..(n + 1) : k[i] = i - 1
    BY <2>2, <2>3, SMTT(40)
  <2>5. n + 1 <= HistoryLimit
    BY <1>1, <2>1
  <2>. HIDE DEF k
  <2>6. Len(k) = (IF n + 1 < HistoryLimit THEN n + 1 ELSE HistoryLimit)
    BY <2>2, <2>5
  <2>7. \A i \in 1..Len(k) : k[i] = (n + 1) - Len(k) + i - 1
    BY <2>2, <2>4
  <2>. QED
    BY <2>6, <2>7 DEF Suffix, k
<1>2. CASE ~(Len(h) < HistoryLimit)
  <2>1. /\ k = Append(Tail(h), n) /\ Len(h) = HistoryLimit
        /\ h # <<>> /\ HistoryLimit <= n
    BY <1>2 DEF Remember, Suffix
  <2>2. /\ Tail(h) \in Seq(Nat) /\ Len(Tail(h)) = HistoryLimit - 1
        /\ \A i \in 1..(HistoryLimit - 1) : Tail(h)[i] = h[i + 1]
    BY <2>1, TailOfEvents
  <2>3. /\ Len(k) = HistoryLimit /\ k[HistoryLimit] = n
        /\ \A i \in 1..(HistoryLimit - 1) : k[i] = h[i + 1]
    BY <2>1, <2>2, AppendOfEvents
  <2>4. \A i \in 1..HistoryLimit : h[i] = n - HistoryLimit + i - 1
    BY <2>1 DEF Suffix
  <2>. HIDE DEF k
  <2>5. ASSUME NEW i \in 1..HistoryLimit
        PROVE  k[i] = (n + 1) - HistoryLimit + i - 1
    <3>1. CASE i = HistoryLimit
      BY <2>3, <3>1
    <3>2. CASE i # HistoryLimit
      <4>1. i \in 1..(HistoryLimit - 1) /\ i + 1 \in 1..HistoryLimit
        BY <3>2
      <4>2. k[i] = h[i + 1] /\ h[i + 1] = n - HistoryLimit + (i + 1) - 1
        BY <2>3, <2>4, <4>1
      <4>. QED
        BY <4>2
    <3>. QED
      BY <3>1, <3>2
  <2>6. Len(k) = (IF n + 1 < HistoryLimit THEN n + 1 ELSE HistoryLimit)
    BY <2>1, <2>3
  <2>7. \A i \in 1..Len(k) : k[i] = (n + 1) - Len(k) + i - 1
    BY <2>3, <2>5
  <2>. QED
    BY <2>6, <2>7 DEF Suffix, k
<1>. QED
  BY <1>1, <1>2

\* The whole ring is a stretch of consecutive events, the last one just emitted.
LEMMA RingIsConsecutive ==
    ASSUME NEW h \in Seq(Nat), NEW n \in Nat, Suffix(h, n)
    PROVE  /\ Len(h) \in Nat /\ Len(h) <= n
           /\ Consecutive(h, n)
           /\ h # <<>> => h[1] = n - Len(h)
           /\ \A e \in Nat : n - Len(h) <= e /\ e < n => \E i \in 1..Len(h) : h[i] = e
<1>. USE BusAssumption
<1>1. /\ Len(h) \in Nat /\ Len(h) <= n
      /\ \A i \in 1..Len(h) : h[i] = n - Len(h) + i - 1
  BY DEF Suffix
<1>2. Consecutive(h, n)
  BY <1>1 DEF Consecutive
<1>3. h # <<>> => h[1] = n - Len(h)
  <2>1. h # <<>> => 1 \in 1..Len(h)
    BY <1>1
  <2>. QED
    BY <2>1, <1>1
<1>4. ASSUME NEW e \in Nat, n - Len(h) <= e, e < n
      PROVE  \E i \in 1..Len(h) : h[i] = e
  <2>. DEFINE i == e - (n - Len(h)) + 1
  <2>1. i \in 1..Len(h) /\ n - Len(h) + i - 1 = e
    BY <1>1, <1>4
  <2>. HIDE DEF i
  <2>2. h[i] = n - Len(h) + i - 1
    BY <1>1, <2>1
  <2>. QED
    BY <2>1, <2>2
<1>. QED
  BY <1>1, <1>2, <1>3, <1>4

-----------------------------------------------------------------------------
(* What becomes of a replay and of a queue, step by step *)

\* A new event is appended to a queue that has room for it.
LEMMA OfferKeepsQueued ==
    ASSUME NEW q \in Seq(Nat), NEW r \in Int, NEW s \in SUBSET Nat, NEW n \in Nat,
           Queued(q, r, s, n)
    PROVE  Queued(Append(q, n), r, s, n + 1)
<1>. DEFINE k == Append(q, n)
<1>1. /\ Len(k) = Len(q) + 1 /\ k[Len(q) + 1] = n /\ Len(q) \in Nat
      /\ \A i \in 1..Len(q) : k[i] = q[i] /\ q[i] \in Nat
  BY AppendOfEvents
<1>. HIDE DEF k
<1>2. ASSUME NEW i \in 1..Len(k) PROVE k[i] <= n /\ (i \in 1..Len(q) => k[i] < n)
  BY <1>1 DEF Queued
<1>3. ASSUME NEW i \in 1..Len(k), NEW j \in 1..Len(k), i < j PROVE k[i] < k[j]
  <2>1. i \in 1..Len(q)
    BY <1>1, <1>3
  <2>2. CASE j \in 1..Len(q)
    BY <1>1, <1>3, <2>1, <2>2 DEF Queued
  <2>3. CASE j = Len(q) + 1
    BY <1>1, <1>2, <2>1, <2>3
  <2>. QED
    BY <1>1, <2>2, <2>3
<1>4. ASSUME NEW d \in s PROVE d < n + 1 /\ (d <= r \/ \A i \in 1..Len(k) : d < k[i])
  <2>1. d < n /\ d \in Nat /\ (d <= r \/ \A i \in 1..Len(q) : d < q[i])
    BY DEF Queued
  <2>. QED
    BY <1>1, <2>1
<1>5. \A i \in 1..Len(k) : k[i] < n + 1
  <2>. TAKE i \in 1..Len(k)
  <2>1. k[i] <= n /\ k[i] \in Nat
    BY <1>1, <1>2
  <2>. QED
    BY <2>1
<1>. QED
  BY <1>3, <1>4, <1>5 DEF Queued, k

\* An event is refused, or there is no subscriber.
LEMMA EmitKeepsQueued ==
    ASSUME NEW q \in Seq(Nat), NEW r \in Int, NEW s \in SUBSET Nat, NEW n \in Nat,
           Queued(q, r, s, n)
    PROVE  Queued(q, r, s, n + 1)
<1>1. \A i \in 1..Len(q) : q[i] \in Nat
  OBVIOUS
<1>. QED
  BY <1>1 DEF Queued

\* The head of the queue is taken, and nothing is written.
LEMMA TakeKeepsQueued ==
    ASSUME NEW q \in Seq(Nat), q # <<>>, NEW r \in Int, NEW s \in SUBSET Nat,
           NEW n \in Nat, Queued(q, r, s, n)
    PROVE  Queued(Tail(q), r, s, n)
<1>. DEFINE t == Tail(q)
<1>1. /\ Len(q) \in Nat \ {0} /\ Len(t) = Len(q) - 1
      /\ \A i \in 1..(Len(q) - 1) : t[i] = q[i + 1]
  BY TailOfEvents
<1>. HIDE DEF t
<1>2. \A i \in 1..Len(t) : i + 1 \in 1..Len(q) /\ t[i] = q[i + 1] /\ i \in Int
  BY <1>1
<1>3. \A i, j \in 1..Len(t) : i < j => i + 1 < j + 1
  BY <1>2
<1>. QED
  BY <1>2, <1>3 DEF Queued, t

\* The head of the queue is taken and written.
LEMMA LiveKeepsQueued ==
    ASSUME NEW q \in Seq(Nat), q # <<>>, NEW r \in Int, NEW s \in SUBSET Nat,
           NEW n \in Nat, Queued(q, r, s, n)
    PROVE  Queued(Tail(q), r, s \cup {Head(q)}, n)
<1>. DEFINE t == Tail(q)
<1>1. /\ Len(q) \in Nat \ {0} /\ Len(t) = Len(q) - 1 /\ Head(q) = q[1]
      /\ \A i \in 1..(Len(q) - 1) : t[i] = q[i + 1]
  BY TailOfEvents
<1>2. Queued(t, r, s, n)
  BY TakeKeepsQueued
<1>. HIDE DEF t
<1>3. Head(q) < n
  BY <1>1 DEF Queued
<1>4. ASSUME NEW i \in 1..Len(t) PROVE Head(q) < t[i]
  <2>1. i + 1 \in 1..Len(q) /\ 1 \in 1..Len(q) /\ 1 < i + 1 /\ t[i] = q[i + 1]
    BY <1>1
  <2>. QED
    BY <1>1, <2>1 DEF Queued
<1>. QED
  BY <1>2, <1>3, <1>4 DEF Queued, t

\* The tail of a stretch of events is the stretch that starts one later.
LEMMA TailIsConsecutive ==
    ASSUME NEW p \in Seq(Nat), p # <<>>, NEW n \in Nat, Consecutive(p, n)
    PROVE  /\ Consecutive(Tail(p), n)
           /\ Tail(p) # <<>> => Tail(p)[1] = p[1] + 1
<1>. DEFINE t == Tail(p)
<1>1. /\ Len(p) \in Nat \ {0} /\ Len(t) = Len(p) - 1 /\ t \in Seq(Nat)
      /\ \A i \in 1..(Len(p) - 1) : t[i] = p[i + 1]
      /\ (t # <<>> => Len(t) # 0)
  BY TailOfEvents
<1>. HIDE DEF t
<1>2. \A i \in 1..Len(t) : i + 1 \in 1..Len(p) /\ t[i] = p[i + 1] /\ i \in Int
  BY <1>1
<1>3. ASSUME NEW i \in 1..Len(t), NEW j \in 1..Len(t) PROVE t[j] = t[i] + (j - i)
  <2>1. p[j + 1] = p[i + 1] + ((j + 1) - (i + 1))
    BY <1>2 DEF Consecutive
  <2>. QED
    BY <1>2, <2>1
<1>4. Consecutive(t, n)
  BY <1>2, <1>3 DEF Consecutive
<1>5. ASSUME t # <<>> PROVE t[1] = p[1] + 1
  <2>1. 1 \in 1..Len(t) /\ 1 \in 1..Len(p) /\ 2 \in 1..Len(p)
    BY <1>1, <1>5
  <2>2. t[1] = p[2] /\ p[2] = p[1] + (2 - 1)
    BY <1>1, <2>1 DEF Consecutive
  <2>. QED
    BY <2>2
<1>. QED
  BY <1>4, <1>5 DEF t

\* The head of the replay is passed over: it was not owed.
LEMMA SkipKeepsReplaying ==
    ASSUME NEW o \in Nat, NEW p \in Seq(Nat), p # <<>>, NEW r \in Int,
           NEW s \in SUBSET Nat, NEW n \in Nat, Consecutive(p, n),
           Replaying(o, p, r, s), Head(p) < o
    PROVE  Replaying(o, Tail(p), r, s)
<1>1. /\ Head(p) = p[1] /\ p[1] \in Nat
      /\ Tail(p) # <<>> => Tail(p)[1] = p[1] + 1
  BY TailOfEvents, TailIsConsecutive
<1>2. \A d \in s : d \in Nat /\ d < p[1]
  BY DEF Replaying
<1>. QED
  BY <1>1, <1>2 DEF Replaying

\* The head of the replay is written.
LEMMA WriteKeepsReplaying ==
    ASSUME NEW o \in Nat, NEW p \in Seq(Nat), p # <<>>, NEW r \in Int,
           NEW s \in SUBSET Nat, NEW n \in Nat, Consecutive(p, n),
           Replaying(o, p, r, s)
    PROVE  Replaying(o, Tail(p), Head(p), s \cup {Head(p)})
<1>1. /\ Head(p) = p[1] /\ p[1] \in Nat
      /\ Tail(p) # <<>> => Tail(p)[1] = p[1] + 1
  BY TailOfEvents, TailIsConsecutive
<1>2. \A d \in s : d \in Nat /\ d < p[1]
  BY DEF Replaying
<1>3. \A e \in Nat : o <= e /\ e <= p[1] => e \in s \cup {p[1]}
  BY <1>1 DEF Replaying
<1>. QED
  BY <1>1, <1>2, <1>3 DEF Replaying

\* What the replay wrote is below everything it has left, so the queue test
\* `seq <= replayed` covers it.
LEMMA WriteKeepsQueued ==
    ASSUME NEW q \in Seq(Nat), NEW o \in Nat, NEW p \in Seq(Nat), p # <<>>,
           NEW r \in Int, NEW s \in SUBSET Nat, NEW n \in Nat,
           Consecutive(p, n), Replaying(o, p, r, s), Queued(q, r, s, n)
    PROVE  /\ Queued(q, Head(p), s \cup {Head(p)}, n)
           /\ \A d \in s \cup {Head(p)} : d <= Head(p)
<1>1. Head(p) = p[1] /\ p[1] \in Nat /\ 1 \in 1..Len(p)
  BY TailOfEvents
<1>2. p[1] < n
  BY <1>1 DEF Consecutive
<1>3. \A d \in s : d \in Nat /\ d < p[1]
  BY DEF Replaying
<1>4. \A d \in s \cup {p[1]} : d <= p[1] /\ d < n
  BY <1>1, <1>2, <1>3
<1>. QED
  BY <1>1, <1>4 DEF Queued

\* Nothing leaves the account when a head is taken that was written or not owed:
\* first of the replay, then of the queue.
LEMMA TakeFromReplayKeepsCovered ==
    ASSUME NEW o \in Nat, NEW n \in Nat, NEW s, NEW x, NEW q \in Seq(Nat),
           NEW p \in Seq(Nat), p # <<>>, Covered(o, n, s, x, q, p),
           NEW s1, s \subseteq s1, Head(p) < o \/ Head(p) \in s1
    PROVE  Covered(o, n, s1, x, q, Tail(p))
<1>1. /\ Len(p) \in Nat \ {0} /\ Head(p) = p[1] /\ Len(Tail(p)) = Len(p) - 1
      /\ \A i \in 1..(Len(p) - 1) : Tail(p)[i] = p[i + 1]
  BY TailOfEvents
<1>2. ASSUME NEW e \in Nat, o <= e, NEW i \in 1..Len(p), p[i] = e
      PROVE  e \in s1 \/ \E j \in 1..Len(Tail(p)) : Tail(p)[j] = e
  <2>1. CASE i = 1
    BY <1>1, <1>2, <2>1
  <2>2. CASE i # 1
    <3>1. i - 1 \in 1..(Len(p) - 1) /\ (i - 1) + 1 = i
      BY <1>1, <2>2
    <3>2. Tail(p)[i - 1] = e
      BY <1>1, <1>2, <3>1
    <3>. QED
      BY <1>1, <3>1, <3>2
  <2>. QED
    BY <2>1, <2>2
<1>. QED
  BY <1>2 DEF Covered

LEMMA TakeFromQueueKeepsCovered ==
    ASSUME NEW o \in Nat, NEW n \in Nat, NEW s, NEW x, NEW q \in Seq(Nat),
           NEW p \in Seq(Nat), q # <<>>, Covered(o, n, s, x, q, p),
           NEW s1, s \subseteq s1, Head(q) < o \/ Head(q) \in s1
    PROVE  Covered(o, n, s1, x, Tail(q), p)
<1>1. /\ Len(q) \in Nat \ {0} /\ Head(q) = q[1] /\ Len(Tail(q)) = Len(q) - 1
      /\ \A i \in 1..(Len(q) - 1) : Tail(q)[i] = q[i + 1]
  BY TailOfEvents
<1>2. ASSUME NEW e \in Nat, o <= e, NEW i \in 1..Len(q), q[i] = e
      PROVE  e \in s1 \/ \E j \in 1..Len(Tail(q)) : Tail(q)[j] = e
  <2>1. CASE i = 1
    BY <1>1, <1>2, <2>1
  <2>2. CASE i # 1
    <3>1. i - 1 \in 1..(Len(q) - 1) /\ (i - 1) + 1 = i
      BY <1>1, <2>2
    <3>2. Tail(q)[i - 1] = e
      BY <1>1, <1>2, <3>1
    <3>. QED
      BY <1>1, <3>1, <3>2
  <2>. QED
    BY <2>1, <2>2
<1>. QED
  BY <1>2 DEF Covered

\* A new event enters the account through the queue, or as refused.
LEMMA EmitKeepsCovered ==
    ASSUME NEW o \in Nat, NEW n \in Nat, NEW s, NEW x, NEW q \in Seq(Nat),
           NEW p \in Seq(Nat), Covered(o, n, s, x, q, p)
    PROVE  /\ Covered(o, n + 1, s, x, Append(q, n), p)
           /\ Covered(o, n + 1, s, x \cup {n}, q, p)
<1>. DEFINE k == Append(q, n)
<1>1. /\ Len(k) = Len(q) + 1 /\ k[Len(q) + 1] = n /\ Len(q) \in Nat
      /\ \A i \in 1..Len(q) : k[i] = q[i]
  BY AppendOfEvents
<1>. HIDE DEF k
<1>2. \A e \in Nat : e < n + 1 => e < n \/ e = n
  OBVIOUS
<1>3. Len(k) \in 1..Len(k) /\ k[Len(k)] = n /\ \A i \in 1..Len(q) : i \in 1..Len(k)
  BY <1>1
<1>4. Covered(o, n + 1, s, x, k, p)
  BY <1>1, <1>2, <1>3 DEF Covered
<1>5. Covered(o, n + 1, s, x \cup {n}, q, p)
  BY <1>2 DEF Covered
<1>. QED
  BY <1>4, <1>5 DEF k

-----------------------------------------------------------------------------
(* One client's stream, action by action *)

\* The types a stream's fields have.
LEMMA FieldTypes ==
    ASSUME TypeOK, NEW c \in Clients
    PROVE  /\ seq \in Nat /\ Owed(c) \in Nat
           /\ replay_from[c] \in Nat /\ oldest[c] \in Nat
           /\ pending[c] \in Seq(Nat) /\ queue[c] \in Seq(Nat)
           /\ replayed[c] \in Int /\ sent[c] \in SUBSET Nat
           /\ history \in Seq(Nat)
  BY BusAssumption DEF TypeOK, Owed, AtLeast, None

\* A step of another client, or of nobody, leaves a stream as it was.
LEMMA OthersKeepStream ==
    ASSUME NEW c \in Clients, Stream(c), seq' = seq,
           phase'[c] = phase[c], replay_from'[c] = replay_from[c],
           pending'[c] = pending[c], replayed'[c] = replayed[c],
           queue'[c] = queue[c], dropped'[c] = dropped[c],
           sent'[c] = sent[c], oldest'[c] = oldest[c]
    PROVE  Stream(c)'
  BY DEF Stream, AtPhase, Owed, AtLeast

\* EventBus.emit: the new event is queued or refused at every subscriber.
LEMMA EmitKeepsStream ==
    ASSUME TypeOK, NEW c \in Clients, Stream(c), Emit
    PROVE  Stream(c)'
<1>1. /\ seq' = seq + 1 /\ phase'[c] = phase[c] /\ replay_from'[c] = replay_from[c]
      /\ pending'[c] = pending[c] /\ replayed'[c] = replayed[c]
      /\ sent'[c] = sent[c] /\ oldest'[c] = oldest[c]
  BY DEF Emit
<1>2. Owed(c)' = Owed(c)
  BY <1>1 DEF Owed, AtLeast
<1>3. Consecutive(pending[c], seq + 1)
  <2>1. \A i \in 1..Len(pending[c]) : pending[c][i] \in Nat
    BY FieldTypes
  <2>2. /\ \A i, j \in 1..Len(pending[c]) : pending[c][j] = pending[c][i] + (j - i)
        /\ \A i \in 1..Len(pending[c]) : pending[c][i] < seq
    BY DEF Stream, Consecutive
  <2>3. seq \in Nat
    BY FieldTypes
  <2>4. \A i \in 1..Len(pending[c]) : pending[c][i] < seq + 1
    BY <2>1, <2>2, <2>3
  <2>. QED
    BY <2>2, <2>4 DEF Consecutive
<1>4. CASE phase[c] = "closed"
  <2>1. queue'[c] = queue[c] /\ dropped'[c] = dropped[c]
    BY <1>4 DEF Emit, Subscribed
  <2>2. Queued(queue[c], replayed[c], sent[c], seq + 1)
    BY FieldTypes, EmitKeepsQueued DEF Stream
  <2>. QED
    BY <1>1, <1>2, <1>3, <1>4, <2>1, <2>2 DEF Stream, AtPhase
<1>5. CASE phase[c] # "closed" /\ Len(queue[c]) < QueueLimit
  <2>1. queue'[c] = Append(queue[c], seq) /\ dropped'[c] = dropped[c]
    BY <1>5 DEF Emit, Subscribed, Offered, Refused
  <2>2. Queued(Append(queue[c], seq), replayed[c], sent[c], seq + 1)
    BY FieldTypes, OfferKeepsQueued DEF Stream
  <2>3. phase[c] \in {"replaying", "live", "timedout"} =>
          Covered(Owed(c), seq + 1, sent[c], dropped[c],
                  Append(queue[c], seq), pending[c])
    BY FieldTypes, EmitKeepsCovered DEF Stream
  <2>. QED
    BY <1>1, <1>2, <1>3, <1>5, <2>1, <2>2, <2>3 DEF Stream, AtPhase
<1>6. CASE phase[c] # "closed" /\ ~(Len(queue[c]) < QueueLimit)
  <2>1. queue'[c] = queue[c] /\ dropped'[c] = dropped[c] \cup {seq}
    BY <1>6 DEF Emit, Subscribed, Offered, Refused
  <2>2. Queued(queue[c], replayed[c], sent[c], seq + 1)
    BY FieldTypes, EmitKeepsQueued DEF Stream
  <2>3. phase[c] \in {"replaying", "live", "timedout"} =>
          Covered(Owed(c), seq + 1, sent[c], dropped[c] \cup {seq},
                  queue[c], pending[c])
    BY FieldTypes, EmitKeepsCovered DEF Stream
  <2>. QED
    BY <1>1, <1>2, <1>3, <1>6, <2>1, <2>2, <2>3 DEF Stream, AtPhase
<1>. QED
  BY <1>4, <1>5, <1>6

\* EventBus.stream: the generator subscribes and writes the opener.
LEMMA ConnectKeepsStream ==
    ASSUME TypeOK, TypeOK', NEW c \in Clients, Stream(c), Connect(c)
    PROVE  Stream(c)'
<1>1. /\ seq' = seq /\ phase[c] = "closed" /\ phase'[c] = "opened"
      /\ pending'[c] = pending[c] /\ replayed'[c] = replayed[c]
      /\ queue'[c] = queue[c] /\ dropped'[c] = dropped[c]
      /\ sent'[c] = sent[c] /\ oldest'[c] = oldest[c]
  BY DEF Connect, TypeOK, busVars
<1>2. pending[c] = <<>> /\ sent[c] = {} /\ replayed[c] = -1
  BY <1>1 DEF Stream, AtPhase, None
<1>3. Owed(c)' \in Nat
  BY DEF TypeOK, Owed, AtLeast
<1>4. Replaying(Owed(c)', <<>>, -1, {})
  BY <1>3 DEF Replaying
<1>. QED
  BY <1>1, <1>2, <1>4 DEF Stream, AtPhase, None

\* EventBus.stream: the replay starts from the whole ring.
LEMMA TakeReplayKeepsStream ==
    ASSUME TypeOK, TypeOK', HistoryIsSuffix, NEW c \in Clients, Stream(c),
           TakeReplay(c)
    PROVE  Stream(c)'
<1>1. /\ seq' = seq /\ phase[c] = "opened" /\ phase'[c] = "replaying"
      /\ pending'[c] = history /\ oldest'[c] = OldestHeld
      /\ replayed'[c] = replayed[c] /\ queue'[c] = queue[c]
      /\ dropped'[c] = dropped[c] /\ sent'[c] = sent[c]
  BY DEF TakeReplay, TypeOK, busVars
<1>2. sent[c] = {} /\ replayed[c] = -1
  BY <1>1 DEF Stream, AtPhase, None
<1>3. Suffix(history, seq)
  BY DEF HistoryIsSuffix, Suffix
<1>4. /\ Len(history) \in Nat /\ Len(history) <= seq /\ Consecutive(history, seq)
      /\ history # <<>> => history[1] = seq - Len(history)
      /\ \A e \in Nat : seq - Len(history) <= e /\ e < seq =>
             \E i \in 1..Len(history) : history[i] = e
  BY <1>3, FieldTypes, RingIsConsecutive
<1>5. OldestHeld = seq - Len(history)
  BY <1>4, FieldTypes DEF OldestHeld
<1>6. Owed(c)' \in Nat /\ seq - Len(history) <= Owed(c)'
  <2>1. replay_from'[c] \in Nat /\ oldest'[c] \in Nat
    BY DEF TypeOK
  <2>2. oldest'[c] = seq - Len(history)
    BY <1>1, <1>5
  <2>. QED
    BY <2>1, <2>2 DEF Owed, AtLeast
<1>7. Replaying(Owed(c)', history, -1, {})
  <2>1. ASSUME NEW e \in Nat, Owed(c)' <= e, e <= -1 PROVE FALSE
    BY <2>1
  <2>2. ASSUME history # <<>>, NEW e \in Nat, Owed(c)' <= e, e < history[1]
        PROVE  FALSE
    BY <1>4, <1>6, <2>2, FieldTypes
  <2>. QED
    BY <2>1, <2>2 DEF Replaying
<1>8. Covered(Owed(c)', seq, {}, dropped[c], queue[c], history)
  <2>1. \A e \in Nat : Owed(c)' <= e => seq - Len(history) <= e
    BY <1>4, <1>6, FieldTypes
  <2>. QED
    BY <1>4, <2>1 DEF Covered
<1>. QED
  BY <1>1, <1>2, <1>4, <1>7, <1>8 DEF Stream, AtPhase, None

\* EventBus.stream: an event below the cursor is not part of the replay.
LEMMA ReplaySkipsKeepsStream ==
    ASSUME TypeOK, NEW c \in Clients, Stream(c), ReplaySkips(c)
    PROVE  Stream(c)'
<1>. DEFINE p == pending[c]
<1>1. /\ seq' = seq /\ phase[c] = "replaying" /\ phase'[c] = phase[c]
      /\ pending'[c] = Tail(p) /\ oldest'[c] = oldest[c]
      /\ replay_from'[c] = replay_from[c] /\ replayed'[c] = replayed[c]
      /\ queue'[c] = queue[c] /\ dropped'[c] = dropped[c] /\ sent'[c] = sent[c]
      /\ p # <<>> /\ Head(p) < replay_from[c]
  BY DEF ReplaySkips, TypeOK, busVars
<1>2. Owed(c)' = Owed(c)
  BY <1>1 DEF Owed, AtLeast
<1>3. Head(p) < Owed(c)
  <2>1. Head(p) \in Nat
    BY <1>1, FieldTypes, TailOfEvents
  <2>. QED
    BY <1>1, <2>1, FieldTypes DEF Owed, AtLeast
<1>4. Consecutive(Tail(p), seq)
  BY <1>1, FieldTypes, TailIsConsecutive DEF Stream
<1>5. Replaying(Owed(c), Tail(p), replayed[c], sent[c])
  BY <1>1, <1>3, FieldTypes, SkipKeepsReplaying DEF Stream
<1>6. Covered(Owed(c), seq, sent[c], dropped[c], queue[c], Tail(p))
  <2>1. Covered(Owed(c), seq, sent[c], dropped[c], queue[c], p)
    BY <1>1 DEF Stream
  <2>. QED
    BY <1>1, <1>3, <2>1, FieldTypes, TakeFromReplayKeepsCovered
<1>. QED
  BY <1>1, <1>2, <1>4, <1>5, <1>6 DEF Stream, AtPhase

\* EventBus.stream: an event of the replay is written.
LEMMA ReplayKeepsStream ==
    ASSUME TypeOK, NEW c \in Clients, Stream(c), Replay(c)
    PROVE  Stream(c)'
<1>. DEFINE p == pending[c]
<1>1. /\ seq' = seq /\ phase[c] = "replaying" /\ phase'[c] = phase[c]
      /\ pending'[c] = Tail(p) /\ oldest'[c] = oldest[c]
      /\ replay_from'[c] = replay_from[c] /\ replayed'[c] = Head(p)
      /\ queue'[c] = queue[c] /\ dropped'[c] = dropped[c]
      /\ sent'[c] = sent[c] \cup {Head(p)} /\ p # <<>>
  BY DEF Replay, Deliver, TypeOK, busVars
<1>2. Owed(c)' = Owed(c)
  BY <1>1 DEF Owed, AtLeast
<1>3. Consecutive(Tail(p), seq)
  BY <1>1, FieldTypes, TailIsConsecutive DEF Stream
<1>4. Replaying(Owed(c), Tail(p), Head(p), sent[c] \cup {Head(p)})
  BY <1>1, FieldTypes, WriteKeepsReplaying DEF Stream
<1>5. /\ Queued(queue[c], Head(p), sent[c] \cup {Head(p)}, seq)
      /\ \A d \in sent[c] \cup {Head(p)} : d <= Head(p)
  BY <1>1, FieldTypes, WriteKeepsQueued DEF Stream
<1>6. Covered(Owed(c), seq, sent[c] \cup {Head(p)}, dropped[c], queue[c], Tail(p))
  <2>1. Covered(Owed(c), seq, sent[c], dropped[c], queue[c], p)
    BY <1>1 DEF Stream
  <2>. QED
    BY <1>1, <2>1, FieldTypes, TakeFromReplayKeepsCovered
<1>. QED
  BY <1>1, <1>2, <1>3, <1>4, <1>5, <1>6 DEF Stream, AtPhase

\* EventBus.stream: the live loop takes an event.  One the replay passed is not
\* written again: it was owed and at or below `replayed`, so it is in `sent`, or
\* it was not owed.
LEMMA LiveKeepsStream ==
    ASSUME TypeOK, NEW c \in Clients, Stream(c), Live(c)
    PROVE  Stream(c)'
<1>. DEFINE q == queue[c]
<1>1. /\ seq' = seq /\ phase[c] = "live" /\ phase'[c] = phase[c]
      /\ pending'[c] = pending[c] /\ oldest'[c] = oldest[c]
      /\ replay_from'[c] = replay_from[c] /\ replayed'[c] = replayed[c]
      /\ queue'[c] = Tail(q) /\ dropped'[c] = dropped[c] /\ q # <<>>
  BY DEF Live, TypeOK, busVars
<1>2. Owed(c)' = Owed(c)
  BY <1>1 DEF Owed, AtLeast
<1>3. pending[c] = <<>> /\ Head(q) \in Nat
  BY <1>1, FieldTypes, TailOfEvents DEF Stream, AtPhase
<1>4. Covered(Owed(c), seq, sent[c], dropped[c], q, pending[c])
  BY <1>1 DEF Stream
<1>5. CASE Head(q) <= replayed[c]
  <2>1. sent'[c] = sent[c]
    BY <1>5 DEF Live
  <2>2. Queued(Tail(q), replayed[c], sent[c], seq)
    BY <1>1, FieldTypes, TakeKeepsQueued DEF Stream
  <2>3. Head(q) < Owed(c) \/ Head(q) \in sent[c]
    BY <1>3, <1>5, FieldTypes DEF Stream, Replaying
  <2>4. Covered(Owed(c), seq, sent[c], dropped[c], Tail(q), pending[c])
    BY <1>1, <1>4, <2>3, FieldTypes, TakeFromQueueKeepsCovered
  <2>. QED
    BY <1>1, <1>2, <2>1, <2>2, <2>4 DEF Stream, AtPhase
<1>6. CASE ~(Head(q) <= replayed[c])
  <2>1. sent'[c] = sent[c] \cup {Head(q)}
    BY <1>6 DEF Live, Deliver, TypeOK
  <2>2. Queued(Tail(q), replayed[c], sent[c] \cup {Head(q)}, seq)
    BY <1>1, FieldTypes, LiveKeepsQueued DEF Stream
  <2>3. Covered(Owed(c), seq, sent[c] \cup {Head(q)}, dropped[c], Tail(q), pending[c])
    BY <1>1, <1>4, FieldTypes, TakeFromQueueKeepsCovered
  <2>4. Replaying(Owed(c), pending[c], replayed[c], sent[c] \cup {Head(q)})
    BY <1>3 DEF Stream, Replaying
  <2>. QED
    BY <1>1, <1>2, <2>1, <2>2, <2>3, <2>4 DEF Stream, AtPhase
<1>. QED
  BY <1>5, <1>6

\* EventBus.stream: the steps that only move the generator.
LEMMA QuietStepsKeepStream ==
    ASSUME TypeOK, NEW c \in Clients, Stream(c),
           ReplayDone(c) \/ TimerFires(c) \/ Heartbeat(c)
    PROVE  Stream(c)'
<1>1. /\ seq' = seq /\ oldest'[c] = oldest[c] /\ pending'[c] = pending[c]
      /\ replay_from'[c] = replay_from[c] /\ replayed'[c] = replayed[c]
      /\ queue'[c] = queue[c] /\ dropped'[c] = dropped[c] /\ sent'[c] = sent[c]
      /\ phase[c] \in {"replaying", "live", "timedout"}
      /\ phase'[c] \in {"live", "timedout"}
      /\ phase[c] = "replaying" => pending[c] = <<>>
  BY DEF ReplayDone, TimerFires, Heartbeat, TypeOK, busVars
<1>2. Owed(c)' = Owed(c)
  BY <1>1 DEF Owed, AtLeast
<1>. QED
  BY <1>1, <1>2 DEF Stream, AtPhase

\* EventBus.stream: the generator is closed and its locals go with it.
LEMMA DisconnectKeepsStream ==
    ASSUME TypeOK, NEW c \in Clients, Disconnect(c)
    PROVE  Stream(c)'
<1>1. /\ seq' = seq /\ phase'[c] = "closed" /\ pending'[c] = <<>>
      /\ replayed'[c] = -1 /\ queue'[c] = <<>> /\ dropped'[c] = {}
      /\ sent'[c] = {} /\ replay_from'[c] = 0 /\ oldest'[c] = 0
  BY DEF Disconnect, TypeOK, busVars, None
<1>2. Owed(c)' = 0
  BY <1>1 DEF Owed, AtLeast
<1>3. Replaying(0, <<>>, -1, {}) /\ Consecutive(<<>>, seq) /\ Queued(<<>>, -1, {}, seq)
  BY DEF Replaying, Consecutive, Queued
<1>. QED
  BY <1>1, <1>2, <1>3 DEF Stream, AtPhase, None

-----------------------------------------------------------------------------
(* The theorems *)

\* The inductive invariant holds: no step of emit, of a client's generator or of
\* a disconnection loses track of an event.
THEOREM DeliveryHolds == Spec => []Delivery
<1>1. Init => Delivery
  <2>. SUFFICES ASSUME Init PROVE Delivery
    OBVIOUS
  <2>1. TypeOK
    BY StartTyped
  <2>2. HistoryIsSuffix
    BY BusAssumption DEF Init, HistoryIsSuffix
  <2>3. ASSUME NEW c \in Clients PROVE Stream(c)
    <3>1. /\ seq = 0 /\ phase[c] = "closed" /\ pending[c] = <<>> /\ replayed[c] = -1
          /\ queue[c] = <<>> /\ dropped[c] = {} /\ sent[c] = {}
          /\ replay_from[c] = 0 /\ oldest[c] = 0
      BY DEF Init, None
    <3>2. Owed(c) = 0
      BY <3>1 DEF Owed, AtLeast
    <3>3. Replaying(0, <<>>, -1, {}) /\ Consecutive(<<>>, 0) /\ Queued(<<>>, -1, {}, 0)
      BY DEF Replaying, Consecutive, Queued
    <3>. QED
      BY <3>1, <3>2, <3>3 DEF Stream, AtPhase, None
  <2>. QED
    BY <2>1, <2>2, <2>3 DEF Delivery
<1>2. TypeOK /\ TypeOK' /\ Delivery /\ [Next]_vars => Delivery'
  <2>. SUFFICES ASSUME TypeOK, TypeOK', HistoryIsSuffix,
                       \A c \in Clients : Stream(c), [Next]_vars
                PROVE  Delivery'
    BY DEF Delivery
  <2>1. CASE Emit
    <3>1. HistoryIsSuffix'
      <4>1. /\ seq' = seq + 1 /\ history' = Remember(history, seq)
            /\ seq \in Nat /\ history \in Seq(Nat)
        BY <2>1, BusAssumption DEF Emit, TypeOK
      <4>2. Suffix(history, seq)
        BY DEF HistoryIsSuffix, Suffix
      <4>3. Suffix(history', seq')
        BY <4>1, <4>2, RememberKeepsSuffix
      <4>. QED
        BY <4>3 DEF HistoryIsSuffix, Suffix
    <3>. QED
      BY <2>1, <3>1, EmitKeepsStream DEF Delivery
  <2>2. ASSUME NEW c \in Clients, Connect(c) \/ StreamStep(c) \/ Disconnect(c)
        PROVE  Delivery'
    <3>1. seq' = seq /\ history' = history
      BY <2>2 DEF Connect, StreamStep, TakeReplay, ReplaySkips, Replay, ReplayDone,
                  Live, TimerFires, Heartbeat, Disconnect, busVars
    <3>2. HistoryIsSuffix'
      BY <3>1 DEF HistoryIsSuffix
    <3>3. Stream(c)'
      BY <2>2, ConnectKeepsStream, TakeReplayKeepsStream, ReplaySkipsKeepsStream,
         ReplayKeepsStream, LiveKeepsStream, QuietStepsKeepStream,
         DisconnectKeepsStream DEF StreamStep
    <3>4. ASSUME NEW d \in Clients, d # c PROVE Stream(d)'
      <4>. DEFINE Same == /\ phase'[d] = phase[d] /\ replay_from'[d] = replay_from[d]
                          /\ pending'[d] = pending[d] /\ replayed'[d] = replayed[d]
                          /\ queue'[d] = queue[d] /\ dropped'[d] = dropped[d]
                          /\ oldest'[d] = oldest[d] /\ sent'[d] = sent[d]
      <4>1. Connect(c) => Same
        BY <3>4 DEF TypeOK, Connect
      <4>2. TakeReplay(c) => Same
        BY <3>4 DEF TypeOK, TakeReplay
      <4>3. ReplaySkips(c) => Same
        BY <3>4 DEF TypeOK, ReplaySkips
      <4>4. Replay(c) => Same
        BY <3>4 DEF TypeOK, Replay, Deliver
      <4>5. ReplayDone(c) \/ TimerFires(c) \/ Heartbeat(c) => Same
        BY <3>4 DEF TypeOK, ReplayDone, TimerFires, Heartbeat
      <4>6. Live(c) => Same
        BY <3>4 DEF TypeOK, Live, Deliver
      <4>7. Disconnect(c) => Same
        BY <3>4 DEF TypeOK, Disconnect
      <4>8. Same
        BY <2>2, <4>1, <4>2, <4>3, <4>4, <4>5, <4>6, <4>7 DEF StreamStep
      <4>. QED
        BY <3>1, <4>8, OthersKeepStream
    <3>. QED
      BY <3>2, <3>3, <3>4 DEF Delivery
  <2>3. CASE UNCHANGED vars
    <3>1. \A c \in Clients : Stream(c)'
      BY <2>3, OthersKeepStream DEF vars, busVars, streamVars
    <3>. QED
      BY <2>3, <3>1 DEF Delivery, HistoryIsSuffix, vars, busVars
  <2>. QED
    BY <2>1, <2>2, <2>3 DEF Next
<1>. QED
  BY <1>1, <1>2, TypeCorrect, PTL DEF Spec

\* The ring is the last events emitted, in order and without a hole, so a seq is a
\* position to resume from (EventBus._publish, the deque's maxlen).
THEOREM RingIsSuffix == Spec => []HistoryIsSuffix
<1>1. Delivery => HistoryIsSuffix
  BY DEF Delivery
<1>. QED
  BY <1>1, DeliveryHolds, PTL

\* The only holes in a connection are events the full queue refused or the ring
\* had dropped before the replay was taken (EventBus.stream, Subscriber.offer).
THEOREM HolesAreKnown == Spec => []HolesAreCounted
<1>1. Delivery => HolesAreCounted
  <2>. SUFFICES ASSUME TypeOK, NEW c \in Clients, Stream(c), Subscribed(c),
                       NEW d \in sent[c], NEW e \in replay_from[c]..d,
                       e \notin sent[c] \cup dropped[c], ~(e < oldest[c])
                PROVE  FALSE
    BY DEF Delivery, HolesAreCounted
  <2>1. d \in Nat /\ e \in Nat /\ e <= d /\ Owed(c) <= e
    BY FieldTypes DEF Owed, AtLeast
  <2>2. d < seq /\ e < seq
    BY <2>1, FieldTypes DEF Stream, Queued
  <2>3. phase[c] \in {"replaying", "live", "timedout"}
    BY DEF Stream, AtPhase, TypeOK, Phases
  <2>4. \/ \E i \in 1..Len(queue[c]) : queue[c][i] = e
        \/ \E i \in 1..Len(pending[c]) : pending[c][i] = e
    BY <2>1, <2>2, <2>3 DEF Stream, Covered
  <2>5. CASE \E i \in 1..Len(queue[c]) : queue[c][i] = e
    <3>1. PICK i \in 1..Len(queue[c]) : queue[c][i] = e
      BY <2>5
    <3>2. d <= replayed[c]
      BY <2>1, <3>1 DEF Stream, Queued
    <3>3. e <= replayed[c]
      BY <2>1, <3>2, FieldTypes
    <3>. QED
      BY <2>1, <3>3 DEF Stream, Replaying
  <2>6. CASE \E i \in 1..Len(pending[c]) : pending[c][i] = e
    <3>1. PICK i \in 1..Len(pending[c]) : pending[c][i] = e
      BY <2>6
    <3>2. pending[c] # <<>> /\ 1 \in 1..Len(pending[c]) /\ pending[c][1] \in Nat
      BY <3>1, FieldTypes, SMTT(40)
    <3>3. e = pending[c][1] + (i - 1)
      BY <3>1, <3>2 DEF Stream, Consecutive
    <3>4. d < pending[c][1]
      BY <3>2 DEF Stream, Replaying
    <3>. QED
      BY <2>1, <3>2, <3>3, <3>4
  <2>. QED
    BY <2>4, <2>5, <2>6
<1>. QED
  BY <1>1, DeliveryHolds, PTL

\* An event a live connection owes and has not written is in its queue or was
\* refused: nothing disappears between the replay and the live loop.
THEOREM InFlightIsSafe == Spec => []NothingInFlightIsLost
<1>1. Delivery => NothingInFlightIsLost
  <2>. SUFFICES ASSUME TypeOK, NEW c \in Clients, Stream(c),
                       phase[c] \in {"live", "timedout"},
                       NEW e \in Owed(c)..(seq - 1)
                PROVE  e \in sent[c] \cup dropped[c] \cup Elements(queue[c])
    BY DEF Delivery, NothingInFlightIsLost, Owed
  <2>1. e \in Nat /\ Owed(c) <= e /\ e < seq
    BY FieldTypes
  <2>2. pending[c] = <<>>
    BY DEF Stream, AtPhase
  <2>3. \/ e \in sent[c] \/ e \in dropped[c]
        \/ \E i \in 1..Len(queue[c]) : queue[c][i] = e
    BY <2>1, <2>2 DEF Stream, Covered
  <2>4. 1..Len(queue[c]) = DOMAIN queue[c]
    BY FieldTypes
  <2>. QED
    BY <2>3, <2>4 DEF Elements
<1>. QED
  BY <1>1, DeliveryHolds, PTL

\* A connection never writes an event twice or out of order, whatever is emitted
\* while the replay runs (EventBus.stream's `seq <= replayed`).
THEOREM NeverGoesBack == Spec => InOrderOnce
<1>1. Delivery /\ [Next]_vars =>
        \A c \in Clients : \A e \in sent'[c] \ sent[c] : \A d \in sent[c] : d < e
  <2>. SUFFICES ASSUME TypeOK, NEW c \in Clients, Stream(c), [Next]_vars,
                       NEW e \in sent'[c] \ sent[c], NEW d \in sent[c]
                PROVE  d < e
    BY DEF Delivery
  <2>1. CASE Replay(c)
    <3>1. pending[c] # <<>> /\ e = Head(pending[c])
      BY <2>1 DEF Replay, Deliver, TypeOK
    <3>2. e = pending[c][1]
      BY <3>1, FieldTypes, TailOfEvents
    <3>. QED
      BY <3>1, <3>2 DEF Stream, Replaying
  <2>2. CASE Live(c)
    <3>1. /\ queue[c] # <<>> /\ e = Head(queue[c]) /\ ~(Head(queue[c]) <= replayed[c])
      BY <2>2 DEF Live, Deliver, TypeOK
    <3>2. e = queue[c][1] /\ e \in Nat /\ 1 \in 1..Len(queue[c]) /\ d \in Nat
      BY <3>1, FieldTypes, TailOfEvents
    <3>3. d <= replayed[c] \/ d < e
      BY <3>2 DEF Stream, Queued
    <3>. QED
      BY <3>1, <3>2, <3>3, FieldTypes
  <2>3. ASSUME NEW b \in Clients, Replay(b) \/ Live(b), b # c PROVE FALSE
    BY <2>3 DEF Replay, Live, Deliver, TypeOK
  <2>4. ASSUME NEW b \in Clients, Disconnect(b) PROVE FALSE
    BY <2>4 DEF Disconnect, TypeOK
  <2>5. ASSUME sent' = sent PROVE FALSE
    BY <2>5
  <2>6. CASE UNCHANGED vars
    BY <2>5, <2>6 DEF vars, streamVars
  <2>7. CASE Emit
    BY <2>5, <2>7 DEF Emit
  <2>8. ASSUME NEW b \in Clients,
               Connect(b) \/ TakeReplay(b) \/ ReplaySkips(b) \/ ReplayDone(b)
               \/ TimerFires(b) \/ Heartbeat(b)
        PROVE  FALSE
    BY <2>5, <2>8 DEF Connect, TakeReplay, ReplaySkips, ReplayDone, TimerFires, Heartbeat
  <2>. QED
    BY <2>1, <2>2, <2>3, <2>4, <2>6, <2>7, <2>8 DEF Next, StreamStep
<1>. QED
  BY <1>1, DeliveryHolds, PTL DEF Spec, InOrderOnce

=============================================================================
