----------------------------- MODULE SSEProofs ------------------------------
(***************************************************************************)
(* Proofs about the delivery of events to browsers: the broadcaster of one *)
(* process (SSEBroadcaster), and the fan-out between processes (RedisFanout). *)
(***************************************************************************)
EXTENDS SSEBroadcaster, RedisFanout, FiniteSetTheorems, TLAPS
-----------------------------------------------------------------------------

(***************************************************************************)
(* SSEBroadcaster: for any sets of streams and tenants and any bounds, the *)
(* sweep of close_all() reaches every open stream, a stream yields its     *)
(* tenant's notifications in order and without a gap, the close marker     *)
(* overtakes nothing, and the gauge and the closed counters are exact.     *)
(***************************************************************************)

\* A request that has not subscribed has an empty queue and no history.
FreshUntilSubscribed ==
    \A s \in Streams : pc[s] \in {"none", "auth"} =>
        queue[s] = << >> /\ received[s] = << >> /\ sweptAt[s] = NotYet

\* Position i of the stream's queue holds its first close marker.
FirstClose(s, i) ==
    queue[s][i] = CLOSE /\ \A j \in 1..(i-1) : queue[s][j] # CLOSE

\* The first close marker in an open stream's queue stands right behind the
\* last notification made before the sweep that put it there.
SweepPointOf(s) ==
    /\ sweptAt[s] # NotYet <=> CloseQueued(s)
    /\ \A i \in 1..Len(queue[s]) :
         FirstClose(s, i) => joined[s] + Len(received[s]) + i = sweptAt[s] + 1

SweepPoint ==
    \A s \in Streams :
        pc[s] \in {"sending", "waiting", "abandoned"} => SweepPointOf(s)

IInv ==
    /\ TypeOK
    /\ RegisteredWhileOpen
    /\ FreshUntilSubscribed
    /\ DrainReachesEveryStream
    /\ InOrderNoGap
    /\ SweepPoint
    /\ CloseOvertakesNothing

-----------------------------------------------------------------------------
\* Every step of the broadcaster keeps the types of its state.
LEMMA TypeStep == TypeOK /\ [Next]_vars => TypeOK'
<1> SUFFICES ASSUME TypeOK, [Next]_vars PROVE TypeOK'
  OBVIOUS
<1> USE DEF TypeOK, PCs, Phases, Reasons, Message, NotYet
<1>1. ASSUME NEW s \in Streams, Request(s) PROVE TypeOK'
  BY <1>1 DEF Request, brVars, srvVars, histVars
<1>2. ASSUME NEW s \in Streams, SubscribeRefused(s) PROVE TypeOK'
  BY SMTT(30), <1>2 DEF SubscribeRefused, srvVars, histVars
<1>3. ASSUME NEW s \in Streams, Subscribe(s) PROVE TypeOK'
  BY SMTT(30), <1>3 DEF Subscribe, srvVars
<1>4. ASSUME NEW s \in Streams, Sent(s) PROVE TypeOK'
  BY <1>4 DEF Sent, brVars, srvVars, histVars
<1>5. ASSUME NEW s \in Streams, Dequeue(s) PROVE TypeOK'
  <2>1. Head(queue[s]) \in Message /\ Tail(queue[s]) \in Seq(Message \cup {CLOSE})
    BY <1>5 DEF Dequeue
  <2>2. received' \in [Streams -> Seq(Message)]
    <3> HIDE DEF Message
    <3> QED BY <1>5, <2>1 DEF Dequeue
  <2>3. queue' \in [Streams -> Seq(Message \cup {CLOSE})]
    <3> HIDE DEF Message
    <3> QED BY <1>5, <2>1 DEF Dequeue
  <2> QED BY <1>5, <2>2, <2>3 DEF Dequeue, srvVars
<1>6. ASSUME NEW s \in Streams, Keepalive(s) PROVE TypeOK'
  BY <1>6 DEF Keepalive, brVars, srvVars, histVars
<1>7. ASSUME NEW s \in Streams, DequeueClose(s) PROVE TypeOK'
  <2>1. Tail(queue[s]) \in Seq(Message \cup {CLOSE})
    BY <1>7 DEF DequeueClose
  <2> QED BY SMTT(30), <1>7, <2>1 DEF DequeueClose, Unregister, srvVars, histVars
<1>8. ASSUME NEW s \in Streams, CancelWaiting(s) PROVE TypeOK'
  BY SMTT(30), <1>8 DEF CancelWaiting, Unregister, srvVars, histVars
<1>9. ASSUME NEW s \in Streams, CancelSending(s) PROVE TypeOK'
  BY <1>9 DEF CancelSending, brVars, srvVars, histVars
<1>10. ASSUME NEW s \in Streams, Finalise(s) PROVE TypeOK'
  BY SMTT(30), <1>10 DEF Finalise, Unregister, srvVars, histVars
<1>11. ASSUME NEW t \in Tenants, Notify(t) PROVE TypeOK'
  <2>1. <<t, notified[t] + 1>> \in Message
    OBVIOUS
  <2>2. queue' \in [Streams -> Seq(Message \cup {CLOSE})]
    BY <1>11, <2>1 DEF Notify
  <2> QED BY SMTT(30), <1>11, <2>2 DEF Notify, reqVars, srvVars
<1>12. CASE Signal
  BY <1>12 DEF Signal, brVars, reqVars, histVars
<1>13. CASE CloseAll
  <2>1. queue' \in [Streams -> Seq(Message \cup {CLOSE})]
    BY <1>13 DEF CloseAll
  <2> QED BY <1>13, <2>1 DEF CloseAll, reqVars
<1>14. CASE StartDrain
  BY <1>14 DEF StartDrain, brVars, reqVars, histVars
<1>15. CASE LifespanShutdown
  BY <1>15 DEF LifespanShutdown, brVars, reqVars, histVars
<1>16. CASE Startup
  <2>1. draining' \in BOOLEAN
    BY <1>16, Zenon DEF Startup
  <2> QED BY <1>16, <2>1 DEF Startup, reqVars, histVars
<1>17. CASE UNCHANGED vars
  BY <1>17 DEF vars
<1> HIDE DEF TypeOK, PCs, Phases, Reasons, Message, NotYet
<1> QED
  BY <1>1, <1>2, <1>3, <1>4, <1>5, <1>6, <1>7, <1>8, <1>9, <1>10, <1>11,
     <1>12, <1>13, <1>14, <1>15, <1>16, <1>17 DEF Next, Progress, Client

\* A process starts with no stream, an open broadcaster and typed counters.
LEMMA TypeInit == Init => TypeOK
<1> SUFFICES ASSUME Init PROVE TypeOK
  OBVIOUS
<1>1. /\ queue \in [Streams -> Seq(Message \cup {CLOSE})]
      /\ received \in [Streams -> Seq(Message)]
  BY DEF Init
<1>2. draining \in BOOLEAN
  BY Zenon DEF Init
<1> QED BY <1>1, <1>2 DEF Init, TypeOK, PCs, Phases, Reasons, NotYet

\* The broadcaster's state is well typed in every reachable state of subscribe,
\* notify, close_all and reopen.
THEOREM TypeCorrect == Spec => []TypeOK
BY TypeInit, TypeStep, PTL DEF Spec

-----------------------------------------------------------------------------
\* subscribe() registers a queue and its finally block removes it.
LEMMA RegisteredStep ==
    TypeOK /\ RegisteredWhileOpen /\ [Next]_vars => RegisteredWhileOpen'
<1> SUFFICES ASSUME TypeOK, RegisteredWhileOpen, [Next]_vars
             PROVE  RegisteredWhileOpen'
  OBVIOUS
<1> USE DEF TypeOK, RegisteredWhileOpen, PCs
<1>1. ASSUME NEW s \in Streams, Progress(s) PROVE RegisteredWhileOpen'
  <2>1. CASE SubscribeRefused(s)
    BY <2>1 DEF SubscribeRefused
  <2>2. CASE Subscribe(s)
    BY <2>2 DEF Subscribe
  <2>3. CASE Sent(s)
    BY <2>3 DEF Sent, brVars
  <2>4. CASE Dequeue(s)
    BY SMTT(30), <2>4 DEF Dequeue
  <2>5. CASE DequeueClose(s)
    BY SMTT(30), <2>5 DEF DequeueClose, Unregister
  <2>6. CASE Finalise(s)
    BY <2>6 DEF Finalise, Unregister
  <2> QED BY <1>1, <2>1, <2>2, <2>3, <2>4, <2>5, <2>6 DEF Progress
<1>2. ASSUME NEW s \in Streams, Client(s) PROVE RegisteredWhileOpen'
  <2>1. CASE Request(s)
    BY <2>1 DEF Request, brVars
  <2>2. CASE Keepalive(s)
    BY <2>2 DEF Keepalive, brVars
  <2>3. CASE CancelWaiting(s)
    BY <2>3 DEF CancelWaiting, Unregister
  <2>4. CASE CancelSending(s)
    BY <2>4 DEF CancelSending, brVars
  <2> QED BY <1>2, <2>1, <2>2, <2>3, <2>4 DEF Client
<1>3. ASSUME NEW t \in Tenants, Notify(t) PROVE RegisteredWhileOpen'
  BY <1>3 DEF Notify, reqVars
<1>4. CASE Signal \/ CloseAll \/ StartDrain \/ LifespanShutdown \/ Startup
  BY <1>4 DEF Signal, CloseAll, StartDrain, LifespanShutdown, Startup, brVars, reqVars
<1>5. CASE UNCHANGED vars
  BY <1>5 DEF vars
<1> QED BY <1>1, <1>2, <1>3, <1>4, <1>5 DEF Next

\* Nothing is queued for, or yielded by, a request that has not subscribed.
LEMMA FreshStep ==
    TypeOK /\ RegisteredWhileOpen /\ FreshUntilSubscribed /\ [Next]_vars
        => FreshUntilSubscribed'
<1> SUFFICES ASSUME TypeOK, RegisteredWhileOpen, FreshUntilSubscribed, [Next]_vars,
                    NEW r \in Streams, pc'[r] \in {"none", "auth"}
             PROVE  queue'[r] = << >> /\ received'[r] = << >> /\ sweptAt'[r] = NotYet
  BY DEF FreshUntilSubscribed
<1> USE DEF TypeOK, FreshUntilSubscribed, PCs
<1> DEFINE Goal == queue'[r] = << >> /\ received'[r] = << >> /\ sweptAt'[r] = NotYet
<1>1. ASSUME NEW s \in Streams, Progress(s) PROVE Goal
  BY <1>1 DEF Progress, SubscribeRefused, Subscribe, Sent, Dequeue, DequeueClose,
              Finalise, Unregister, brVars, histVars
<1>2. ASSUME NEW s \in Streams, Client(s) PROVE Goal
  BY <1>2 DEF Client, Request, Keepalive, CancelWaiting, CancelSending,
              Unregister, brVars, histVars
<1>3. ASSUME NEW t \in Tenants, Notify(t) PROVE Goal
  BY <1>3 DEF Notify, reqVars, RegisteredWhileOpen
<1>4. CASE CloseAll
  <2>1. ~Registered(r)
    BY <1>4 DEF CloseAll, reqVars, RegisteredWhileOpen, Registered
  <2> QED BY <1>4, <2>1 DEF CloseAll, reqVars
<1>5. CASE Signal \/ StartDrain \/ LifespanShutdown \/ Startup
  BY <1>5 DEF Signal, StartDrain, LifespanShutdown, Startup, brVars, reqVars, histVars
<1>6. CASE UNCHANGED vars
  BY <1>6 DEF vars
<1> QED BY <1>1, <1>2, <1>3, <1>4, <1>5, <1>6 DEF Next

\* A close marker stays in a queue until the stream that takes it ends.
LEMMA DrainStep ==
    TypeOK /\ RegisteredWhileOpen /\ DrainReachesEveryStream /\ [Next]_vars
        => DrainReachesEveryStream'
<1> SUFFICES ASSUME TypeOK, RegisteredWhileOpen, DrainReachesEveryStream, [Next]_vars,
                    draining', NEW r \in Streams, pc'[r] \in {"sending", "waiting"}
             PROVE  CloseQueued(r)'
  BY DEF DrainReachesEveryStream
<1> USE DEF TypeOK, DrainReachesEveryStream, PCs, CloseQueued
<1>1. ASSUME NEW s \in Streams, Progress(s) PROVE CloseQueued(r)'
  <2>1. CASE Dequeue(s)
    <3>1. CASE r = s
      <4>1. CloseQueued(s) /\ queue'[s] = Tail(queue[s]) /\ Head(queue[s]) # CLOSE
        BY <2>1 DEF Dequeue
      <4>2. PICK i \in 1..Len(queue[s]) : queue[s][i] = CLOSE
        BY <4>1
      <4>3. i # 1 /\ i - 1 \in 1..Len(Tail(queue[s])) /\ Tail(queue[s])[i - 1] = CLOSE
        BY SMTT(30), <4>1, <4>2
      <4> QED BY <3>1, <4>1, <4>3
    <3>2. CASE r # s
      BY <2>1, <3>2 DEF Dequeue
    <3> QED BY <3>1, <3>2
  <2>2. CASE DequeueClose(s)
    BY <2>2 DEF DequeueClose, Unregister
  <2>3. CASE SubscribeRefused(s) \/ Subscribe(s) \/ Sent(s) \/ Finalise(s)
    BY <2>3 DEF SubscribeRefused, Subscribe, Sent, Finalise, Unregister, brVars
  <2> QED BY <1>1, <2>1, <2>2, <2>3 DEF Progress
<1>2. ASSUME NEW s \in Streams, Client(s) PROVE CloseQueued(r)'
  BY <1>2 DEF Client, Request, Keepalive, CancelWaiting, CancelSending,
              Unregister, brVars
<1>3. ASSUME NEW t \in Tenants, Notify(t) PROVE CloseQueued(r)'
  <2>1. CloseQueued(r)
    BY <1>3 DEF Notify, reqVars
  <2>2. PICK i \in 1..Len(queue[r]) : queue[r][i] = CLOSE
    BY <2>1
  <2>3. i \in 1..Len(queue'[r]) /\ queue'[r][i] = CLOSE
    BY <1>3, <2>2 DEF Notify
  <2> QED BY <2>3
<1>4. CASE CloseAll
  <2>1. Registered(r)
    BY <1>4 DEF CloseAll, reqVars, RegisteredWhileOpen, Registered
  <2>2. queue'[r] = Append(queue[r], CLOSE)
    BY <1>4, <2>1 DEF CloseAll
  <2>3. /\ Len(queue[r]) + 1 \in 1..Len(queue'[r])
        /\ queue'[r][Len(queue[r]) + 1] = CLOSE
    BY <2>2
  <2> QED BY <2>3
<1>5. CASE Signal \/ StartDrain \/ LifespanShutdown
  BY <1>5 DEF Signal, StartDrain, LifespanShutdown, brVars, reqVars
<1>6. CASE Startup
  BY <1>6 DEF Startup
<1>7. CASE UNCHANGED vars
  BY <1>7 DEF vars
<1> QED BY <1>1, <1>2, <1>3, <1>4, <1>5, <1>6, <1>7 DEF Next

\* Moving one notification from the queue to the history keeps its number.
LEMMA Shift ==
    ASSUME NEW a \in Int, NEW b \in Int, NEW c \in Int
    PROVE  /\ a + b + (c + 1) = a + (b + 1) + c
           /\ a + b + (c + 1) = a + b + c + 1
           /\ a + (b + 1) + (c - 1) = a + b + c
OBVIOUS

\* Only what is named here matters to a stream's NoGap.
LEMMA SameNoGap ==
    ASSUME NEW r \in Streams, NoGap(r),
           received'[r] = received[r], queue'[r] = queue[r],
           tenant'[r] = tenant[r], joined'[r] = joined[r],
           Registered(r)' => Registered(r) /\ notified'[tenant[r]] = notified[tenant[r]]
    PROVE  NoGap(r)'
BY DEF NoGap, CloseQueued

\* A stream's history and queue stay a gapless run of its tenant's
\* notifications in every step.
LEMMA OrderStep ==
    TypeOK /\ RegisteredWhileOpen /\ FreshUntilSubscribed /\ InOrderNoGap
        /\ [Next]_vars => InOrderNoGap'
<1> SUFFICES ASSUME TypeOK, RegisteredWhileOpen, FreshUntilSubscribed, InOrderNoGap,
                    [Next]_vars, NEW r \in Streams
             PROVE  NoGap(r)'
  BY DEF InOrderNoGap
<1>0. NoGap(r) /\ tenant[r] \in Tenants /\ queue[r] \in Seq(Message \cup {CLOSE})
       /\ received[r] \in Seq(Message) /\ joined[r] \in Nat /\ notified \in [Tenants -> Nat]
  BY DEF InOrderNoGap, TypeOK
<1>n. /\ Len(queue[r]) \in Nat /\ Len(received[r]) \in Nat
      /\ joined[r] \in Nat /\ notified[tenant[r]] \in Nat
  BY <1>0
<1>1. ASSUME NEW s \in Streams, Subscribe(s) PROVE NoGap(r)'
  <2>1. CASE r = s
    <3>1. queue'[r] = << >> /\ received'[r] = << >> /\ tenant'[r] = tenant[r]
          /\ joined'[r] = notified[tenant[r]] /\ notified' = notified
      BY <1>1, <2>1 DEF Subscribe, FreshUntilSubscribed, TypeOK
    <3> QED BY <3>1, <1>0 DEF NoGap, CloseQueued
  <2>2. CASE r # s
    <3>1. Registered(r)' => Registered(r)
      BY <1>1, <2>2 DEF Subscribe, Registered, TypeOK
    <3> QED BY <1>0, <1>1, <2>2, <3>1, SameNoGap DEF Subscribe, TypeOK
  <2> QED BY <2>1, <2>2
<1>2. ASSUME NEW s \in Streams, Dequeue(s) PROVE NoGap(r)'
  <2>1. Registered(r)' <=> Registered(r)
    BY <1>2 DEF Dequeue, Registered
  <2>2. CASE r = s
    <3>1. /\ queue[r] # << >> /\ Head(queue[r]) # CLOSE
          /\ queue'[r] = Tail(queue[r])
          /\ received'[r] = Append(received[r], Head(queue[r]))
          /\ UNCHANGED <<tenant, joined, notified>>
      BY <1>2, <2>2 DEF Dequeue, TypeOK
    <3>2. Registered(r)
      BY <1>2, <2>2, <1>0 DEF Dequeue, Registered, RegisteredWhileOpen
    <3>3. queue[r][1] = <<tenant[r], joined[r] + Len(received[r]) + 1>>
      BY SMTT(30), <1>0, <3>1, <3>2 DEF NoGap
    <3>a. Head(queue[r]) \in Message /\ Head(queue[r]) = queue[r][1]
      BY <1>0, <3>1
    <3>5. /\ Len(queue'[r]) = Len(queue[r]) - 1
          /\ \A i \in 1..Len(queue'[r]) : queue'[r][i] = queue[r][i + 1]
      BY <1>0, <3>1
    <3>b. /\ Len(received'[r]) = Len(received[r]) + 1
          /\ received'[r][Len(received[r]) + 1] = queue[r][1]
          /\ \A i \in 1..Len(received[r]) : received'[r][i] = received[r][i]
      BY <1>0, <3>1, <3>a
    <3>4. ASSUME NEW i \in 1..Len(received'[r])
          PROVE  received'[r][i] = <<tenant[r], joined[r] + i>>
      <4>1. CASE i \in 1..Len(received[r])
        BY <1>0, <3>b, <4>1 DEF NoGap
      <4>2. CASE i = Len(received[r]) + 1
        <5>1. joined[r] + i = joined[r] + Len(received[r]) + 1
          BY <1>n, <4>2
        <5> QED BY <3>b, <3>3, <4>2, <5>1
      <4> QED BY <1>n, <3>b, <4>1, <4>2
    <3>6. ASSUME NEW i \in 1..Len(queue'[r]), \A j \in 1..i : queue'[r][j] # CLOSE
          PROVE  queue'[r][i] = <<tenant[r], joined[r] + Len(received'[r]) + i>>
      <4>1. i + 1 \in 1..Len(queue[r])
        BY <1>0, <3>5
      <4>2. ASSUME NEW j \in 1..(i + 1) PROVE queue[r][j] # CLOSE
        <5>1. CASE j = 1
          BY <1>0, <3>1, <5>1
        <5>2. CASE j # 1
          <6>1. j - 1 \in 1..i /\ j - 1 \in 1..Len(queue'[r])
            BY <5>2
          <6>2. queue'[r][j - 1] = queue[r][j]
            BY <1>n, <3>5, <6>1
          <6> QED BY <3>6, <6>1, <6>2
        <5> QED BY <5>1, <5>2
      <4>3. queue[r][i + 1] = <<tenant[r], joined[r] + Len(received[r]) + (i + 1)>>
        BY <1>0, <3>2, <4>1, <4>2 DEF NoGap
      <4>4. joined[r] + Len(received[r]) + (i + 1) = joined[r] + Len(received'[r]) + i
        <5>1. i \in Int /\ joined[r] \in Int /\ Len(received[r]) \in Int
          BY <1>n
        <5>2. joined[r] + Len(received[r]) + (i + 1) = joined[r] + (Len(received[r]) + 1) + i
          BY <5>1, Shift
        <5> QED BY <3>b, <5>2
      <4> QED BY <3>5, <4>3, <4>4
    <3>7. CloseQueued(r) => CloseQueued(r)'
      <4> SUFFICES ASSUME CloseQueued(r) PROVE CloseQueued(r)'
        OBVIOUS
      <4>1. PICK i \in 1..Len(queue[r]) : queue[r][i] = CLOSE
        BY DEF CloseQueued
      <4>2. i - 1 \in 1..Len(queue'[r]) /\ queue'[r][i - 1] = CLOSE
        BY <1>0, <3>1, <3>5, <4>1
      <4> QED BY <4>2 DEF CloseQueued
    <3>8. ~CloseQueued(r)' =>
            joined[r] + Len(received'[r]) + Len(queue'[r]) = notified[tenant[r]]
      <4> SUFFICES ASSUME ~CloseQueued(r)'
                   PROVE  joined[r] + Len(received'[r]) + Len(queue'[r]) = notified[tenant[r]]
        OBVIOUS
      <4>1. joined[r] + Len(received[r]) + Len(queue[r]) = notified[tenant[r]]
        BY <1>0, <3>2, <3>7 DEF NoGap
      <4>2. joined[r] \in Int /\ Len(received[r]) \in Int /\ Len(queue[r]) \in Int
        BY <1>n
      <4>3. joined[r] + (Len(received[r]) + 1) + (Len(queue[r]) - 1) = notified[tenant[r]]
        BY <4>1, <4>2, Shift
      <4> QED BY <3>5, <3>b, <4>3
    <3> QED BY <3>1, <3>4, <3>6, <3>8 DEF NoGap
  <2>3. CASE r # s
    BY <1>0, <1>2, <2>1, <2>3, SameNoGap DEF Dequeue, TypeOK
  <2> QED BY <2>2, <2>3
<1>3. ASSUME NEW s \in Streams,
             \/ SubscribeRefused(s) \/ Sent(s) \/ Client(s)
             \/ DequeueClose(s) \/ Finalise(s)
      PROVE  NoGap(r)'
  <2>1. CASE SubscribeRefused(s) \/ Sent(s) \/ Request(s) \/ Keepalive(s) \/ CancelSending(s)
    <3>1. UNCHANGED <<received, queue, tenant, joined, notified, connections>>
      BY <2>1 DEF SubscribeRefused, Sent, Request, Keepalive, CancelSending, brVars, histVars
    <3>2. Registered(r)' => Registered(r)
      BY <3>1 DEF Registered
    <3> QED BY <1>0, <3>1, <3>2, SameNoGap
  <2>2. CASE CancelWaiting(s) \/ Finalise(s)
    <3>1. UNCHANGED <<received, queue, tenant, joined, notified>>
      BY <2>2 DEF CancelWaiting, Finalise, histVars
    <3>2. \A t \in Tenants : connections'[t] \subseteq connections[t]
      <4>1. connections' = [connections EXCEPT ![tenant[s]] = @ \ {s}]
        BY <2>2 DEF CancelWaiting, Finalise, Unregister
      <4> QED BY <4>1 DEF TypeOK
    <3>3. Registered(r)' => Registered(r)
      BY <3>2 DEF Registered
    <3> QED BY <1>0, <3>1, <3>3, SameNoGap
  <2>3. CASE DequeueClose(s)
    <3>1. UNCHANGED <<received, tenant, joined, notified>>
          /\ (r # s => queue'[r] = queue[r])
      BY <2>3 DEF DequeueClose, histVars, TypeOK
    <3>2. Registered(r)' => Registered(r) /\ r # s
      BY <2>3 DEF DequeueClose, Unregister, Registered, RegisteredWhileOpen, TypeOK
    <3>3. CASE r = s
      BY <1>0, <3>1, <3>2, <3>3 DEF NoGap
    <3> QED BY <1>0, <3>1, <3>2, <3>3, SameNoGap
  <2> QED BY <1>3, <2>1, <2>2, <2>3 DEF Client
<1>4. ASSUME NEW t \in Tenants, Notify(t) PROVE NoGap(r)'
  <2>1. UNCHANGED <<received, tenant, joined, connections>>
        /\ notified' = [notified EXCEPT ![t] = @ + 1]
    BY <1>4 DEF Notify, reqVars
  <2>2. CASE r \in connections[t]
    <3>1. tenant[r] = t /\ Registered(r) /\ Registered(r)'
      BY <2>1, <2>2 DEF RegisteredWhileOpen, Registered
    <3>2. queue'[r] = Append(queue[r], <<t, notified[t] + 1>>) /\ notified'[t] = notified[t] + 1
      BY <1>4, <2>1, <2>2, <1>0 DEF Notify
    <3>3. <<t, notified[t] + 1>> \in Message
      BY <1>0, <3>1 DEF Message
    <3>4. /\ Len(queue'[r]) = Len(queue[r]) + 1
          /\ queue'[r][Len(queue[r]) + 1] = <<t, notified[t] + 1>>
          /\ \A i \in 1..Len(queue[r]) : queue'[r][i] = queue[r][i]
      BY <1>0, <3>2, <3>3
    <3>5. CloseQueued(r) => CloseQueued(r)'
      BY SMTT(30), <1>n, <3>4 DEF CloseQueued
    <3>6. ASSUME NEW i \in 1..Len(queue'[r]), \A j \in 1..i : queue'[r][j] # CLOSE
          PROVE  queue'[r][i] = <<tenant[r], joined[r] + Len(received[r]) + i>>
      <4>1. CASE i \in 1..Len(queue[r])
        <5>1. \A j \in 1..i : queue[r][j] # CLOSE
          BY <1>n, <3>4, <3>6, <4>1
        <5> QED BY <1>0, <3>1, <3>4, <4>1, <5>1 DEF NoGap
      <4>2. CASE i = Len(queue[r]) + 1
        <5>1. ASSUME NEW j \in 1..Len(queue[r]) PROVE queue[r][j] # CLOSE
          <6>1. j \in 1..i /\ queue'[r][j] = queue[r][j]
            BY <1>n, <3>4, <4>2
          <6> QED BY <3>6, <6>1
        <5>2. ~CloseQueued(r)
          BY <5>1 DEF CloseQueued
        <5>3. joined[r] + Len(received[r]) + i = notified[t] + 1
          <6>1. joined[r] + Len(received[r]) + Len(queue[r]) = notified[t]
            BY <1>0, <3>1, <5>2 DEF NoGap
          <6>2. joined[r] \in Int /\ Len(received[r]) \in Int /\ Len(queue[r]) \in Int
            BY <1>n
          <6> QED BY SMTT(30), <4>2, <6>1, <6>2, Shift
        <5> QED BY <3>1, <3>4, <4>2, <5>3
      <4> QED BY <1>n, <3>4, <4>1, <4>2
    <3>7. ~CloseQueued(r)' =>
            joined[r] + Len(received[r]) + Len(queue'[r]) = notified'[tenant[r]]
      <4> SUFFICES ASSUME ~CloseQueued(r)'
                   PROVE  joined[r] + Len(received[r]) + Len(queue'[r]) = notified'[tenant[r]]
        OBVIOUS
      <4>1. joined[r] + Len(received[r]) + Len(queue[r]) = notified[tenant[r]]
        BY <1>0, <3>1, <3>5 DEF NoGap
      <4>2. joined[r] \in Int /\ Len(received[r]) \in Int /\ Len(queue[r]) \in Int
        BY <1>n
      <4>3. joined[r] + Len(received[r]) + (Len(queue[r]) + 1) = notified[tenant[r]] + 1
        <5>1. joined[r] + Len(received[r]) + (Len(queue[r]) + 1)
                = joined[r] + Len(received[r]) + Len(queue[r]) + 1
          BY <4>2, Shift
        <5> QED BY <4>1, <5>1
      <4> QED BY <3>1, <3>2, <3>4, <4>3
    <3> QED BY <1>0, <2>1, <3>6, <3>7 DEF NoGap
  <2>3. CASE r \notin connections[t]
    <3>1. Registered(r)' => Registered(r) /\ tenant[r] # t
      BY <2>1, <2>3 DEF RegisteredWhileOpen, Registered
    <3>2. queue'[r] = queue[r]
      BY <1>4, <2>3 DEF Notify
    <3> QED BY <1>0, <2>1, <3>1, <3>2, SameNoGap
  <2> QED BY <2>2, <2>3
<1>5. CASE CloseAll
  <2>1. UNCHANGED <<received, tenant, joined, connections, notified>>
    BY <1>5 DEF CloseAll, reqVars
  <2>2. Registered(r)' <=> Registered(r)
    BY <2>1 DEF Registered
  <2>3. CASE Registered(r)
    <3>1. queue'[r] = Append(queue[r], CLOSE)
      BY <1>5, <2>3 DEF CloseAll
    <3>2. /\ Len(queue'[r]) = Len(queue[r]) + 1
          /\ queue'[r][Len(queue[r]) + 1] = CLOSE
          /\ \A i \in 1..Len(queue[r]) : queue'[r][i] = queue[r][i]
      BY <1>0, <3>1
    <3>3. CloseQueued(r)'
      BY <1>0, <3>2 DEF CloseQueued
    <3>4. ASSUME NEW i \in 1..Len(queue'[r]), \A j \in 1..i : queue'[r][j] # CLOSE
          PROVE  queue'[r][i] = <<tenant[r], joined[r] + Len(received[r]) + i>>
      <4>1. i \in 1..Len(queue[r])
        BY <1>n, <3>2, <3>4
      <4>2. \A j \in 1..i : queue[r][j] # CLOSE
        BY SMTT(30), <1>n, <3>2, <3>4, <4>1
      <4> QED BY <1>0, <2>3, <3>2, <4>1, <4>2 DEF NoGap
    <3> QED BY <1>0, <2>1, <3>3, <3>4 DEF NoGap
  <2>4. CASE ~Registered(r)
    <3>1. queue'[r] = queue[r]
      BY <1>5, <2>4 DEF CloseAll
    <3> QED BY <1>0, <2>1, <2>2, <2>4, <3>1, SameNoGap
  <2> QED BY <2>3, <2>4
<1>6. CASE Signal \/ StartDrain \/ LifespanShutdown \/ Startup \/ UNCHANGED vars
  <2>1. UNCHANGED <<received, queue, tenant, joined, notified, connections>>
    BY <1>6 DEF Signal, StartDrain, LifespanShutdown, Startup, vars, brVars, reqVars, histVars
  <2>2. Registered(r)' => Registered(r)
    BY <2>1 DEF Registered
  <2> QED BY <1>0, <2>1, <2>2, SameNoGap
<1> QED BY <1>1, <1>2, <1>3, <1>4, <1>5, <1>6 DEF Next, Progress

\* Only what is named here matters to a stream's sweep point.
LEMMA SameSweepPoint ==
    ASSUME NEW r \in Streams, SweepPointOf(r),
           received'[r] = received[r], queue'[r] = queue[r],
           joined'[r] = joined[r], sweptAt'[r] = sweptAt[r]
    PROVE  SweepPointOf(r)'
BY DEF SweepPointOf, CloseQueued, FirstClose

\* The first close marker keeps its place behind the notifications made
\* before the sweep, whatever is dequeued, notified or swept again.
LEMMA SweepStep ==
    /\ TypeOK /\ RegisteredWhileOpen /\ FreshUntilSubscribed
    /\ InOrderNoGap /\ SweepPoint /\ [Next]_vars
    => SweepPoint'
<1> SUFFICES ASSUME TypeOK, RegisteredWhileOpen, FreshUntilSubscribed, InOrderNoGap,
                    SweepPoint, [Next]_vars,
                    NEW r \in Streams, pc'[r] \in {"sending", "waiting", "abandoned"}
             PROVE  SweepPointOf(r)'
  BY DEF SweepPoint
<1> DEFINE Open(p) == p \in {"sending", "waiting", "abandoned"}
<1>0. /\ queue[r] \in Seq(Message \cup {CLOSE}) /\ received[r] \in Seq(Message)
      /\ joined[r] \in Nat /\ notified \in [Tenants -> Nat] /\ tenant[r] \in Tenants
      /\ Open(pc[r]) => SweepPointOf(r)
  BY DEF TypeOK, SweepPoint
<1>n. /\ Len(queue[r]) \in Nat /\ Len(received[r]) \in Nat
      /\ joined[r] \in Nat /\ notified[tenant[r]] \in Nat
  BY <1>0
<1>1. ASSUME NEW s \in Streams, Subscribe(s) PROVE SweepPointOf(r)'
  <2>1. CASE r = s
    <3>1. queue'[r] = << >> /\ sweptAt'[r] = NotYet
      BY <1>1, <2>1 DEF Subscribe, FreshUntilSubscribed
    <3> QED BY <3>1 DEF SweepPointOf, CloseQueued
  <2>2. CASE r # s
    <3>1. Open(pc[r]) /\ UNCHANGED <<received, queue, sweptAt>> /\ joined'[r] = joined[r]
      BY <1>1, <2>2 DEF Subscribe, TypeOK
    <3> QED BY <1>0, <3>1, SameSweepPoint
  <2> QED BY <2>1, <2>2
<1>2. ASSUME NEW s \in Streams, Dequeue(s) PROVE SweepPointOf(r)'
  <2>1. CASE r = s
    <3>1. /\ queue[r] # << >> /\ Head(queue[r]) # CLOSE
          /\ queue'[r] = Tail(queue[r])
          /\ received'[r] = Append(received[r], Head(queue[r]))
          /\ UNCHANGED <<joined, sweptAt>> /\ Open(pc[r])
      BY <1>2, <2>1 DEF Dequeue, TypeOK
    <3>2. /\ Len(queue'[r]) = Len(queue[r]) - 1
          /\ \A i \in 1..Len(queue'[r]) : queue'[r][i] = queue[r][i + 1]
      BY <1>0, <3>1
    <3>3. Head(queue[r]) \in Message /\ queue[r][1] # CLOSE
      BY <1>0, <3>1
    <3>4. Len(received'[r]) = Len(received[r]) + 1
      BY <1>0, <3>1, <3>3
    <3>5. CloseQueued(r)' <=> CloseQueued(r)
      <4>1. ASSUME NEW i \in 1..Len(queue[r]), queue[r][i] = CLOSE
            PROVE  i - 1 \in 1..Len(queue'[r]) /\ queue'[r][i - 1] = CLOSE
        <5>1. i # 1 /\ i - 1 \in 1..Len(queue'[r])
          BY <1>n, <3>2, <3>3, <4>1
        <5>2. queue'[r][i - 1] = queue[r][i]
          BY <1>n, <3>2, <5>1
        <5> QED BY <4>1, <5>1, <5>2
      <4>2. ASSUME NEW i \in 1..Len(queue'[r]), queue'[r][i] = CLOSE
            PROVE  i + 1 \in 1..Len(queue[r]) /\ queue[r][i + 1] = CLOSE
        BY <1>n, <3>2, <4>2
      <4> QED BY <4>1, <4>2 DEF CloseQueued
    <3>6. ASSUME NEW i \in 1..Len(queue'[r]), FirstClose(r, i)'
          PROVE  joined'[r] + Len(received'[r]) + i = sweptAt'[r] + 1
      <4>1. i + 1 \in 1..Len(queue[r]) /\ i \in Int
        BY <1>n, <3>2
      <4>2. queue[r][i + 1] = CLOSE
        BY <3>2, <3>6 DEF FirstClose
      <4>3. ASSUME NEW j \in 1..((i + 1) - 1) PROVE queue[r][j] # CLOSE
        <5>1. CASE j = 1
          BY <3>3, <5>1
        <5>2. CASE j # 1
          <6>1. j - 1 \in 1..(i - 1) /\ j - 1 \in 1..Len(queue'[r])
            BY <1>n, <3>2, <4>1, <5>2
          <6>2. queue'[r][j - 1] = queue[r][j]
            BY <1>n, <3>2, <6>1
          <6> QED BY <3>6, <6>1, <6>2 DEF FirstClose
        <5> QED BY <5>1, <5>2
      <4>4. FirstClose(r, i + 1)
        BY <4>2, <4>3 DEF FirstClose
      <4>5. joined[r] + Len(received[r]) + (i + 1) = sweptAt[r] + 1
        BY <1>0, <3>1, <4>1, <4>4 DEF SweepPointOf
      <4>6. joined[r] \in Int /\ Len(received[r]) \in Int
        BY <1>n
      <4>7. joined[r] + (Len(received[r]) + 1) + i = sweptAt[r] + 1
        BY <4>1, <4>5, <4>6, Shift
      <4> QED BY <3>1, <3>4, <4>7
    <3> QED BY <1>0, <3>1, <3>5, <3>6 DEF SweepPointOf
  <2>2. CASE r # s
    <3>1. /\ Open(pc[r]) /\ UNCHANGED <<sweptAt, joined>>
          /\ received'[r] = received[r] /\ queue'[r] = queue[r]
      BY <1>2, <2>2 DEF Dequeue, TypeOK
    <3> QED BY <1>0, <3>1, SameSweepPoint
  <2> QED BY <2>1, <2>2
<1>3. ASSUME NEW s \in Streams,
             \/ SubscribeRefused(s) \/ Sent(s) \/ Client(s)
             \/ DequeueClose(s) \/ Finalise(s)
      PROVE  SweepPointOf(r)'
  <2>1. Open(pc[r]) /\ UNCHANGED <<received, joined, sweptAt>> /\ queue'[r] = queue[r]
    BY <1>3 DEF SubscribeRefused, Sent, Client, Request, Keepalive, CancelWaiting,
                CancelSending, DequeueClose, Finalise, Unregister, brVars, histVars, TypeOK
  <2> QED BY <1>0, <2>1, SameSweepPoint
<1>4. ASSUME NEW t \in Tenants, Notify(t) PROVE SweepPointOf(r)'
  <2>1. UNCHANGED <<received, joined, sweptAt, pc>>
    BY <1>4 DEF Notify, reqVars
  <2>2. CASE r \in connections[t]
    <3>1. queue'[r] = Append(queue[r], <<t, notified[t] + 1>>)
      BY <1>4, <2>2 DEF Notify
    <3>2. <<t, notified[t] + 1>> \in Message /\ <<t, notified[t] + 1>> # CLOSE
      <4>1. notified[t] + 1 \in Nat
        BY <1>0
      <4> QED BY <4>1, BroadcasterAssumption DEF Message
    <3>3. /\ Len(queue'[r]) = Len(queue[r]) + 1
          /\ queue'[r][Len(queue[r]) + 1] # CLOSE
          /\ \A i \in 1..Len(queue[r]) : queue'[r][i] = queue[r][i]
      BY <1>0, <3>1, <3>2
    <3>4. ASSUME NEW i \in 1..Len(queue'[r]), queue'[r][i] = CLOSE
          PROVE  i \in 1..Len(queue[r])
      BY <1>n, <3>3, <3>4
    <3>5. CloseQueued(r)' <=> CloseQueued(r)
      BY SMTT(30), <1>n, <3>3, <3>4 DEF CloseQueued
    <3>6. ASSUME NEW i \in 1..Len(queue'[r]), FirstClose(r, i)'
          PROVE  i \in 1..Len(queue[r]) /\ FirstClose(r, i)
      <4>1. i \in 1..Len(queue[r]) /\ queue[r][i] = CLOSE
        BY <3>3, <3>4, <3>6 DEF FirstClose
      <4>2. ASSUME NEW j \in 1..(i - 1) PROVE queue[r][j] # CLOSE
        <5>1. j \in 1..Len(queue[r])
          BY <1>n, <4>1
        <5> QED BY <3>3, <3>6, <5>1 DEF FirstClose
      <4> QED BY <4>1, <4>2 DEF FirstClose
    <3> QED BY <1>0, <2>1, <3>5, <3>6 DEF SweepPointOf
  <2>3. CASE r \notin connections[t]
    <3>1. queue'[r] = queue[r]
      BY <1>4, <2>3 DEF Notify
    <3> QED BY <1>0, <2>1, <3>1, SameSweepPoint
  <2> QED BY <2>2, <2>3
<1>5. CASE CloseAll
  <2>1. UNCHANGED <<received, joined, pc>> /\ Open(pc[r])
    BY <1>5 DEF CloseAll, reqVars
  <2>2. Registered(r)
    BY <1>0, <2>1 DEF RegisteredWhileOpen, Registered
  <2>3. /\ queue'[r] = Append(queue[r], CLOSE)
        /\ sweptAt'[r] = IF sweptAt[r] = NotYet THEN notified[tenant[r]] ELSE sweptAt[r]
    BY <1>5, <2>2 DEF CloseAll
  <2>4. /\ Len(queue'[r]) = Len(queue[r]) + 1
        /\ queue'[r][Len(queue[r]) + 1] = CLOSE
        /\ \A i \in 1..Len(queue[r]) : queue'[r][i] = queue[r][i]
    BY <1>0, <2>3
  <2>5. CloseQueued(r)' /\ sweptAt'[r] # NotYet
    <3>1. Len(queue[r]) + 1 \in 1..Len(queue'[r])
      BY <1>n, <2>4
    <3>2. sweptAt'[r] # NotYet
      BY <1>n, <2>3 DEF NotYet
    <3> QED BY <2>4, <3>1, <3>2 DEF CloseQueued
  <2>6. ASSUME NEW i \in 1..Len(queue'[r]), FirstClose(r, i)'
        PROVE  joined'[r] + Len(received'[r]) + i = sweptAt'[r] + 1
    <3>1. CASE sweptAt[r] = NotYet
      <4>1. ~CloseQueued(r)
        BY <1>0, <2>1, <3>1 DEF SweepPointOf
      <4>2. i = Len(queue[r]) + 1
        <5>1. ~ (i \in 1..Len(queue[r]))
          BY <2>4, <2>6, <4>1 DEF CloseQueued, FirstClose
        <5> QED BY <1>n, <2>4, <5>1
      <4>3. joined[r] + Len(received[r]) + Len(queue[r]) = notified[tenant[r]]
        BY <2>2, <4>1 DEF InOrderNoGap, NoGap
      <4>4. joined[r] + Len(received[r]) + (Len(queue[r]) + 1)
              = joined[r] + Len(received[r]) + Len(queue[r]) + 1
        <5>1. joined[r] \in Int /\ Len(received[r]) \in Int /\ Len(queue[r]) \in Int
          BY <1>n
        <5> QED BY <5>1, Shift
      <4> QED BY <2>1, <2>3, <3>1, <4>2, <4>3, <4>4
    <3>2. CASE sweptAt[r] # NotYet
      <4>1. CloseQueued(r)
        BY <1>0, <2>1, <3>2 DEF SweepPointOf
      <4>2. PICK k \in 1..Len(queue[r]) : queue[r][k] = CLOSE
        BY <4>1 DEF CloseQueued
      <4>3. i \in 1..Len(queue[r])
        <5>1. ~ (k \in 1..(i - 1))
          BY <2>4, <2>6, <4>2 DEF FirstClose
        <5> QED BY <1>n, <2>4, <4>2, <5>1
      <4>4. FirstClose(r, i)
        <5>1. ASSUME NEW j \in 1..(i - 1) PROVE queue[r][j] # CLOSE
          <6>1. j \in 1..Len(queue[r])
            BY <1>n, <4>3
          <6> QED BY <2>4, <2>6, <6>1 DEF FirstClose
        <5> QED BY <2>4, <2>6, <4>3, <5>1 DEF FirstClose
      <4> QED BY <1>0, <2>1, <2>3, <3>2, <4>3, <4>4 DEF SweepPointOf
    <3> QED BY <3>1, <3>2
  <2> QED BY <2>5, <2>6 DEF SweepPointOf
<1>6. CASE Signal \/ StartDrain \/ LifespanShutdown \/ Startup \/ UNCHANGED vars
  <2>1. UNCHANGED <<received, queue, joined, sweptAt, pc>>
    BY <1>6 DEF Signal, StartDrain, LifespanShutdown, Startup, vars, brVars, reqVars, histVars
  <2> QED BY <1>0, <2>1, SameSweepPoint
<1> QED BY <1>1, <1>2, <1>3, <1>4, <1>5, <1>6 DEF Next, Progress

\* A stream ends with reason "shutdown" only on its first close marker, which
\* then stands at the head of its queue.
LEMMA CloseStep ==
    /\ TypeOK /\ RegisteredWhileOpen /\ FreshUntilSubscribed
    /\ SweepPoint /\ CloseOvertakesNothing /\ [Next]_vars
    => CloseOvertakesNothing'
<1> SUFFICES ASSUME TypeOK, RegisteredWhileOpen, FreshUntilSubscribed, SweepPoint,
                    CloseOvertakesNothing, [Next]_vars, NEW r \in Streams,
                    pc'[r] = "ended", reason'[r] = "shutdown", sweptAt'[r] # NotYet
             PROVE  joined'[r] + Len(received'[r]) = sweptAt'[r]
  BY DEF CloseOvertakesNothing
<1> DEFINE Goal == joined'[r] + Len(received'[r]) = sweptAt'[r]
<1> USE DEF TypeOK
<1>1. ASSUME NEW s \in Streams, DequeueClose(s) PROVE Goal
  <2>0. UNCHANGED <<joined, received, sweptAt>>
    BY <1>1 DEF DequeueClose, histVars
  <2>1. CASE r = s
    <3>1. SweepPointOf(r) /\ 1 \in 1..Len(queue[r]) /\ FirstClose(r, 1)
      BY <1>1, <2>1 DEF DequeueClose, SweepPoint, FirstClose
    <3>2. joined[r] + Len(received[r]) + 1 = sweptAt[r] + 1
      BY <3>1 DEF SweepPointOf
    <3>3. joined[r] + Len(received[r]) \in Int /\ sweptAt[r] \in Int
      BY DEF NotYet
    <3> HIDE DEF TypeOK
    <3> QED BY <2>0, <3>2, <3>3
  <2>2. CASE r # s
    <3>1. pc[r] = "ended" /\ reason[r] = "shutdown"
      BY <1>1, <2>2 DEF DequeueClose, Unregister
    <3> QED BY <2>0, <3>1 DEF CloseOvertakesNothing
  <2> QED BY <2>1, <2>2
<1>2. ASSUME NEW s \in Streams,
             \/ SubscribeRefused(s) \/ Finalise(s) \/ Client(s) \/ Sent(s)
      PROVE  Goal
  <2>1. UNCHANGED <<joined, received, sweptAt>>
    BY <1>2 DEF SubscribeRefused, Finalise, Client, Request, Keepalive,
                CancelWaiting, CancelSending, Sent, histVars
  <2>2. pc[r] = "ended" /\ reason[r] = "shutdown"
    BY <1>2, <2>1 DEF SubscribeRefused, Finalise, Client, Request, Keepalive, Sent,
                CancelWaiting, CancelSending, Unregister, FreshUntilSubscribed
  <2> QED BY <2>1, <2>2 DEF CloseOvertakesNothing
<1>3. ASSUME NEW s \in Streams, Subscribe(s) \/ Dequeue(s) PROVE Goal
  <2>1. r # s /\ pc[r] = "ended" /\ reason[r] = "shutdown"
    BY <1>3 DEF Subscribe, Dequeue
  <2> QED BY <1>3, <2>1 DEF Subscribe, Dequeue, CloseOvertakesNothing
<1>4. ASSUME NEW t \in Tenants, Notify(t) PROVE Goal
  BY <1>4 DEF Notify, reqVars, CloseOvertakesNothing
<1>5. CASE CloseAll
  <2>1. ~Registered(r) /\ UNCHANGED <<pc, reason, joined, received>>
    BY <1>5 DEF CloseAll, reqVars, Registered, RegisteredWhileOpen
  <2>2. sweptAt'[r] = sweptAt[r]
    BY <1>5, <2>1 DEF CloseAll
  <2> QED BY <2>1, <2>2 DEF CloseOvertakesNothing
<1>6. CASE Signal \/ StartDrain \/ LifespanShutdown \/ Startup \/ UNCHANGED vars
  BY <1>6 DEF Signal, StartDrain, LifespanShutdown, Startup, vars, reqVars, histVars,
              CloseOvertakesNothing
<1> QED BY <1>1, <1>2, <1>3, <1>4, <1>5, <1>6 DEF Next, Progress

-----------------------------------------------------------------------------
\* The conjunction is inductive: subscribe, notify, close_all and the end of a
\* stream all preserve it.
LEMMA Inductive == Spec => []IInv
<1>1. Init => IInv
  <2> SUFFICES ASSUME Init PROVE IInv
    OBVIOUS
  <2>1. TypeOK
    BY TypeInit
  <2>2. ~draining
    BY DEF Init
  <2>3. \A s \in Streams : /\ pc[s] = "none" /\ queue[s] = << >>
                           /\ received[s] = << >> /\ sweptAt[s] = NotYet
                           /\ \A t \in Tenants : s \notin connections[t]
    BY DEF Init
  <2>4. InOrderNoGap
    BY <2>3 DEF InOrderNoGap, NoGap, Registered
  <2> QED BY <2>1, <2>2, <2>3, <2>4 DEF IInv, RegisteredWhileOpen, FreshUntilSubscribed,
             DrainReachesEveryStream, SweepPoint, CloseOvertakesNothing
<1>2. IInv /\ [Next]_vars => IInv'
  BY TypeStep, RegisteredStep, FreshStep, DrainStep, OrderStep, SweepStep, CloseStep
     DEF IInv
<1> QED BY <1>1, <1>2, PTL DEF Spec

\* While draining, every stream whose response is open has a close marker
\* queued: close_all() and the draining check of subscribe() leave no stream
\* that would hold uvicorn's drain open.
THEOREM DrainTheorem == Spec => []DrainReachesEveryStream
BY Inductive, PTL DEF IInv

\* Every stream yields its tenant's notifications since it subscribed, in
\* order and without gap, repetition or a notification of another tenant.
THEOREM OrderTheorem == Spec => []InOrderNoGap
BY Inductive, PTL DEF IInv

\* A stream closed by the shutdown has yielded everything notified before
\* close_all() reached it.
THEOREM CloseTheorem == Spec => []CloseOvertakesNothing
BY Inductive, PTL DEF IInv

-----------------------------------------------------------------------------
\* The streams the tenant's gauge should count, and those that ended under a
\* reason.
OpenOf(t) ==
    {s \in Streams : pc[s] \in {"sending", "waiting", "abandoned"} /\ tenant[s] = t}
EndedUnder(r) == {s \in Streams : pc[s] = "ended" /\ reason[s] = r}

\* The accounting, in terms of those two sets.
LEMMA AccountingMeans ==
    StreamAccounting <=> /\ \A t \in Tenants : gauge[t] = Cardinality(OpenOf(t))
                         /\ \A r \in Reasons : closed[r] = Cardinality(EndedUnder(r))
BY DEF StreamAccounting, OpenOf, EndedUnder

\* Both sets are finite, and stay so.
LEMMA CountsAreFinite ==
    /\ \A t : IsFiniteSet(OpenOf(t)) /\ IsFiniteSet(OpenOf(t)')
    /\ \A r : IsFiniteSet(EndedUnder(r)) /\ IsFiniteSet(EndedUnder(r)')
<1>1. \A T \in SUBSET Streams : IsFiniteSet(T)
  BY BroadcasterAssumption, FS_Subset
<1>2. \A t : OpenOf(t) \in SUBSET Streams /\ OpenOf(t)' \in SUBSET Streams
  BY DEF OpenOf
<1>3. \A r : EndedUnder(r) \in SUBSET Streams /\ EndedUnder(r)' \in SUBSET Streams
  BY DEF EndedUnder
<1> QED BY <1>1, <1>2, <1>3

\* The gauge follows a stream that opens, whatever tenant it belongs to.
LEMMA GaugeUp ==
    ASSUME TypeOK, StreamAccounting, NEW s \in Streams, pc[s] = "auth",
           pc' = [pc EXCEPT ![s] = "sending"], tenant' = tenant,
           gauge' = [gauge EXCEPT ![tenant[s]] = @ + 1],
           NEW t \in Tenants
    PROVE  gauge'[t] = Cardinality(OpenOf(t)')
<1>1. gauge[t] = Cardinality(OpenOf(t)) /\ IsFiniteSet(OpenOf(t)) /\ s \notin OpenOf(t)
  BY AccountingMeans, CountsAreFinite DEF OpenOf
<1>2. CASE t = tenant[s]
  <2>1. OpenOf(t)' = OpenOf(t) \cup {s}
    BY <1>2 DEF OpenOf, TypeOK, PCs
  <2>2. Cardinality(OpenOf(t) \cup {s}) = Cardinality(OpenOf(t)) + 1
    BY <1>1, FS_AddElement
  <2>3. gauge'[t] = gauge[t] + 1
    BY <1>2 DEF TypeOK
  <2> QED BY <1>1, <2>1, <2>2, <2>3
<1>3. CASE t # tenant[s]
  <2>1. OpenOf(t)' = OpenOf(t)
    BY <1>3 DEF OpenOf, TypeOK, PCs
  <2>2. gauge'[t] = gauge[t]
    BY <1>3 DEF TypeOK
  <2> QED BY <1>1, <2>1, <2>2
<1> QED BY <1>2, <1>3

\* The gauge follows a stream whose finally block runs.
LEMMA GaugeDown ==
    ASSUME TypeOK, StreamAccounting, NEW s \in Streams,
           pc[s] \in {"waiting", "abandoned"}, NEW q, Unregister(s, q), tenant' = tenant,
           NEW t \in Tenants
    PROVE  gauge'[t] = Cardinality(OpenOf(t)')
<1>1. gauge[t] = Cardinality(OpenOf(t)) /\ IsFiniteSet(OpenOf(t))
  BY AccountingMeans, CountsAreFinite
<1>2. CASE t = tenant[s]
  <2>1. OpenOf(t)' = OpenOf(t) \ {s}
    BY <1>2 DEF OpenOf, TypeOK, PCs, Unregister
  <2>2. Cardinality(OpenOf(t) \ {s}) = Cardinality(OpenOf(t)) - 1
    <3>1. s \in OpenOf(t)
      BY <1>2 DEF OpenOf
    <3> QED BY <1>1, <3>1, FS_RemoveElement
  <2>3. gauge'[t] = gauge[t] - 1
    BY <1>2 DEF TypeOK, Unregister
  <2> QED BY <1>1, <2>1, <2>2, <2>3
<1>3. CASE t # tenant[s]
  <2>1. OpenOf(t)' = OpenOf(t)
    BY <1>3 DEF OpenOf, TypeOK, PCs, Unregister
  <2>2. gauge'[t] = gauge[t]
    BY <1>3 DEF TypeOK, Unregister
  <2> QED BY <1>1, <2>1, <2>2
<1> QED BY <1>2, <1>3

\* The closed counter follows a stream that ends, for every reason.
LEMMA ClosedUp ==
    ASSUME TypeOK, StreamAccounting, NEW s \in Streams, pc[s] # "ended",
           NEW q \in Reasons,
           pc' = [pc EXCEPT ![s] = "ended"], reason' = [reason EXCEPT ![s] = q],
           closed' = [closed EXCEPT ![q] = @ + 1],
           NEW r \in Reasons
    PROVE  closed'[r] = Cardinality(EndedUnder(r)')
<1>1. closed[r] = Cardinality(EndedUnder(r)) /\ IsFiniteSet(EndedUnder(r)) /\ s \notin EndedUnder(r)
  BY AccountingMeans, CountsAreFinite DEF EndedUnder
<1>2. CASE r = q
  <2>1. EndedUnder(r)' = EndedUnder(r) \cup {s}
    BY <1>2 DEF EndedUnder, TypeOK
  <2>2. Cardinality(EndedUnder(r) \cup {s}) = Cardinality(EndedUnder(r)) + 1
    BY <1>1, FS_AddElement
  <2>3. closed'[r] = closed[r] + 1
    BY <1>2 DEF TypeOK
  <2> QED BY <1>1, <2>1, <2>2, <2>3
<1>3. CASE r # q
  <2>1. EndedUnder(r)' = EndedUnder(r)
    BY <1>3 DEF EndedUnder, TypeOK
  <2>2. closed'[r] = closed[r]
    BY <1>3 DEF TypeOK
  <2> QED BY <1>1, <2>1, <2>2
<1> QED BY <1>2, <1>3

\* A step that opens no stream leaves the gauge exact.
LEMMA GaugeKept ==
    ASSUME StreamAccounting, tenant' = tenant, gauge' = gauge,
           \A s \in Streams : pc'[s] \in {"sending", "waiting", "abandoned"}
                                <=> pc[s] \in {"sending", "waiting", "abandoned"},
           NEW t \in Tenants
    PROVE  gauge'[t] = Cardinality(OpenOf(t)')
<1>1. OpenOf(t)' = OpenOf(t)
  BY DEF OpenOf
<1> QED BY <1>1, AccountingMeans

\* A step that ends no stream leaves the closed counters exact.
LEMMA ClosedKept ==
    ASSUME StreamAccounting, reason' = reason, closed' = closed,
           \A s \in Streams : pc'[s] = "ended" <=> pc[s] = "ended",
           NEW r \in Reasons
    PROVE  closed'[r] = Cardinality(EndedUnder(r)')
<1>1. EndedUnder(r)' = EndedUnder(r)
  BY DEF EndedUnder
<1> QED BY <1>1, AccountingMeans

\* Every step of the broadcaster keeps the accounting exact.
LEMMA AccountingStep == TypeOK /\ StreamAccounting /\ [Next]_vars => StreamAccounting'
<1> DEFINE Gauge == \A t \in Tenants : gauge'[t] = Cardinality(OpenOf(t)')
           Closed == \A r \in Reasons : closed'[r] = Cardinality(EndedUnder(r)')
<1> SUFFICES ASSUME TypeOK, StreamAccounting, [Next]_vars PROVE Gauge /\ Closed
  BY DEF StreamAccounting, OpenOf, EndedUnder
<1>r. "client" \in Reasons /\ "shutdown" \in Reasons
  BY DEF Reasons
<1>1. ASSUME NEW s \in Streams, SubscribeRefused(s) PROVE Gauge /\ Closed
  <2>1. Gauge
    BY <1>1, GaugeKept DEF SubscribeRefused, TypeOK, PCs
  <2>2. Closed
    BY <1>1, <1>r, ClosedUp DEF SubscribeRefused
  <2> QED BY <2>1, <2>2
<1>2. ASSUME NEW s \in Streams, Subscribe(s) PROVE Gauge /\ Closed
  <2>1. Gauge
    BY <1>2, GaugeUp DEF Subscribe
  <2>2. Closed
    BY <1>2, ClosedKept DEF Subscribe, TypeOK
  <2> QED BY <2>1, <2>2
<1>3. ASSUME NEW s \in Streams, NEW q \in Reasons,
             pc[s] \in {"waiting", "abandoned"}, Unregister(s, q), tenant' = tenant
      PROVE  Gauge /\ Closed
  <2>1. Gauge
    BY <1>3, GaugeDown
  <2>2. Closed
    BY <1>3, ClosedUp DEF Unregister
  <2> QED BY <2>1, <2>2
<1>4. ASSUME NEW s \in Streams, DequeueClose(s) \/ CancelWaiting(s) \/ Finalise(s)
      PROVE  Gauge /\ Closed
  BY <1>4, <1>3, <1>r DEF DequeueClose, CancelWaiting, Finalise
<1>5. ASSUME NEW s \in Streams,
             Request(s) \/ Sent(s) \/ Dequeue(s) \/ Keepalive(s) \/ CancelSending(s)
      PROVE  Gauge /\ Closed
  <2>1. /\ UNCHANGED <<tenant, reason, gauge, closed>>
        /\ \A x \in Streams : pc'[x] \in {"sending", "waiting", "abandoned"}
                                <=> pc[x] \in {"sending", "waiting", "abandoned"}
        /\ \A x \in Streams : pc'[x] = "ended" <=> pc[x] = "ended"
    BY <1>5 DEF Request, Sent, Dequeue, Keepalive, CancelSending, brVars, TypeOK
  <2> QED BY <2>1, GaugeKept, ClosedKept
<1>6. CASE UNCHANGED <<pc, tenant, reason, gauge, closed>>
  BY <1>6, GaugeKept, ClosedKept
<1>7. ASSUME \/ \E t \in Tenants : Notify(t)
             \/ Signal \/ CloseAll \/ StartDrain \/ LifespanShutdown \/ Startup
             \/ UNCHANGED vars
      PROVE  UNCHANGED <<pc, tenant, reason, gauge, closed>>
  BY <1>7 DEF Notify, Signal, CloseAll, StartDrain, LifespanShutdown, Startup,
              brVars, reqVars, vars
<1> QED
  BY <1>1, <1>2, <1>4, <1>5, <1>6, <1>7 DEF Next, Progress, Client

\* A process starts with nothing open and nothing counted.
LEMMA AccountingInit == Init => StreamAccounting
<1> SUFFICES ASSUME Init PROVE StreamAccounting
  OBVIOUS
<1>1. \A t \in Tenants : OpenOf(t) = {} /\ gauge[t] = 0
  BY DEF Init, OpenOf
<1>2. \A r \in Reasons : EndedUnder(r) = {} /\ closed[r] = 0
  BY DEF Init, EndedUnder
<1> QED BY <1>1, <1>2, FS_EmptySet, AccountingMeans

\* A stream is registered under its own tenant exactly while its generator is
\* alive, the gauge counts those streams and no other, and each stream that
\* ended was counted under one reason: subscribe()'s try/finally runs once on
\* every way out.
THEOREM AccountingTheorem == Spec => []StreamsAccounted
<1>1. Init => StreamsAccounted /\ TypeOK
  BY AccountingInit, TypeInit DEF StreamsAccounted, RegisteredWhileOpen, Init
<1>2. TypeOK /\ StreamsAccounted /\ [Next]_vars => (StreamsAccounted /\ TypeOK)'
  BY TypeStep, RegisteredStep, AccountingStep DEF StreamsAccounted
<1> QED BY <1>1, <1>2, PTL DEF Spec

-----------------------------------------------------------------------------

(***************************************************************************)
(* RedisFanout: for any processes and broadcasts and any bounds on what goes *)
(* wrong, what a process gets from the channel comes in order, without gaps *)
(* and never stale, and no broadcast() leaves the streams of its own process *)
(* untold.                                                                 *)
(***************************************************************************)

\* Sequences grow at their end and are read from their head.
LEMMA AppendFacts ==
    ASSUME NEW S, NEW s \in Seq(S), NEW e \in S
    PROVE  /\ Append(s, e) \in Seq(S) /\ Len(Append(s, e)) = Len(s) + 1
           /\ Append(s, e)[Len(s) + 1] = e
           /\ \A i \in 1..Len(s) : Append(s, e)[i] = s[i]
OBVIOUS

\* What the head and the tail of a queue hold.
LEMMA TailFacts ==
    ASSUME NEW S, NEW s \in Seq(S), s # << >>
    PROVE  /\ Head(s) = s[1] /\ Head(s) \in S /\ 1 \in 1..Len(s)
           /\ Tail(s) \in Seq(S) /\ Len(Tail(s)) = Len(s) - 1
           /\ \A i \in 1..Len(Tail(s)) : Tail(s)[i] = s[i + 1] /\ i + 1 \in 1..Len(s)
           /\ \A i \in 1..Len(s) : i # 1 => i - 1 \in 1..Len(Tail(s)) /\ Tail(s)[i - 1] = s[i]
OBVIOUS

-----------------------------------------------------------------------------
\* The steps of one process's subscription, and of the calls it makes.
SubscriptionStep(p) ==
    \/ Connect(p) \/ Acknowledged(p) \/ LoseSubscription(p) \/ Reconnect(p) \/ Stop(p)
    \/ LoopCancelled(p) \/ RedisSubscribe(p) \/ LinkDies(p)
DirectStep(b) == (\E p \in Procs : BroadcastLocal(p, b)) \/ PublishAnswered(b) \/ PublishFails(b)
ChannelStep == ForeignPublish \/ (\E b \in Broadcasts : RedisPublish(b) \/ FleetPublish(b))

\* Every step is of one of these kinds.
LEMMA NextKinds ==
    FanoutNext =>
        \/ \E p \in Procs : SubscriptionStep(p) \/ Receive(p)
        \/ \E p \in Procs, b \in Broadcasts : BroadcastBegin(p, b)
        \/ \E b \in Broadcasts : DirectStep(b)
        \/ ChannelStep
BY DEF FanoutNext, LoopStep, SubscriptionStep, DirectStep, ChannelStep

\* Redis appends one message, for every live connection.
LEMMA Appends ==
    ASSUME FanoutTypeOK, ChannelStep
    PROVE  \E m \in Broadcasts \cup {JUNK} : ChannelAppend(m)
BY DEF ChannelStep, ForeignPublish, RedisPublish, FleetPublish

\* The types of a process's subscription.
LEMMA SubscriptionTypes ==
    ASSUME FanoutTypeOK, NEW p \in Procs, SubscriptionStep(p)
    PROVE  FanoutTypeOK'
<1>1. CASE Connect(p)
  BY <1>1 DEF Connect, FanoutTypeOK, LoopStates, LinkStates, callVars, envVars
<1>2. CASE Acknowledged(p)
  <2>1. Tail(inbox[p]) \in Seq(Nat)
    BY <1>2, TailFacts DEF Acknowledged, FanoutTypeOK
  <2> QED BY <1>2, <2>1 DEF Acknowledged, FanoutTypeOK, LoopStates, callVars, envVars
<1>3. CASE LoseSubscription(p)
  BY SMTT(30), <1>3 DEF LoseSubscription, FanoutTypeOK, LoopStates, callVars, redisVars
<1>4. CASE Reconnect(p)
  BY <1>4 DEF Reconnect, FanoutTypeOK, LoopStates, LinkStates, callVars, envVars
<1>5. CASE Stop(p)
  BY <1>5 DEF Stop, FanoutTypeOK, redisVars, callVars, envVars
<1>6. CASE LoopCancelled(p)
  BY <1>6 DEF LoopCancelled, FanoutTypeOK, LoopStates, LinkStates, callVars, envVars
<1>7. CASE RedisSubscribe(p)
  BY <1>7 DEF RedisSubscribe, FanoutTypeOK, LinkStates, loopVars, callVars, envVars, ACK
<1>8. CASE LinkDies(p)
  BY <1>8 DEF LinkDies, FanoutTypeOK, LinkStates, loopVars, callVars
<1> QED BY <1>1, <1>2, <1>3, <1>4, <1>5, <1>6, <1>7, <1>8 DEF SubscriptionStep

\* A notify() call is recorded.
LEMMA DeliveredTypes ==
    ASSUME FanoutTypeOK, NEW p \in Procs, NEW d \in Delivery,
           delivered' = [delivered EXCEPT ![p] = Append(@, d)]
    PROVE  /\ delivered' \in [Procs -> Seq(Delivery)]
           /\ Len(delivered'[p]) = Len(delivered[p]) + 1 /\ delivered'[p][Len(delivered[p]) + 1] = d
           /\ \A i \in 1..Len(delivered[p]) : delivered'[p][i] = delivered[p][i]
           /\ \A q \in Procs : q # p => delivered'[q] = delivered[q]
<1>1. delivered[p] \in Seq(Delivery) /\ delivered'[p] = Append(delivered[p], d)
  BY DEF FanoutTypeOK
<1>2. delivered' \in [Procs -> Seq(Delivery)]
  BY <1>1, AppendFacts DEF FanoutTypeOK
<1> QED BY <1>1, <1>2, AppendFacts DEF FanoutTypeOK

\* What _deliver() makes of the message at the head of the connection.
LEMMA ReceiveTypes ==
    ASSUME FanoutTypeOK, NEW p \in Procs, Receive(p), Head(inbox[p]) \in 1..Len(chan)
    PROVE  /\ FanoutTypeOK'
           /\ LET n == Head(inbox[p]) IN
              \/ chan[n] = JUNK /\ UNCHANGED delivered
              \/ /\ chan[n] \in Broadcasts
                 /\ [b |-> chan[n], n |-> n, payload |-> TRUE] \in Delivery
                 /\ delivered' = [delivered EXCEPT ![p] = Append(@, [b |-> chan[n], n |-> n, payload |-> TRUE])]
<1> DEFINE n == Head(inbox[p])
           d == [b |-> chan[n], n |-> n, payload |-> TRUE]
<1>1. Tail(inbox[p]) \in Seq(Nat) /\ n \in Nat
  BY TailFacts DEF Receive, FanoutTypeOK
<1>2. chan[n] \in Broadcasts \cup {JUNK}
  BY DEF FanoutTypeOK
<1>3. chan[n] \in Broadcasts => d \in Delivery
  BY <1>1 DEF Delivery
<1>4. \/ chan[n] = JUNK /\ UNCHANGED delivered
      \/ chan[n] \in Broadcasts /\ delivered' = [delivered EXCEPT ![p] = Append(@, d)]
  BY <1>2 DEF Receive
<1>5. delivered' \in [Procs -> Seq(Delivery)]
  BY <1>3, <1>4, DeliveredTypes DEF FanoutTypeOK
<1>6. inbox' \in [Procs -> Seq(Nat)]
  BY <1>1 DEF Receive, FanoutTypeOK
<1>7. FanoutTypeOK'
  BY <1>5, <1>6 DEF Receive, FanoutTypeOK, loopVars, callVars, envVars
<1> QED BY <1>3, <1>4, <1>7

\* The types of a message's way through the channel.
LEMMA ChannelTypes ==
    ASSUME FanoutTypeOK, ChannelStep
    PROVE  /\ FanoutTypeOK'
           /\ Len(chan') = Len(chan) + 1
           /\ \A n \in 1..Len(chan) : chan'[n] = chan[n]
           /\ \A p \in Procs : inbox'[p] = IF link[p] = "live" THEN Append(inbox[p], Len(chan) + 1)
                                           ELSE inbox[p]
<1>1. PICK m \in Broadcasts \cup {JUNK} : ChannelAppend(m)
  BY Appends
<1>2. /\ chan' \in Seq(Broadcasts \cup {JUNK}) /\ Len(chan') = Len(chan) + 1
      /\ \A n \in 1..Len(chan) : chan'[n] = chan[n]
  BY <1>1, AppendFacts DEF ChannelAppend, FanoutTypeOK
<1>3. \A p \in Procs : Append(inbox[p], Len(chan) + 1) \in Seq(Nat)
  <2>1. Len(chan) + 1 \in Nat /\ \A p \in Procs : inbox[p] \in Seq(Nat)
    BY DEF FanoutTypeOK
  <2> QED BY <2>1, AppendFacts
<1>4. inbox' \in [Procs -> Seq(Nat)]
  BY <1>1, <1>3 DEF ChannelAppend, FanoutTypeOK
<1>5. FanoutTypeOK'
  <2>1. CASE ForeignPublish
    BY <2>1, <1>2, <1>4 DEF ForeignPublish, FanoutTypeOK, loopVars, callVars
  <2>2. ASSUME NEW b \in Broadcasts, RedisPublish(b) PROVE FanoutTypeOK'
    BY <2>2, <1>2, <1>4 DEF RedisPublish, FanoutTypeOK, loopVars, envVars
  <2>3. ASSUME NEW b \in Broadcasts, FleetPublish(b) PROVE FanoutTypeOK'
    BY <2>3, <1>2, <1>4 DEF FleetPublish, FanoutTypeOK, loopVars, envVars
  <2> QED BY <2>1, <2>2, <2>3 DEF ChannelStep
<1> QED BY <1>1, <1>2, <1>5 DEF ChannelAppend

\* A call that tells its own streams: what notify() is given, and by whom.
Told(p, b, d) ==
    /\ d \in Delivery /\ d.b = b /\ d.n = Direct
    /\ delivered' = [delivered EXCEPT ![p] = Append(@, d)]

\* Beginning a broadcast keeps the types.
LEMMA BeginTypes ==
    ASSUME FanoutTypeOK, NEW p \in Procs, NEW b \in Broadcasts, BroadcastBegin(p, b)
    PROVE  FanoutTypeOK'
<1>1. snap' \in [Broadcasts -> Nat]
  BY DEF BroadcastBegin, FanoutTypeOK, None
<1> QED BY <1>1 DEF BroadcastBegin, FanoutTypeOK, loopVars, redisVars, envVars

\* So does delivering it to the own process only, which tells one delivery.
LEMMA LocalTypes ==
    ASSUME FanoutTypeOK, NEW p \in Procs, NEW b \in Broadcasts, BroadcastLocal(p, b)
    PROVE  FanoutTypeOK' /\ \E d : Told(p, b, d)
<1> DEFINE d == [b |-> b, n |-> Direct, payload |-> TRUE]
<1>1. d \in Delivery
  BY DEF Delivery, Direct
<1>2. Told(p, b, d)
  BY <1>1 DEF Told, BroadcastLocal
<1>3. delivered' \in [Procs -> Seq(Delivery)]
  BY <1>2, DeliveredTypes DEF Told
<1>4. FanoutTypeOK'
  BY <1>3 DEF BroadcastLocal, FanoutTypeOK, loopVars, redisVars, envVars
<1> QED BY <1>2, <1>4

\* So does the fallback after a failed publish.
LEMMA FallbackTypes ==
    ASSUME FanoutTypeOK, NEW p \in Procs, NEW b \in Broadcasts, Fallback(p, b)
    PROVE  delivered' \in [Procs -> Seq(Delivery)] /\ \E d : Told(p, b, d) /\ (d.payload => b \notin Refetch)
<1> DEFINE d == [b |-> b, n |-> Direct, payload |-> b \notin Refetch]
<1>1. d \in Delivery /\ (d.payload => b \notin Refetch)
  BY DEF Delivery, Direct
<1>2. Told(p, b, d)
  BY <1>1 DEF Told, Fallback
<1>3. delivered' \in [Procs -> Seq(Delivery)]
  BY <1>2, DeliveredTypes DEF Told
<1> QED BY <1>1, <1>2, <1>3

-----------------------------------------------------------------------------
(***************************************************************************)
(* The inductive invariant.  A connection's messages are a stretch of the  *)
(* channel, in order, after all that was delivered; a call's message is in *)
(* the channel once, and after the subscription it relies on was made.     *)
(***************************************************************************)
\* The loop and its connection.
Shape(p) ==
    /\ subscribed[p] = (loop[p] = "listen")
    /\ loop[p] \in {"connect", "stopped"} => link[p] = "none"
    /\ loop[p] = "listen" => link[p] \in {"live", "dead"}
    /\ link[p] \in {"none", "requested"} => inbox[p] = << >>
    /\ ackAt[p] <= Len(chan)

\* What waits in the connection.
Queue(p) ==
    /\ \A i, j \in 1..Len(inbox[p]) : i < j => inbox[p][i] < inbox[p][j]
    /\ \A i \in 1..Len(inbox[p]) : inbox[p][i] <= Len(chan)
    /\ \A i \in 1..Len(inbox[p]) : loop[p] = "listen" => inbox[p][i] # ACK

\* What was delivered from the channel, and what waits after it.
Entry(p, d) ==
    /\ d.n <= Len(chan)
    /\ d.n # Direct => chan[d.n] = d.b
    /\ \A j \in 1..Len(inbox[p]) : inbox[p][j] # ACK => d.n < inbox[p][j]
    /\ d.payload /\ d.b \in Refetch /\ d.n = Direct =>
         pcB[d.b] = "done" /\ flight[d.b] = "none" /\ owner[d.b] # NoProc

InOrder(p) ==
    \A i, j \in 1..Len(delivered[p]) :
        i < j /\ delivered[p][i].n # Direct /\ delivered[p][j].n # Direct
            => delivered[p][i].n < delivered[p][j].n

Log(p) == InOrder(p) /\ \A i \in 1..Len(delivered[p]) : Entry(p, delivered[p][i])

\* Nothing published since Redis made the subscription is skipped.
Complete(p) ==
    link[p] = "live" /\ loop[p] \in {"awaitAck", "listen"} =>
        \A n \in (ackAt[p] + 1)..Len(chan) :
            chan[n] # JUNK => ReceivedBy(p, n) \/ WaitingFor(p, n)

ProcInv == \A p \in Procs : Shape(p) /\ Queue(p) /\ Log(p) /\ Complete(p)

\* Where a call and its command are.
CallShape(b) ==
    /\ pcB[b] = "idle" => owner[b] = NoProc /\ flight[b] = "none" /\ relied[b] = None /\ snap[b] = None
    /\ pcB[b] = "publishing" => owner[b] \in Procs /\ relied[b] = None
    /\ flight[b] # "none" => owner[b] \in Procs
    /\ relied[b] # None => relied[b] = snap[b] /\ flight[b] = "landed" /\ owner[b] \in Procs

\* Its message in the channel.
Once(b) ==
    /\ \A n \in 1..Len(chan) : chan[n] = b => flight[b] = "landed" \/ (pcB[b] = "done" /\ owner[b] = NoProc)
    /\ \A m, n \in 1..Len(chan) : chan[m] = b /\ chan[n] = b => m = n

\* The subscription it took for granted lasts: then the message came after it.
Covered(b) ==
    owner[b] \in Procs =>
        LET p == owner[b] IN
        /\ snap[b] <= subscription[p]
        /\ flight[b] = "landed" /\ snap[b] # None /\ subscribed[p] /\ subscription[p] = snap[b] =>
             \E n \in (ackAt[p] + 1)..Len(chan) : chan[n] = b

\* A call that ended told its streams or relied on the channel.
Answered(b) ==
    pcB[b] = "done" /\ owner[b] # NoProc =>
        \/ relied[b] # None /\ relied[b] = snap[b]
        \/ \E i \in 1..Len(delivered[owner[b]]) : delivered[owner[b]][i].b = b

CallInv == \A b \in Broadcasts : CallShape(b) /\ Once(b) /\ Covered(b) /\ Answered(b)

Inv == FanoutTypeOK /\ ProcInv /\ CallInv

-----------------------------------------------------------------------------
\* The invariant is what the properties need.
LEMMA InvImpliesKept == Inv => ChannelKept
<1> SUFFICES ASSUME Inv PROVE ChannelKept
  OBVIOUS
<1>1. ChannelOrder
  BY DEF Inv, ProcInv, Log, InOrder, ChannelOrder
<1>2. NoSkipWhileConnected
  BY DEF Inv, ProcInv, Complete, NoSkipWhileConnected
<1>3. ASSUME NEW p \in Procs, NEW i \in 1..Len(delivered[p]), NEW j \in 1..Len(delivered[p]),
             i < j, delivered[p][i].payload, delivered[p][j].payload,
             delivered[p][i].b \in Refetch, delivered[p][j].b \in Refetch,
             NEW m \in 1..Len(chan), NEW n \in 1..Len(chan),
             chan[m] = delivered[p][i].b, chan[n] = delivered[p][j].b
      PROVE  m <= n
  <2>1. ASSUME NEW k \in 1..Len(delivered[p]), delivered[p][k].payload, delivered[p][k].b \in Refetch,
               NEW l \in 1..Len(chan), chan[l] = delivered[p][k].b
        PROVE  delivered[p][k].n = l /\ l # Direct
    <3>1. delivered[p][k].b \in Broadcasts /\ delivered[p][k].n \in Nat /\ delivered[p][k] \in Delivery
      <4>1. delivered[p] \in Seq(Delivery)
        BY DEF Inv, FanoutTypeOK
      <4>2. delivered[p][k] \in Delivery
        BY <4>1
      <4> QED BY <4>2 DEF Delivery
    <3>2. Entry(p, delivered[p][k]) /\ Once(delivered[p][k].b)
      BY <3>1 DEF Inv, ProcInv, Log, CallInv
    <3>3. delivered[p][k].n # Direct
      BY <2>1, <3>2 DEF Entry, Once
    <3>4. delivered[p][k].n \in 1..Len(chan) /\ chan[delivered[p][k].n] = delivered[p][k].b
      BY <3>1, <3>2, <3>3 DEF Entry, Direct
    <3> QED BY <2>1, <3>2, <3>4 DEF Once, Direct
  <2>2. delivered[p][i].n = m /\ delivered[p][j].n = n /\ m # Direct /\ n # Direct
    BY <1>3, <2>1
  <2>3. m < n
    BY <1>1, <1>3, <2>2 DEF ChannelOrder
  <2> QED BY <2>3
<1>4. NewerPayloadWins
  BY <1>3 DEF NewerPayloadWins
<1> QED BY <1>1, <1>2, <1>4 DEF ChannelKept

\* The invariant says what NobodyUntold asks.
LEMMA InvImpliesTold == Inv => NobodyUntold
<1> SUFFICES ASSUME Inv PROVE NobodyUntold
  OBVIOUS
<1>1. ToldOrRelied
  BY DEF Inv, CallInv, Answered, ToldOrRelied
<1>2. ASSUME NEW b \in Broadcasts, NEW p, p = owner[b], relied[b] # None, subscribed[p],
             subscription[p] = relied[b], link[p] = "live"
      PROVE  \E n \in 1..Len(chan) : chan[n] = b /\ (ReceivedBy(p, n) \/ WaitingFor(p, n))
  <2>1. p \in Procs /\ relied[b] = snap[b] /\ flight[b] = "landed"
    BY <1>2 DEF Inv, CallInv, CallShape
  <2>2. PICK n \in (ackAt[p] + 1)..Len(chan) : chan[n] = b
    BY <1>2, <2>1 DEF Inv, CallInv, Covered
  <2>3. loop[p] = "listen"
    BY <1>2, <2>1 DEF Inv, ProcInv, Shape
  <2>4. ReceivedBy(p, n) \/ WaitingFor(p, n)
    BY <1>2, <2>1, <2>2, <2>3, FanoutAssumption DEF Inv, ProcInv, Complete
  <2>5. n \in 1..Len(chan)
    BY <2>1, <2>2 DEF Inv, FanoutTypeOK
  <2> QED BY <2>2, <2>4, <2>5
<1>3. ReliedOnArrives
  BY <1>2 DEF ReliedOnArrives
<1> QED BY <1>1, <1>3 DEF NobodyUntold

\* Nothing is subscribed, called or published at the beginning.
LEMMA InvInit == FanoutInit => Inv
<1> SUFFICES ASSUME FanoutInit PROVE Inv
  OBVIOUS
<1>1. FanoutTypeOK
  BY DEF FanoutInit, FanoutTypeOK, LoopStates, LinkStates, None
<1>2. ASSUME NEW p \in Procs PROVE Shape(p) /\ Queue(p) /\ Log(p) /\ Complete(p)
  <2>1. /\ subscribed[p] = FALSE /\ loop[p] = "connect" /\ link[p] = "none" /\ ackAt[p] = 0
        /\ inbox[p] = << >> /\ delivered[p] = << >> /\ chan = << >>
    BY DEF FanoutInit
  <2>2. Len(inbox[p]) = 0 /\ Len(delivered[p]) = 0 /\ Len(chan) = 0
    BY <2>1
  <2>3. Shape(p) /\ Complete(p)
    <3>1. subscribed[p] = (loop[p] = "listen")
      BY <2>1, Zenon
    <3>2. ackAt[p] <= Len(chan)
      BY <2>1, <2>2
    <3> QED BY <2>1, <3>1, <3>2 DEF Shape, Complete
  <2>4. Queue(p) /\ Log(p)
    BY <2>2 DEF Queue, Log, InOrder
  <2> QED BY <2>3, <2>4
<1>3. ASSUME NEW b \in Broadcasts PROVE CallShape(b) /\ Once(b) /\ Covered(b) /\ Answered(b)
  <2>1. NoProc \notin Procs
    BY FanoutAssumption
  <2>2. CallShape(b)
    BY DEF FanoutInit, CallShape
  <2> QED BY <2>1, <2>2 DEF FanoutInit, Once, Covered, Answered
<1> QED BY <1>1, <1>2, <1>3 DEF Inv, ProcInv, CallInv

-----------------------------------------------------------------------------
\* A process that a step does not touch keeps its part of the invariant.
LEMMA Untouched ==
    ASSUME NEW p \in Procs, Shape(p), Queue(p), Log(p), Complete(p),
           UNCHANGED <<chan, subscribed[p], loop[p], link[p], inbox[p], ackAt[p], delivered[p]>>,
           UNCHANGED <<pcB, flight, owner>>
    PROVE  (Shape(p) /\ Queue(p) /\ Log(p) /\ Complete(p))'
<1>1. Shape(p)'
  BY DEF Shape
<1>2. Queue(p)'
  BY DEF Queue
<1>3. Log(p)'
  BY DEF Log, InOrder, Entry
<1>4. Complete(p)'
  BY DEF Complete, ReceivedBy, WaitingFor
<1> QED BY <1>1, <1>2, <1>3, <1>4

\* The parts of the invariant about what waits only need that nothing new waits.
LEMMA LessWaits ==
    ASSUME Inv, NEW p \in Procs, UNCHANGED <<chan, delivered, pcB, flight, owner>>,
           \A i \in 1..Len(inbox'[p]) : inbox'[p][i] = ACK \/ \E j \in 1..Len(inbox[p]) : inbox'[p][i] = inbox[p][j]
    PROVE  Log(p)'
<1>1. Log(p) /\ inbox[p] \in Seq(Nat)
  BY DEF Inv, ProcInv, FanoutTypeOK
<1>2. ASSUME NEW i \in 1..Len(delivered[p]), NEW d, d = delivered[p][i] PROVE Entry(p, d)'
  <2>1. Entry(p, d)
    BY <1>1, <1>2 DEF Log
  <2>2. \A j \in 1..Len(inbox'[p]) : inbox'[p][j] # ACK => d.n < inbox'[p][j]
    BY <2>1 DEF Entry
  <2> QED BY <2>1, <2>2 DEF Entry
<1>3. InOrder(p)'
  BY <1>1 DEF Log, InOrder
<1> QED BY <1>2, <1>3 DEF Log

\* A step of its subscription keeps a process's part of the invariant.
LEMMA SubscriptionKeeps ==
    ASSUME Inv, NEW p \in Procs, SubscriptionStep(p)
    PROVE  (Shape(p) /\ Queue(p) /\ Log(p) /\ Complete(p))'
<1>i. Shape(p) /\ Queue(p) /\ Log(p) /\ Complete(p)
  BY DEF Inv, ProcInv
<1>t. /\ subscribed \in [Procs -> BOOLEAN] /\ subscription \in [Procs -> Nat] /\ loop \in [Procs -> LoopStates]
      /\ link \in [Procs -> LinkStates] /\ inbox \in [Procs -> Seq(Nat)] /\ inbox[p] \in Seq(Nat)
      /\ ackAt \in [Procs -> Nat] /\ Len(chan) \in Nat
  BY DEF Inv, FanoutTypeOK
<1>u. UNCHANGED <<chan, delivered, pcB, flight, owner, snap, relied>>
  BY DEF SubscriptionStep, Connect, Acknowledged, LoseSubscription, Reconnect, Stop, LoopCancelled,
         RedisSubscribe, LinkDies, callVars, redisVars, envVars, loopVars
<1>s. ASSUME UNCHANGED inbox[p] PROVE Log(p)'
  BY <1>s, <1>u, <1>t, LessWaits
<1>e. ASSUME inbox'[p] = << >> PROVE Log(p)'
  <2>1. Len(inbox'[p]) = 0
    BY <1>e
  <2> QED BY <1>u, <2>1, LessWaits
<1>1. CASE Connect(p)
  <2>1. /\ loop[p] = "connect" /\ loop'[p] = "awaitAck" /\ link'[p] = "requested"
        /\ UNCHANGED <<subscribed, inbox, ackAt>>
    BY <1>1, <1>t DEF Connect
  <2>2. Shape(p)'
    BY <1>i, <1>u, <2>1 DEF Shape
  <2>3. Queue(p)' /\ Complete(p)'
    BY <1>i, <1>u, <2>1 DEF Queue, Complete
  <2> QED BY <1>s, <2>1, <2>2, <2>3
<1>2. CASE Acknowledged(p)
  <2>1. /\ loop[p] = "awaitAck" /\ loop'[p] = "listen" /\ subscribed'[p] = TRUE /\ inbox[p] # << >>
        /\ Head(inbox[p]) = ACK /\ inbox'[p] = Tail(inbox[p]) /\ UNCHANGED <<link, ackAt>>
    BY <1>2, <1>t DEF Acknowledged
  <2>2. /\ inbox[p][1] = ACK /\ 1 \in 1..Len(inbox[p]) /\ Len(inbox'[p]) = Len(inbox[p]) - 1
        /\ \A i \in 1..Len(inbox'[p]) : inbox'[p][i] = inbox[p][i + 1] /\ i + 1 \in 1..Len(inbox[p])
        /\ \A i \in 1..Len(inbox[p]) : i # 1 => i - 1 \in 1..Len(inbox'[p]) /\ inbox'[p][i - 1] = inbox[p][i]
    BY <1>t, <2>1, TailFacts
  <2>3. Shape(p)'
    <3>1. link[p] \in {"live", "dead"}
      BY <1>i, <1>t, <2>1 DEF Shape, LinkStates
    <3> QED BY <1>i, <1>u, <2>1, <3>1 DEF Shape
  <2>4. Queue(p)'
    <3>1. \A i \in 1..Len(inbox'[p]) : inbox'[p][i] # ACK
      BY <1>i, <1>t, <2>2 DEF Queue
    <3>2. \A i \in 1..Len(inbox'[p]) : inbox'[p][i] <= Len(chan')
      BY <1>i, <1>u, <2>2 DEF Queue
    <3>3. ASSUME NEW i \in 1..Len(inbox'[p]), NEW j \in 1..Len(inbox'[p]), i < j
          PROVE  inbox'[p][i] < inbox'[p][j]
      <4>1. i + 1 \in 1..Len(inbox[p]) /\ j + 1 \in 1..Len(inbox[p]) /\ i + 1 < j + 1
        BY <2>2, <3>3
      <4> QED BY <1>i, <2>2, <4>1 DEF Queue
    <3> QED BY <3>1, <3>2, <3>3 DEF Queue
  <2>5. Log(p)'
    BY <1>u, <2>2, LessWaits
  <2>6. ASSUME NEW n \in Nat, n # ACK, WaitingFor(p, n) PROVE WaitingFor(p, n)'
    BY <2>2, <2>6 DEF WaitingFor
  <2>7. Complete(p)'
    <3>1. \A n \in (ackAt[p] + 1)..Len(chan) : n \in Nat /\ n # ACK
      BY <1>t DEF ACK
    <3>2. ASSUME link'[p] = "live", NEW n \in (ackAt'[p] + 1)..Len(chan'), chan'[n] # JUNK
          PROVE  ReceivedBy(p, n)' \/ WaitingFor(p, n)'
      <4>1. ReceivedBy(p, n) \/ WaitingFor(p, n)
        BY <1>i, <1>u, <2>1, <3>2 DEF Complete
      <4> QED BY <1>u, <2>1, <2>6, <3>1, <3>2, <4>1 DEF ReceivedBy
    <3> QED BY <3>2 DEF Complete
  <2> QED BY <2>3, <2>4, <2>5, <2>7
<1>3. CASE LoseSubscription(p)
  <2>1. /\ loop'[p] = "backoff" /\ subscribed'[p] = FALSE /\ UNCHANGED <<link, inbox, ackAt>>
    BY <1>3, <1>t DEF LoseSubscription, redisVars
  <2>2. Shape(p)' /\ Queue(p)' /\ Complete(p)'
    BY <1>i, <1>u, <2>1 DEF Shape, Queue, Complete
  <2> QED BY <1>s, <2>1, <2>2
<1>4. CASE Reconnect(p) \/ LoopCancelled(p)
  <2>1. /\ loop'[p] \in {"connect", "stopped"} /\ subscribed'[p] = FALSE /\ link'[p] = "none"
        /\ inbox'[p] = << >> /\ UNCHANGED ackAt
    BY <1>4, <1>t DEF Reconnect, LoopCancelled
  <2>2. Len(inbox'[p]) = 0
    BY <2>1
  <2>3. Shape(p)'
    BY <1>i, <1>u, <2>1 DEF Shape
  <2>4. Queue(p)' /\ Complete(p)'
    BY <2>1, <2>2 DEF Queue, Complete
  <2> QED BY <1>e, <2>1, <2>3, <2>4
<1>5. CASE Stop(p)
  BY <1>i, <1>u, <1>5, Untouched DEF Stop, redisVars
<1>6. CASE RedisSubscribe(p)
  <2>1. /\ link[p] = "requested" /\ link'[p] = "live" /\ inbox'[p] = <<ACK>> /\ ackAt'[p] = Len(chan)
        /\ UNCHANGED <<subscribed, loop>>
    BY <1>6, <1>t DEF RedisSubscribe, loopVars
  <2>2. Len(inbox'[p]) = 1 /\ inbox'[p][1] = ACK
    BY <2>1
  <2>3. Shape(p)'
    BY <1>i, <1>u, <1>t, <2>1 DEF Shape
  <2>4. loop[p] # "listen"
    BY <1>i, <2>1 DEF Shape
  <2>5. Queue(p)'
    <3>1. \A i \in 1..Len(inbox'[p]) : i = 1 /\ inbox'[p][i] = 0
      BY <2>2 DEF ACK
    <3> QED BY <1>t, <1>u, <2>1, <2>4, <3>1 DEF Queue
  <2>6. Log(p)'
    <3>1. \A i \in 1..Len(inbox'[p]) : inbox'[p][i] = ACK
      BY <2>2
    <3> QED BY <1>u, <3>1, LessWaits
  <2>7. Complete(p)'
    <3>1. (ackAt'[p] + 1)..Len(chan') = {}
      BY <1>t, <1>u, <2>1
    <3> QED BY <3>1 DEF Complete
  <2> QED BY <2>3, <2>5, <2>6, <2>7
<1>7. CASE LinkDies(p)
  <2>1. /\ link[p] \in {"requested", "live"} /\ link'[p] = "dead" /\ UNCHANGED <<subscribed, loop, inbox, ackAt>>
    BY <1>7, <1>t DEF LinkDies, loopVars
  <2>2. Shape(p)' /\ Complete(p)'
    BY <1>i, <1>u, <2>1 DEF Shape, Complete
  <2>3. Queue(p)'
    BY <1>i, <1>u, <2>1 DEF Queue
  <2> QED BY <1>s, <2>1, <2>2, <2>3
<1> QED BY <1>1, <1>2, <1>3, <1>4, <1>5, <1>6, <1>7 DEF SubscriptionStep

\* Receive: the head of the queue is the next message, and later than all before it.
LEMMA ReceiveKeeps ==
    ASSUME Inv, NEW p \in Procs, Receive(p)
    PROVE  FanoutTypeOK' /\ (Shape(p) /\ Queue(p) /\ Log(p) /\ Complete(p))'
<1>n. PICK n : n = Head(inbox[p])
  OBVIOUS
<1>d. PICK d : d = [b |-> chan[n], n |-> n, payload |-> TRUE]
  OBVIOUS
<1>i. Shape(p) /\ Queue(p) /\ Log(p) /\ Complete(p)
  BY DEF Inv, ProcInv
<1>t. inbox \in [Procs -> Seq(Nat)] /\ inbox[p] \in Seq(Nat) /\ Len(chan) \in Nat
      /\ delivered[p] \in Seq(Delivery) /\ ackAt[p] \in Nat
  BY DEF Inv, FanoutTypeOK
<1>1. /\ loop[p] = "listen" /\ inbox[p] # << >> /\ inbox'[p] = Tail(inbox[p])
      /\ UNCHANGED <<chan, loop, subscribed, link, ackAt, pcB, flight, owner>>
  BY <1>t DEF Receive, loopVars, callVars
<1>2. /\ inbox[p][1] = n /\ 1 \in 1..Len(inbox[p]) /\ Len(inbox'[p]) = Len(inbox[p]) - 1
      /\ \A i \in 1..Len(inbox'[p]) : inbox'[p][i] = inbox[p][i + 1] /\ i + 1 \in 1..Len(inbox[p])
      /\ \A i \in 1..Len(inbox[p]) : i # 1 => i - 1 \in 1..Len(inbox'[p]) /\ inbox'[p][i - 1] = inbox[p][i]
  BY <1>n, <1>t, <1>1, TailFacts
<1>3. n \in 1..Len(chan)
  <2>1. n \in Nat /\ n # ACK /\ n <= Len(chan)
    BY <1>n, <1>t, <1>i, <1>1, <1>2, TailFacts DEF Queue
  <2> QED BY <1>t, <2>1 DEF ACK
<1>4. /\ FanoutTypeOK'
      /\ \/ chan[n] = JUNK /\ UNCHANGED delivered
         \/ /\ chan[n] \in Broadcasts /\ d \in Delivery
            /\ delivered' = [delivered EXCEPT ![p] = Append(@, d)]
  BY <1>n, <1>d, <1>3, ReceiveTypes DEF Inv
<1>5. Shape(p)'
  BY <1>i, <1>1 DEF Shape
<1>later. \A i \in 1..Len(inbox'[p]) : n < inbox'[p][i] /\ inbox'[p][i] <= Len(chan)
  <2>1. ASSUME NEW i \in 1..Len(inbox'[p]) PROVE n < inbox'[p][i] /\ inbox'[p][i] <= Len(chan)
    <3>1. i + 1 \in 1..Len(inbox[p]) /\ 1 < i + 1 /\ inbox'[p][i] = inbox[p][i + 1]
      BY <1>2
    <3> QED BY <1>i, <1>2, <3>1 DEF Queue
  <2> QED BY <2>1
<1>6. Queue(p)'
  <2>1. ASSUME NEW i \in 1..Len(inbox'[p]), NEW j \in 1..Len(inbox'[p]), i < j
        PROVE  inbox'[p][i] < inbox'[p][j]
    <3>1. i + 1 \in 1..Len(inbox[p]) /\ j + 1 \in 1..Len(inbox[p]) /\ i + 1 < j + 1
      BY <1>2, <2>1
    <3> QED BY <1>i, <1>2, <3>1 DEF Queue
  <2>2. \A i \in 1..Len(inbox'[p]) : inbox'[p][i] # ACK
    BY <1>i, <1>1, <1>2 DEF Queue
  <2> QED BY <1>1, <1>later, <2>1, <2>2 DEF Queue
<1>7. ASSUME NEW i \in 1..Len(delivered[p]), NEW e, e = delivered[p][i] PROVE Entry(p, e)' /\ e.n < n
  <2>1. Entry(p, e)
    BY <1>i, <1>7 DEF Log
  <2>2. \A j \in 1..Len(inbox'[p]) : inbox'[p][j] # ACK => e.n < inbox'[p][j]
    BY <1>2, <2>1 DEF Entry
  <2>3. e.n < n
    BY <1>i, <1>1, <1>2, <2>1 DEF Entry, Queue
  <2> QED BY <1>1, <2>1, <2>2, <2>3 DEF Entry
<1>8. chan[n] # JUNK => Entry(p, d)'
  <2>1. d.n = n /\ d.b = chan[n] /\ n # Direct
    BY <1>3, <1>d DEF Direct
  <2>2. \A j \in 1..Len(inbox'[p]) : d.n < inbox'[p][j]
    BY <1>later, <2>1
  <2> QED BY <1>1, <1>3, <2>1, <2>2 DEF Entry
<1>9. Log(p)' /\ \A k : ReceivedBy(p, k) => ReceivedBy(p, k)'
  <2>1. CASE UNCHANGED delivered
    BY <1>i, <1>7, <2>1 DEF Log, InOrder, ReceivedBy
  <2>2. CASE chan[n] # JUNK /\ d \in Delivery /\ delivered' = [delivered EXCEPT ![p] = Append(@, d)]
    <3>k. PICK k : k = Len(delivered[p])
      OBVIOUS
    <3>1. /\ Len(delivered'[p]) = k + 1 /\ delivered'[p][k + 1] = d /\ d.n = n /\ k \in Nat
          /\ \A i \in 1..k : delivered'[p][i] = delivered[p][i]
      <4>1. d.n = n /\ k \in Nat
        BY <1>d, <1>t, <3>k
      <4> QED BY <2>2, <3>k, <4>1, DeliveredTypes DEF Inv
    <3>2. \A i \in 1..(k + 1) : i \in 1..k \/ i = k + 1
      BY <3>1
    <3>3. ASSUME NEW i \in 1..(k + 1), NEW e, e = delivered'[p][i] PROVE Entry(p, e)'
      <4>1. CASE i \in 1..k
        <5>1. i \in 1..Len(delivered[p]) /\ e = delivered[p][i]
          BY <3>1, <3>3, <3>k, <4>1
        <5> QED BY <1>7, <5>1
      <4>2. CASE i = k + 1
        BY <1>8, <2>2, <3>1, <3>3, <4>2
      <4> QED BY <3>2, <4>1, <4>2
    <3>4. InOrder(p)'
      <4>1. ASSUME NEW i \in 1..(k + 1), NEW j \in 1..(k + 1), i < j,
                   delivered'[p][i].n # Direct, delivered'[p][j].n # Direct
            PROVE  delivered'[p][i].n < delivered'[p][j].n
        <5>1. i \in 1..k /\ delivered'[p][i] = delivered[p][i] /\ i \in 1..Len(delivered[p])
          BY <3>1, <3>k, <4>1
        <5>2. CASE j \in 1..k
          BY <1>i, <3>1, <3>k, <4>1, <5>1, <5>2 DEF Log, InOrder
        <5>3. CASE j = k + 1
          BY <1>7, <3>1, <5>1, <5>3
        <5> QED BY <3>2, <5>2, <5>3
      <4> QED BY <3>1, <4>1 DEF InOrder
    <3>5. ASSUME NEW m, ReceivedBy(p, m) PROVE ReceivedBy(p, m)'
      <4>1. PICK i \in 1..k : delivered[p][i].n = m
        BY <3>5, <3>k DEF ReceivedBy
      <4>2. i \in 1..(k + 1) /\ delivered'[p][i].n = m
        BY <3>1, <4>1
      <4> QED BY <3>1, <4>2 DEF ReceivedBy
    <3> QED BY <3>1, <3>3, <3>4, <3>5 DEF Log
  <2> QED BY <1>4, <2>1, <2>2, FanoutAssumption
<1>10. Complete(p)'
  <2>1. ASSUME link'[p] = "live", NEW m \in (ackAt'[p] + 1)..Len(chan'), chan'[m] # JUNK
        PROVE  ReceivedBy(p, m)' \/ WaitingFor(p, m)'
    <3>1. ReceivedBy(p, m) \/ WaitingFor(p, m)
      BY <1>i, <1>1, <2>1 DEF Complete
    <3>2. CASE WaitingFor(p, m) /\ m # n
      BY <1>2, <3>2 DEF WaitingFor
    <3>3. CASE m = n
      <4>1. d \in Delivery /\ delivered' = [delivered EXCEPT ![p] = Append(@, d)] /\ d.n = n
        BY <1>1, <1>4, <1>d, <2>1, <3>3
      <4>2. Len(delivered'[p]) = Len(delivered[p]) + 1 /\ delivered'[p][Len(delivered[p]) + 1] = d
        BY <4>1, DeliveredTypes DEF Inv
      <4>3. Len(delivered[p]) + 1 \in 1..Len(delivered'[p])
        BY <1>t, <4>2
      <4> QED BY <3>3, <4>1, <4>2, <4>3 DEF ReceivedBy
    <3> QED BY <1>9, <3>1, <3>2, <3>3
  <2> QED BY <2>1 DEF Complete
<1> QED BY <1>4, <1>5, <1>6, <1>9, <1>10

-----------------------------------------------------------------------------
\* A call that ended and never published stays one.
NeverSent(b) == pcB[b] = "done" /\ flight[b] = "none" /\ owner[b] # NoProc

\* Redis appends a message: it waits in the live connections, after the others.
LEMMA ChannelKeeps ==
    ASSUME Inv, ChannelStep, NEW p \in Procs
    PROVE  (Shape(p) /\ Queue(p) /\ Log(p) /\ Complete(p))'
<1>i. Shape(p) /\ Queue(p) /\ Log(p) /\ Complete(p)
  BY DEF Inv, ProcInv
<1>t. /\ inbox[p] \in Seq(Nat) /\ Len(chan) \in Nat /\ ackAt[p] \in Nat
      /\ link \in [Procs -> LinkStates] /\ delivered[p] \in Seq(Delivery)
  BY DEF Inv, FanoutTypeOK
<1>1. UNCHANGED <<subscribed, loop, link, ackAt, delivered>>
  BY DEF ChannelStep, ForeignPublish, RedisPublish, FleetPublish, loopVars
<1>2. /\ Len(chan') = Len(chan) + 1 /\ \A n \in 1..Len(chan) : chan'[n] = chan[n]
      /\ inbox'[p] = IF link[p] = "live" THEN Append(inbox[p], Len(chan) + 1) ELSE inbox[p]
  BY ChannelTypes DEF Inv
<1>3. \A b \in Broadcasts : NeverSent(b) => NeverSent(b)'
  BY DEF Inv, FanoutTypeOK, NeverSent, ChannelStep, ForeignPublish, RedisPublish, FleetPublish, callVars
<1>4. \/ inbox'[p] = inbox[p] /\ link[p] # "live"
      \/ /\ link[p] = "live" /\ Len(inbox'[p]) = Len(inbox[p]) + 1
         /\ inbox'[p][Len(inbox[p]) + 1] = Len(chan) + 1
         /\ \A i \in 1..Len(inbox[p]) : inbox'[p][i] = inbox[p][i]
  <2>1. Len(chan) + 1 \in Nat
    BY <1>t
  <2> QED BY <1>t, <1>2, <2>1, AppendFacts
<1>5. /\ \A i \in 1..Len(inbox[p]) : i \in 1..Len(inbox'[p]) /\ inbox'[p][i] = inbox[p][i]
      /\ \A i \in 1..Len(inbox'[p]) : \/ i \in 1..Len(inbox[p])
                                      \/ i = Len(inbox[p]) + 1 /\ inbox'[p][i] = Len(chan) + 1
  BY <1>t, <1>4
<1>6. Shape(p)'
  <2>1. ackAt[p] <= Len(chan) + 1
    BY <1>i, <1>t DEF Shape
  <2>2. link[p] \in {"none", "requested"} => inbox'[p] = << >>
    BY <1>i, <1>4 DEF Shape
  <2> QED BY <1>i, <1>1, <1>2, <2>1, <2>2 DEF Shape
<1>7. Queue(p)'
  <2>1. \A i \in 1..Len(inbox'[p]) : inbox'[p][i] <= Len(chan')
    BY <1>i, <1>t, <1>2, <1>5 DEF Queue
  <2>2. \A i \in 1..Len(inbox'[p]) : loop'[p] = "listen" => inbox'[p][i] # ACK
    BY SMTT(30), <1>i, <1>t, <1>1, <1>5 DEF Queue, ACK
  <2>3. ASSUME NEW i \in 1..Len(inbox'[p]), NEW j \in 1..Len(inbox'[p]), i < j
        PROVE  inbox'[p][i] < inbox'[p][j]
    <3>1. i \in 1..Len(inbox[p]) /\ inbox[p][i] \in Nat /\ inbox'[p][i] = inbox[p][i]
      BY SMTT(30), <1>t, <1>4, <1>5, <2>3
    <3>2. CASE j \in 1..Len(inbox[p])
      BY <1>i, <1>5, <2>3, <3>1, <3>2 DEF Queue
    <3>3. CASE inbox'[p][j] = Len(chan) + 1
      BY <1>i, <1>t, <3>1, <3>3 DEF Queue
    <3> QED BY <1>5, <3>2, <3>3
  <2> QED BY <2>1, <2>2, <2>3 DEF Queue
<1>8. Log(p)'
  <2>1. ASSUME NEW i \in 1..Len(delivered[p]), NEW d, d = delivered[p][i] PROVE Entry(p, d)'
    <3>1. Entry(p, d) /\ d \in Delivery
      BY <1>i, <1>t, <2>1 DEF Log
    <3>2. d.n \in Nat /\ d.b \in Broadcasts
      BY <3>1 DEF Delivery
    <3>3. d.n # Direct => chan'[d.n] = d.b
      BY <1>2, <3>1, <3>2 DEF Entry, Direct
    <3>4. d.n <= Len(chan') /\ \A j \in 1..Len(inbox'[p]) : inbox'[p][j] # ACK => d.n < inbox'[p][j]
      BY <1>t, <1>2, <1>5, <3>1, <3>2 DEF Entry
    <3>5. d.payload /\ d.b \in Refetch /\ d.n = Direct => NeverSent(d.b)'
      BY <1>3, <3>1, <3>2 DEF Entry, NeverSent
    <3> QED BY <3>3, <3>4, <3>5 DEF Entry, NeverSent
  <2>2. InOrder(p)'
    BY <1>i, <1>1 DEF Log, InOrder
  <2> QED BY <1>1, <2>1, <2>2 DEF Log
<1>9. Complete(p)'
  <2>1. ASSUME link[p] = "live", loop[p] \in {"awaitAck", "listen"},
               NEW n \in (ackAt[p] + 1)..(Len(chan) + 1), chan'[n] # JUNK
        PROVE  ReceivedBy(p, n)' \/ WaitingFor(p, n)'
    <3>1. CASE n = Len(chan) + 1
      <4>1. inbox'[p][Len(inbox[p]) + 1] = n /\ Len(inbox[p]) + 1 \in 1..Len(inbox'[p])
        BY <1>t, <1>4, <2>1, <3>1
      <4> QED BY <4>1 DEF WaitingFor
    <3>2. CASE n # Len(chan) + 1
      <4>1. n \in (ackAt[p] + 1)..Len(chan) /\ n \in 1..Len(chan)
        BY <1>t, <3>2
      <4>2. ReceivedBy(p, n) \/ WaitingFor(p, n)
        BY <1>i, <1>2, <2>1, <4>1 DEF Complete
      <4> QED BY <1>1, <1>5, <4>2 DEF ReceivedBy, WaitingFor
    <3> QED BY <3>1, <3>2
  <2> QED BY <1>1, <1>2, <2>1 DEF Complete
<1> QED BY <1>6, <1>7, <1>8, <1>9

\* A call that ends without the channel tells its own streams, or relies on
\* the channel.
LEMMA DirectEffects ==
    ASSUME Inv, NEW b \in Broadcasts, DirectStep(b)
    PROVE  /\ FanoutTypeOK' /\ UNCHANGED <<loopVars, redisVars, snap, flight, ackAt>>
           /\ pcB' = [pcB EXCEPT ![b] = "done"] /\ pcB[b] # "done"
           /\ \A c \in Broadcasts : c # b => owner'[c] = owner[c] /\ relied'[c] = relied[c]
           /\ \E p \in Procs :
                /\ owner'[b] = p /\ (owner[b] = p \/ snap[b] = None)
                /\ \/ /\ UNCHANGED <<delivered, owner>> /\ relied'[b] = snap[b] /\ snap[b] # None
                      /\ flight[b] = "landed"
                   \/ /\ UNCHANGED relied
                      /\ \E d : Told(p, b, d) /\ (d.payload /\ d.b \in Refetch => flight[b] = "none")
<1>t. FanoutTypeOK /\ CallShape(b)
  BY DEF Inv, CallInv
<1>1. ASSUME NEW p \in Procs, BroadcastLocal(p, b)
      PROVE  /\ FanoutTypeOK' /\ UNCHANGED <<loopVars, redisVars, snap, flight, ackAt, relied>>
             /\ pcB' = [pcB EXCEPT ![b] = "done"] /\ pcB[b] # "done"
             /\ owner' = [owner EXCEPT ![b] = p] /\ flight[b] = "none" /\ snap[b] = None
             /\ \E d : Told(p, b, d)
  BY <1>1, <1>t, LocalTypes DEF BroadcastLocal, CallShape
<1>2. ASSUME PublishAnswered(b) \/ PublishFails(b), NEW p, p = owner[b]
      PROVE  /\ p \in Procs /\ FanoutTypeOK' /\ UNCHANGED <<loopVars, redisVars, snap, flight, ackAt, owner>>
             /\ pcB' = [pcB EXCEPT ![b] = "done"] /\ pcB[b] # "done"
             /\ \/ /\ UNCHANGED delivered /\ relied' = [relied EXCEPT ![b] = snap[b]] /\ snap[b] # None
                   /\ flight[b] = "landed"
                \/ UNCHANGED relied /\ \E d : Told(p, b, d) /\ (d.payload => b \notin Refetch)
  <2>1. p \in Procs
    BY <1>2, <1>t DEF CallShape, PublishAnswered, PublishFails
  <2>2. /\ UNCHANGED <<loopVars, redisVars, snap, flight, ackAt, owner, envVars>>
        /\ pcB' = [pcB EXCEPT ![b] = "done"] /\ pcB[b] # "done"
        /\ publisher' = publisher \/ publisher' = [publisher EXCEPT ![p] = FALSE]
    BY <1>2 DEF PublishAnswered, PublishFails
  <2>3. \/ /\ UNCHANGED delivered /\ relied' = [relied EXCEPT ![b] = snap[b]] /\ snap[b] # None
           /\ flight[b] = "landed"
        \/ UNCHANGED relied /\ Fallback(p, b)
    BY <1>2 DEF PublishAnswered, PublishFails, SubscriptionHeld
  <2>4. delivered' \in [Procs -> Seq(Delivery)] /\ relied' \in [Broadcasts -> Nat]
    BY <1>t, <2>1, <2>3, FallbackTypes DEF FanoutTypeOK
  <2>5. FanoutTypeOK'
    BY <1>t, <2>2, <2>4 DEF FanoutTypeOK, loopVars, redisVars, envVars
  <2> QED BY <1>t, <2>1, <2>2, <2>3, <2>5, FallbackTypes
<1>3. CASE \E p \in Procs : BroadcastLocal(p, b)
  <2>1. PICK p \in Procs : BroadcastLocal(p, b)
    BY <1>3
  <2>2. owner'[b] = p /\ \A c \in Broadcasts : c # b => owner'[c] = owner[c]
    BY <1>t, <1>1, <2>1 DEF FanoutTypeOK
  <2>3. ASSUME NEW d, Told(p, b, d)
        PROVE  Told(p, b, d) /\ (d.payload /\ d.b \in Refetch => flight[b] = "none")
    BY <1>1, <2>1, <2>3
  <2> QED BY <1>1, <2>1, <2>2, <2>3
<1>4. CASE PublishAnswered(b) \/ PublishFails(b)
  <2>1. PICK p : p = owner[b]
    OBVIOUS
  <2>2. \A c \in Broadcasts : c # b => owner'[c] = owner[c] /\ relied'[c] = relied[c]
    BY <1>t, <1>2, <1>4, <2>1 DEF FanoutTypeOK
  <2>3. ASSUME NEW d, Told(p, b, d), d.payload => b \notin Refetch
        PROVE  Told(p, b, d) /\ (d.payload /\ d.b \in Refetch => flight[b] = "none")
    BY <2>3 DEF Told
  <2>4. relied' = [relied EXCEPT ![b] = snap[b]] => relied'[b] = snap[b]
    BY <1>t DEF FanoutTypeOK
  <2> QED BY <1>2, <1>4, <2>1, <2>2, <2>3, <2>4
<1> QED BY <1>3, <1>4 DEF DirectStep

\* A call that begins is none of the calls that ended.
LEMMA BeginKeeps ==
    ASSUME Inv, NEW q \in Procs, NEW b \in Broadcasts, BroadcastBegin(q, b), NEW p \in Procs
    PROVE  (Shape(p) /\ Queue(p) /\ Log(p) /\ Complete(p))'
<1>i. Shape(p) /\ Queue(p) /\ Log(p) /\ Complete(p) /\ FanoutTypeOK
  BY DEF Inv, ProcInv
<1>1. UNCHANGED <<chan, subscribed, loop, link, inbox, ackAt, delivered>>
  BY DEF BroadcastBegin, loopVars, redisVars
<1>2. \A c \in Broadcasts : NeverSent(c) => NeverSent(c)'
  BY <1>i DEF BroadcastBegin, FanoutTypeOK, NeverSent
<1>3. Shape(p)' /\ Queue(p)' /\ Complete(p)'
  <2>1. Shape(p)' /\ Queue(p)'
    BY <1>i, <1>1 DEF Shape, Queue
  <2>2. Complete(p)'
    BY <1>i, <1>1 DEF Complete, ReceivedBy, WaitingFor
  <2> QED BY <2>1, <2>2
<1>4. ASSUME NEW i \in 1..Len(delivered[p]), NEW d, d = delivered[p][i] PROVE Entry(p, d)'
  <2>1. Entry(p, d)
    BY <1>i, <1>4 DEF Log
  <2>2. d.b \in Refetch => d.b \in Broadcasts
    BY FanoutAssumption
  <2> QED BY <1>1, <1>2, <2>1, <2>2 DEF Entry, NeverSent
<1>5. Log(p)'
  BY <1>i, <1>1, <1>4 DEF Log, InOrder
<1> QED BY <1>3, <1>5

\* A direct delivery is told apart from the channel's: it carries no number.
LEMMA DirectKeeps ==
    ASSUME Inv, NEW b \in Broadcasts, DirectStep(b), NEW p \in Procs
    PROVE  (Shape(p) /\ Queue(p) /\ Log(p) /\ Complete(p))'
<1>i. Shape(p) /\ Queue(p) /\ Log(p) /\ Complete(p) /\ FanoutTypeOK
  BY DEF Inv, ProcInv
<1>t. inbox[p] \in Seq(Nat) /\ Len(chan) \in Nat /\ delivered[p] \in Seq(Delivery)
  BY <1>i DEF FanoutTypeOK
<1>1. UNCHANGED <<chan, subscribed, loop, link, inbox, ackAt, flight>>
  BY DirectEffects DEF loopVars, redisVars
<1>2. PICK q \in Procs :
        /\ owner'[b] = q
        /\ UNCHANGED delivered \/ \E d : Told(q, b, d) /\ (d.payload /\ d.b \in Refetch => flight[b] = "none")
  BY DirectEffects
<1>3. \A c \in Broadcasts : NeverSent(c) => NeverSent(c)'
  BY <1>i, DirectEffects DEF NeverSent, FanoutTypeOK
<1>4. \/ UNCHANGED delivered[p]
      \/ \E d \in Delivery :
           /\ d.n = Direct /\ (d.payload /\ d.b \in Refetch => NeverSent(d.b)')
           /\ Len(delivered'[p]) = Len(delivered[p]) + 1 /\ delivered'[p][Len(delivered[p]) + 1] = d
           /\ \A i \in 1..Len(delivered[p]) : delivered'[p][i] = delivered[p][i]
  <2>1. CASE UNCHANGED delivered
    BY <2>1
  <2>2. CASE \E d : Told(q, b, d) /\ (d.payload /\ d.b \in Refetch => flight[b] = "none")
    <3>1. PICK d : Told(q, b, d) /\ (d.payload /\ d.b \in Refetch => flight[b] = "none")
      BY <2>2
    <3>2. d \in Delivery /\ d.b = b /\ d.n = Direct /\ delivered' = [delivered EXCEPT ![q] = Append(@, d)]
      BY <3>1 DEF Told
    <3>3. pcB'[b] = "done" /\ owner'[b] # NoProc /\ flight' = flight
      BY <1>i, <1>2, DirectEffects, FanoutAssumption DEF FanoutTypeOK
    <3>4. d.payload /\ d.b \in Refetch => NeverSent(d.b)'
      <4>1. flight[b] = "none" => NeverSent(b)'
        BY <3>3 DEF NeverSent
      <4> QED BY <3>1, <3>2, <4>1 DEF NeverSent
    <3> QED BY <1>i, <3>2, <3>4, DeliveredTypes
  <2> QED BY <1>2, <2>1, <2>2
<1>5. Shape(p)' /\ Queue(p)'
  BY <1>i, <1>1 DEF Shape, Queue
<1>6. ASSUME NEW d \in Delivery, Entry(p, d) \/ (d.n = Direct /\ (d.payload /\ d.b \in Refetch => NeverSent(d.b)'))
      PROVE  Entry(p, d)'
  <2>1. CASE Entry(p, d)
    <3>1. d.b \in Broadcasts
      BY DEF Delivery
    <3> QED BY <1>1, <1>3, <2>1, <3>1 DEF Entry, NeverSent
  <2>2. CASE d.n = Direct /\ (d.payload /\ d.b \in Refetch => NeverSent(d.b)')
    <3>1. \A j \in 1..Len(inbox[p]) : inbox[p][j] # ACK => 0 < inbox[p][j]
      BY <1>t DEF ACK
    <3>2. d.n <= Len(chan) /\ d.n = 0
      BY <1>t, <2>2 DEF Direct
    <3> QED BY <1>1, <2>2, <3>1, <3>2 DEF Entry, NeverSent
  <2> QED BY <1>6, <2>1, <2>2
<1>7. Log(p)' /\ Complete(p)'
  <2>1. CASE UNCHANGED delivered[p]
    <3>1. ASSUME NEW i \in 1..Len(delivered[p]), NEW d, d = delivered[p][i] PROVE Entry(p, d)'
      BY <1>i, <1>t, <1>6, <3>1 DEF Log
    <3>2. Log(p)'
      BY <1>i, <2>1, <3>1 DEF Log, InOrder
    <3>3. Complete(p)'
      BY <1>i, <1>1, <2>1 DEF Complete, ReceivedBy, WaitingFor
    <3> QED BY <3>2, <3>3
  <2>2. CASE ~UNCHANGED delivered[p]
    <3>1. PICK d \in Delivery :
           /\ d.n = Direct /\ (d.payload /\ d.b \in Refetch => NeverSent(d.b)')
           /\ Len(delivered'[p]) = Len(delivered[p]) + 1 /\ delivered'[p][Len(delivered[p]) + 1] = d
           /\ \A i \in 1..Len(delivered[p]) : delivered'[p][i] = delivered[p][i]
      BY <1>4, <2>2
    <3>2. \A i \in 1..Len(delivered'[p]) : \/ i \in 1..Len(delivered[p]) /\ delivered'[p][i] = delivered[p][i]
                                           \/ delivered'[p][i] = d
      BY <1>t, <3>1
    <3>3. ASSUME NEW i \in 1..Len(delivered'[p]), NEW e, e = delivered'[p][i] PROVE Entry(p, e)'
      <4>1. CASE e = d
        BY <1>6, <3>1, <4>1
      <4>2. CASE i \in 1..Len(delivered[p]) /\ e = delivered[p][i]
        BY <1>i, <1>t, <1>6, <4>2 DEF Log
      <4> QED BY <3>2, <3>3, <4>1, <4>2
    <3>4. InOrder(p)'
      <4>1. ASSUME NEW i \in 1..Len(delivered'[p]), NEW j \in 1..Len(delivered'[p]), i < j,
                   delivered'[p][i].n # Direct, delivered'[p][j].n # Direct
            PROVE  delivered'[p][i].n < delivered'[p][j].n
        <5>1. /\ i \in 1..Len(delivered[p]) /\ delivered'[p][i] = delivered[p][i]
              /\ j \in 1..Len(delivered[p]) /\ delivered'[p][j] = delivered[p][j]
          BY <3>1, <3>2, <4>1
        <5> QED BY <1>i, <4>1, <5>1 DEF Log, InOrder
      <4> QED BY <4>1 DEF InOrder
    <3>5. ASSUME NEW m, ReceivedBy(p, m) PROVE ReceivedBy(p, m)'
      <4>1. PICK i \in 1..Len(delivered[p]) : delivered[p][i].n = m
        BY <3>5 DEF ReceivedBy
      <4>2. i \in 1..Len(delivered'[p]) /\ delivered'[p][i].n = m
        BY <1>t, <3>1, <4>1
      <4> QED BY <4>2 DEF ReceivedBy
    <3>6. Complete(p)'
      BY <1>i, <1>1, <3>5 DEF Complete, WaitingFor
    <3> QED BY <3>3, <3>4, <3>6 DEF Log
  <2> QED BY <2>1, <2>2
<1> QED BY <1>5, <1>7

-----------------------------------------------------------------------------
\* The streams of p were told of b.
Heard(p, b) == \E i \in 1..Len(delivered[p]) : delivered[p][i].b = b

\* What was told stays told.
LEMMA HeardStays ==
    ASSUME FanoutTypeOK, NEW q \in Procs, NEW b, NEW p \in Procs, Heard(p, b),
           UNCHANGED delivered \/ \E d \in Delivery : delivered' = [delivered EXCEPT ![q] = Append(@, d)]
    PROVE  Heard(p, b)'
<1>1. PICK i \in 1..Len(delivered[p]) : delivered[p][i].b = b
  BY DEF Heard
<1>2. CASE UNCHANGED delivered
  BY <1>1, <1>2 DEF Heard
<1>3. CASE \E d \in Delivery : delivered' = [delivered EXCEPT ![q] = Append(@, d)]
  <2>1. PICK d \in Delivery : delivered' = [delivered EXCEPT ![q] = Append(@, d)]
    BY <1>3
  <2>2. CASE p = q
    <3>1. /\ Len(delivered'[p]) = Len(delivered[p]) + 1
          /\ \A k \in 1..Len(delivered[p]) : delivered'[p][k] = delivered[p][k]
      BY <2>1, <2>2, DeliveredTypes
    <3>2. i \in 1..Len(delivered'[p]) /\ delivered'[p][i].b = b
      BY <1>1, <3>1
    <3> QED BY <3>2 DEF Heard
  <2>3. CASE p # q
    <3>1. delivered'[p] = delivered[p]
      BY <2>1, <2>3, DeliveredTypes
    <3> QED BY <1>1, <3>1 DEF Heard
  <2> QED BY <2>2, <2>3
<1> QED BY <1>2, <1>3

\* A call that a step does not touch, while its process hears more and the
\* channel stays as it is.
LEMMA CallUntouched ==
    ASSUME NEW b \in Broadcasts, CallShape(b), Once(b), Answered(b), Covered(b)',
           UNCHANGED <<chan, pcB[b], owner[b], flight[b], snap[b], relied[b]>>,
           owner[b] \in Procs \cup {NoProc},
           \A p \in Procs : Heard(p, b) => Heard(p, b)'
    PROVE  (CallShape(b) /\ Once(b) /\ Covered(b) /\ Answered(b))'
<1>1. CallShape(b)'
  BY DEF CallShape
<1>2. Once(b)'
  BY DEF Once
<1>3. Answered(b)'
  BY DEF Answered, Heard
<1> QED BY <1>1, <1>2, <1>3

\* A subscription that is lost is never taken for the one a call relied on.
LEMMA SubscriptionCovers ==
    ASSUME Inv, NEW p \in Procs, SubscriptionStep(p), NEW b \in Broadcasts
    PROVE  Covered(b)'
<1>t. /\ subscribed \in [Procs -> BOOLEAN] /\ subscription \in [Procs -> Nat] /\ ackAt \in [Procs -> Nat]
      /\ snap[b] \in Nat /\ loop \in [Procs -> LoopStates] /\ link \in [Procs -> LinkStates]
  BY DEF Inv, FanoutTypeOK
<1>i. Covered(b) /\ Shape(p)
  BY DEF Inv, CallInv, ProcInv
<1>u. UNCHANGED <<chan, owner, flight, snap>>
  BY DEF SubscriptionStep, Connect, Acknowledged, LoseSubscription, Reconnect, Stop, LoopCancelled,
         RedisSubscribe, LinkDies, callVars, redisVars, envVars, loopVars
<1>1. \A q \in Procs : q # p => /\ subscribed'[q] = subscribed[q] /\ subscription'[q] = subscription[q]
                                /\ ackAt'[q] = ackAt[q]
  BY <1>t DEF SubscriptionStep, Connect, Acknowledged, LoseSubscription, Reconnect, Stop,
     LoopCancelled, RedisSubscribe, LinkDies, callVars, redisVars, envVars, loopVars
<1>2. \/ subscription'[p] = subscription[p] /\ ackAt'[p] = ackAt[p] /\ (subscribed'[p] => subscribed[p])
      \/ subscription'[p] = subscription[p] + 1
      \/ subscription'[p] = subscription[p] /\ ~subscribed'[p]
  <2>1. CASE Connect(p) \/ LoseSubscription(p) \/ Reconnect(p) \/ Stop(p) \/ LoopCancelled(p) \/ LinkDies(p)
    BY <1>t, <2>1 DEF Connect, LoseSubscription, Reconnect, Stop, LoopCancelled, LinkDies, loopVars, redisVars
  <2>2. CASE Acknowledged(p)
    BY <1>t, <2>2 DEF Acknowledged
  <2>3. CASE RedisSubscribe(p)
    <3>1. loop[p] # "listen"
      BY <1>i, <2>3 DEF Shape, RedisSubscribe
    <3>2. ~subscribed[p]
      BY <1>i, <3>1 DEF Shape
    <3> QED BY <2>3, <3>2 DEF RedisSubscribe, loopVars
  <2> QED BY <2>1, <2>2, <2>3 DEF SubscriptionStep
<1>3. CASE owner[b] = p
  <2>1. snap[b] <= subscription[p]
    BY <1>i, <1>3 DEF Covered
  <2>2. snap[b] <= subscription'[p] /\ (subscription'[p] = subscription[p] + 1 => subscription'[p] # snap[b])
    BY <1>t, <1>2, <2>1
  <2>3. flight[b] = "landed" /\ snap[b] # None /\ subscribed'[p] /\ subscription'[p] = snap[b] =>
             \E n \in (ackAt'[p] + 1)..Len(chan) : chan[n] = b
    BY <1>i, <1>2, <1>3, <2>2 DEF Covered
  <2> QED BY <1>u, <1>3, <2>2, <2>3 DEF Covered
<1>4. CASE owner[b] # p
  BY <1>i, <1>u, <1>1, <1>4 DEF Covered
<1> QED BY <1>3, <1>4

\* The calls under each kind of step.
LEMMA SubscriptionCalls ==
    ASSUME Inv, NEW p \in Procs, SubscriptionStep(p) \/ Receive(p), NEW b \in Broadcasts
    PROVE  (CallShape(b) /\ Once(b) /\ Covered(b) /\ Answered(b))'
<1>i. CallShape(b) /\ Once(b) /\ Covered(b) /\ Answered(b) /\ FanoutTypeOK
  BY DEF Inv, CallInv
<1>o. owner[b] \in Procs \cup {NoProc}
  BY <1>i DEF FanoutTypeOK
<1>1. CASE SubscriptionStep(p)
  <2>1. UNCHANGED <<chan, pcB, owner, flight, snap, relied, delivered>>
    BY <1>1 DEF SubscriptionStep, Connect, Acknowledged, LoseSubscription, Reconnect, Stop,
       LoopCancelled, RedisSubscribe, LinkDies, callVars, redisVars, envVars, loopVars
  <2>2. \A q \in Procs : Heard(q, b) => Heard(q, b)'
    BY <2>1 DEF Heard
  <2>3. Covered(b)'
    BY <1>1, SubscriptionCovers
  <2> QED BY <1>i, <1>o, <2>1, <2>2, <2>3, CallUntouched
<1>2. CASE Receive(p)
  <2>1. UNCHANGED <<chan, pcB, owner, flight, snap, relied, subscribed, subscription, ackAt>>
    BY <1>2 DEF Receive, loopVars, callVars
  <2>2. Head(inbox[p]) \in 1..Len(chan)
    <3>1. inbox[p] \in Seq(Nat) /\ inbox[p] # << >> /\ loop[p] = "listen" /\ Queue(p)
      BY <1>2 DEF Receive, Inv, ProcInv, FanoutTypeOK
    <3>2. Head(inbox[p]) = inbox[p][1] /\ 1 \in 1..Len(inbox[p]) /\ Head(inbox[p]) \in Nat
      BY <3>1, TailFacts
    <3>3. Head(inbox[p]) # 0 /\ Head(inbox[p]) <= Len(chan) /\ Len(chan) \in Nat
      BY <1>i, <3>1, <3>2 DEF Queue, FanoutTypeOK, ACK
    <3> QED BY <3>2, <3>3
  <2>3. UNCHANGED delivered \/ \E d \in Delivery : delivered' = [delivered EXCEPT ![p] = Append(@, d)]
    BY <1>i, <1>2, <2>2, ReceiveTypes
  <2>4. \A q \in Procs : Heard(q, b) => Heard(q, b)'
    BY <1>i, <2>3, HeardStays
  <2>5. Covered(b)'
    BY <1>i, <2>1 DEF Covered
  <2> QED BY <1>i, <1>o, <2>1, <2>4, <2>5, CallUntouched
<1> QED BY <1>1, <1>2

\* Beginning a broadcast keeps the account of every broadcast.
LEMMA BeginCalls ==
    ASSUME Inv, NEW q \in Procs, NEW c \in Broadcasts, BroadcastBegin(q, c), NEW b \in Broadcasts
    PROVE  (CallShape(b) /\ Once(b) /\ Covered(b) /\ Answered(b))'
<1>i. CallShape(b) /\ Once(b) /\ Covered(b) /\ Answered(b) /\ FanoutTypeOK
  BY DEF Inv, CallInv
<1>u. UNCHANGED <<chan, subscribed, subscription, ackAt, delivered, relied>>
  BY DEF BroadcastBegin, loopVars, redisVars
<1>1. CASE b = c
  <2>1. /\ pcB[b] = "idle" /\ pcB'[b] = "publishing" /\ owner'[b] = q /\ flight'[b] = "sent"
        /\ snap'[b] = IF subscribed[q] THEN subscription[q] ELSE None
    BY <1>1, <1>i DEF BroadcastBegin, FanoutTypeOK
  <2>2. CallShape(b)'
    BY <1>i, <1>u, <2>1 DEF CallShape
  <2>3. Once(b)'
    BY <1>i, <1>u, <2>1 DEF Once, CallShape
  <2>4. Covered(b)'
    <3>1. subscription[q] \in Nat
      BY <1>i DEF FanoutTypeOK
    <3>2. snap'[b] <= subscription[q]
      BY <2>1, <3>1 DEF None
    <3> QED BY <1>u, <2>1, <3>2 DEF Covered
  <2>5. Answered(b)'
    BY <2>1 DEF Answered
  <2> QED BY <2>2, <2>3, <2>4, <2>5
<1>2. CASE b # c
  <2>1. UNCHANGED <<pcB[b], owner[b], flight[b], snap[b], relied[b]>> /\ owner[b] \in Procs \cup {NoProc}
    BY <1>2, <1>i DEF BroadcastBegin, FanoutTypeOK
  <2>2. Covered(b)'
    BY <1>i, <1>u, <2>1 DEF Covered
  <2>3. \A p \in Procs : Heard(p, b) => Heard(p, b)'
    BY <1>u DEF Heard
  <2> QED BY <1>i, <1>u, <2>1, <2>2, <2>3, CallUntouched
<1> QED BY <1>1, <1>2

\* So does a delivery that needs no channel.
LEMMA DirectCalls ==
    ASSUME Inv, NEW c \in Broadcasts, DirectStep(c), NEW b \in Broadcasts
    PROVE  (CallShape(b) /\ Once(b) /\ Covered(b) /\ Answered(b))'
<1>i. CallShape(b) /\ Once(b) /\ Covered(b) /\ Answered(b) /\ FanoutTypeOK
  BY DEF Inv, CallInv
<1>u. UNCHANGED <<chan, subscribed, subscription, ackAt, snap, flight>>
  BY DirectEffects DEF loopVars, redisVars
<1>p. PICK p \in Procs :
        /\ owner'[c] = p /\ (owner[c] = p \/ snap[c] = None)
        /\ \/ /\ UNCHANGED <<delivered, owner>> /\ relied'[c] = snap[c] /\ snap[c] # None
              /\ flight[c] = "landed"
           \/ /\ UNCHANGED relied
              /\ \E d : Told(p, c, d) /\ (d.payload /\ d.b \in Refetch => flight[c] = "none")
  BY DirectEffects
<1>d. UNCHANGED delivered \/ \E d \in Delivery : delivered' = [delivered EXCEPT ![p] = Append(@, d)]
  BY <1>p DEF Told
<1>h. \A q \in Procs : Heard(q, b) => Heard(q, b)'
  BY <1>i, <1>d, HeardStays
<1>1. CASE b = c
  <2>1. pcB'[b] = "done" /\ pcB[b] \in {"idle", "publishing"} /\ relied[b] = None /\ p # NoProc
    <3>1. pcB' = [pcB EXCEPT ![c] = "done"] /\ pcB[c] # "done"
      BY DirectEffects
    <3>2. pcB'[b] = "done" /\ pcB[b] \in {"idle", "publishing"}
      BY <1>i, <1>1, <3>1 DEF FanoutTypeOK
    <3>3. relied[b] = None
      BY <1>i, <3>2 DEF CallShape
    <3> QED BY <3>2, <3>3, FanoutAssumption
  <2>2. CallShape(b)'
    BY <1>1, <1>p, <1>u, <2>1 DEF CallShape
  <2>3. Once(b)'
    BY <1>i, <1>u, <2>1 DEF Once
  <2>4. Covered(b)'
    <3>1. subscription[p] \in Nat
      BY <1>i DEF FanoutTypeOK
    <3>2. CASE owner[b] = p
      BY <1>1, <1>i, <1>p, <1>u, <3>2 DEF Covered
    <3>3. CASE snap[b] = None
      BY <1>1, <1>p, <1>u, <3>1, <3>3 DEF Covered, None
    <3> QED BY <1>1, <1>p, <3>2, <3>3
  <2>5. Answered(b)'
    <3>1. CASE relied'[b] = snap[b] /\ snap[b] # None
      BY <1>u, <3>1 DEF Answered
    <3>2. CASE \E d : Told(p, b, d)
      <4>1. PICK d : Told(p, b, d)
        BY <3>2
      <4>2. /\ d.b = b /\ Len(delivered'[p]) = Len(delivered[p]) + 1
            /\ delivered'[p][Len(delivered[p]) + 1] = d /\ Len(delivered[p]) \in Nat
        BY SMTT(30), <1>i, <4>1, DeliveredTypes DEF Told, FanoutTypeOK
      <4>3. Len(delivered[p]) + 1 \in 1..Len(delivered'[p])
        BY <4>2
      <4> QED BY <1>1, <1>p, <4>2, <4>3 DEF Answered
    <3> QED BY <1>1, <1>p, <3>1, <3>2
  <2> QED BY <2>2, <2>3, <2>4, <2>5
<1>2. CASE b # c
  <2>1. UNCHANGED <<pcB[b], owner[b], flight[b], snap[b], relied[b]>> /\ owner[b] \in Procs \cup {NoProc}
    <3>1. pcB' = [pcB EXCEPT ![c] = "done"] /\ owner'[b] = owner[b] /\ relied'[b] = relied[b]
      BY <1>2, DirectEffects
    <3> QED BY <1>2, <1>i, <1>u, <3>1 DEF FanoutTypeOK
  <2>2. Covered(b)'
    BY <1>i, <1>u, <2>1 DEF Covered
  <2> QED BY <1>i, <1>u, <1>h, <2>1, <2>2, CallUntouched
<1> QED BY <1>1, <1>2

\* So does a message on the channel.
LEMMA ChannelCalls ==
    ASSUME Inv, ChannelStep, NEW b \in Broadcasts
    PROVE  (CallShape(b) /\ Once(b) /\ Covered(b) /\ Answered(b))'
<1>i. CallShape(b) /\ Once(b) /\ Covered(b) /\ Answered(b) /\ FanoutTypeOK
  BY DEF Inv, CallInv
<1>u. UNCHANGED <<owner, snap, relied, subscribed, subscription, ackAt, delivered>>
  BY DEF ChannelStep, ForeignPublish, RedisPublish, FleetPublish, loopVars, callVars
<1>t. Len(chan) \in Nat /\ NoProc \notin Procs /\ JUNK \notin Broadcasts
  BY <1>i, FanoutAssumption DEF FanoutTypeOK
<1>1. Len(chan') = Len(chan) + 1 /\ \A n \in 1..Len(chan) : chan'[n] = chan[n]
  BY <1>i, ChannelTypes
<1>2. /\ \A n \in 1..Len(chan) : n \in 1..Len(chan')
      /\ \A n \in 1..Len(chan') : n \in 1..Len(chan) \/ n = Len(chan) + 1
  BY <1>t, <1>1
<1>a. owner[b] \in Procs => ackAt[owner[b]] \in Nat /\ ackAt[owner[b]] <= Len(chan)
  BY <1>i DEF FanoutTypeOK, Inv, ProcInv, Shape
\* the message is this call's, or another's
<1>3. \/ /\ chan'[Len(chan) + 1] # b /\ UNCHANGED <<pcB[b], flight[b]>>
      \/ /\ chan'[Len(chan) + 1] = b /\ UNCHANGED pcB[b] /\ flight[b] = "sent" /\ flight'[b] = "landed"
      \/ /\ chan'[Len(chan) + 1] = b /\ UNCHANGED flight[b] /\ pcB[b] = "idle" /\ pcB'[b] = "done"
  <2>1. ASSUME NEW m \in Broadcasts \cup {JUNK}, ChannelAppend(m) PROVE chan'[Len(chan) + 1] = m
    BY <1>i, <2>1, AppendFacts DEF ChannelAppend, FanoutTypeOK
  <2>2. CASE ForeignPublish
    BY <1>t, <2>1, <2>2 DEF ForeignPublish, callVars
  <2>3. ASSUME NEW c \in Broadcasts, RedisPublish(c) PROVE <1>3!1 \/ <1>3!2
    BY <1>i, <2>1, <2>3 DEF RedisPublish, FanoutTypeOK
  <2>4. ASSUME NEW c \in Broadcasts, FleetPublish(c) PROVE <1>3!1 \/ <1>3!3
    BY <1>i, <2>1, <2>4 DEF FleetPublish, FanoutTypeOK
  <2> QED BY <2>2, <2>3, <2>4 DEF ChannelStep
<1>4. CallShape(b)'
  BY <1>i, <1>u, <1>3 DEF CallShape
<1>5. Once(b)'
  <2>1. chan'[Len(chan) + 1] = b => \A n \in 1..Len(chan) : chan[n] # b
    BY <1>i, <1>t, <1>3 DEF Once, CallShape
  <2>2. \A m, n \in 1..Len(chan') : chan'[m] = b /\ chan'[n] = b => m = n
    BY <1>i, <1>1, <1>2, <2>1 DEF Once
  <2>3. chan'[Len(chan) + 1] = b => flight'[b] = "landed" \/ (pcB'[b] = "done" /\ owner'[b] = NoProc)
    BY <1>i, <1>u, <1>3 DEF CallShape
  <2>4. \A n \in 1..Len(chan) : chan[n] = b => flight'[b] = "landed" \/ (pcB'[b] = "done" /\ owner'[b] = NoProc)
    BY <1>i, <1>u, <1>3, <2>1 DEF Once
  <2>5. \A n \in 1..Len(chan') : chan'[n] = b => flight'[b] = "landed" \/ (pcB'[b] = "done" /\ owner'[b] = NoProc)
    BY <1>1, <1>2, <2>3, <2>4
  <2> QED BY <2>2, <2>5 DEF Once
<1>6. Covered(b)'
  <2>1. CASE owner[b] \notin Procs
    BY <1>u, <2>1 DEF Covered
  <2>2. ASSUME NEW p \in Procs, p = owner[b] PROVE Covered(b)'
    <3>1. ackAt[p] \in Nat /\ ackAt[p] <= Len(chan) /\ snap[b] <= subscription[p]
      BY <1>a, <1>i, <2>2 DEF Covered
    <3>2. CASE chan'[Len(chan) + 1] = b
      <4>1. Len(chan) + 1 \in (ackAt[p] + 1)..Len(chan')
        BY <1>t, <1>1, <3>1
      <4> QED BY <1>u, <2>2, <3>1, <3>2, <4>1 DEF Covered
    <3>3. CASE chan'[Len(chan) + 1] # b
      <4>1. UNCHANGED flight[b]
        BY <1>3, <3>3
      <4>2. ASSUME NEW n \in (ackAt[p] + 1)..Len(chan), chan[n] = b
            PROVE  n \in (ackAt[p] + 1)..Len(chan') /\ chan'[n] = b
        BY <1>t, <1>1, <3>1, <4>2
      <4> QED BY <1>i, <1>u, <2>2, <3>1, <4>1, <4>2 DEF Covered
    <3> QED BY <3>2, <3>3
  <2> QED BY <2>1, <2>2
<1>7. Answered(b)'
  BY <1>i, <1>u, <1>3 DEF Answered, CallShape
<1> QED BY <1>4, <1>5, <1>6, <1>7

\* Every step keeps the invariant.
LEMMA InvStep == Inv /\ [FanoutNext]_fanoutVars => Inv'
<1> SUFFICES ASSUME Inv, [FanoutNext]_fanoutVars PROVE Inv'
  OBVIOUS
<1>i. FanoutTypeOK /\ \A p \in Procs : Shape(p) /\ Queue(p) /\ Log(p) /\ Complete(p)
  BY DEF Inv, ProcInv
<1>1. ASSUME NEW p \in Procs, SubscriptionStep(p) \/ Receive(p) PROVE Inv'
  <2>1. FanoutTypeOK' /\ (Shape(p) /\ Queue(p) /\ Log(p) /\ Complete(p))'
    BY <1>1, <1>i, SubscriptionTypes, SubscriptionKeeps, ReceiveKeeps
  <2>2. ASSUME NEW q \in Procs, q # p PROVE (Shape(q) /\ Queue(q) /\ Log(q) /\ Complete(q))'
    <3>1. /\ UNCHANGED <<chan, subscribed[q], loop[q], link[q], inbox[q], ackAt[q]>>
          /\ UNCHANGED <<pcB, flight, owner>>
      BY <1>1, <1>i, <2>2 DEF SubscriptionStep, Receive, Connect, Acknowledged, LoseSubscription, Reconnect,
         Stop, LoopCancelled, RedisSubscribe, LinkDies, callVars, redisVars, envVars, loopVars, FanoutTypeOK
    <3>2. UNCHANGED delivered[q]
      BY <1>1, <1>i, <2>2 DEF SubscriptionStep, Receive, Connect, Acknowledged, LoseSubscription, Reconnect,
         Stop, LoopCancelled, RedisSubscribe, LinkDies, FanoutTypeOK
    <3> QED BY <1>i, <3>1, <3>2, Untouched
  <2>3. ProcInv'
    BY <2>1, <2>2 DEF ProcInv
  <2>4. CallInv'
    BY <1>1, SubscriptionCalls DEF CallInv
  <2> QED BY <2>1, <2>3, <2>4 DEF Inv
<1>2. ASSUME NEW p \in Procs, NEW b \in Broadcasts, BroadcastBegin(p, b) PROVE Inv'
  BY <1>2, <1>i, BeginTypes, BeginKeeps, BeginCalls DEF Inv, ProcInv, CallInv
<1>3. ASSUME NEW b \in Broadcasts, DirectStep(b) PROVE Inv'
  BY <1>3, <1>i, DirectEffects, DirectKeeps, DirectCalls DEF Inv, ProcInv, CallInv
<1>4. ASSUME ChannelStep PROVE Inv'
  BY <1>4, <1>i, ChannelTypes, ChannelKeeps, ChannelCalls DEF Inv, ProcInv, CallInv
<1>5. CASE UNCHANGED fanoutVars
  <2>1. FanoutTypeOK'
    BY <1>i, <1>5 DEF fanoutVars, FanoutTypeOK
  <2>2. ProcInv'
    BY <1>i, <1>5, Untouched DEF fanoutVars, ProcInv
  <2>3. CallInv'
    BY <1>5 DEF Inv, CallInv, fanoutVars, CallShape, Once, Covered, Answered
  <2> QED BY <2>1, <2>2, <2>3 DEF Inv
<1> QED BY <1>1, <1>2, <1>3, <1>4, <1>5, NextKinds

-----------------------------------------------------------------------------
\* sse_fanout: the types of the subscribers', Redis's and the callers' state.
THEOREM FanoutTypeCorrect == FanoutSpec => []FanoutTypeOK
<1>1. Inv => FanoutTypeOK
  BY DEF Inv
<1> QED BY InvInit, InvStep, <1>1, PTL DEF FanoutSpec

\* _subscribe_loop and _deliver: what a process gets from the channel comes in
\* publish order, without gaps while its subscription lasts, and no refetch
\* payload goes back to an older one (ChannelKept).
THEOREM ChannelTheorem == FanoutSpec => []ChannelKept
BY InvInit, InvStep, InvImpliesKept, PTL DEF FanoutSpec

\* broadcast: a call either told its own process's streams directly or relied on
\* a subscription that was up when it was made, and then, as long as that one
\* lasts, the notification reached them or waits for them (NobodyUntold).
THEOREM ToldTheorem == FanoutSpec => []NobodyUntold
BY InvInit, InvStep, InvImpliesTold, PTL DEF FanoutSpec
=============================================================================
