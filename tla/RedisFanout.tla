----------------------------- MODULE RedisFanout -----------------------------
(***************************************************************************)
(* The cross-process fan-out of SSE notifications over Redis pub/sub       *)
(* (src/services/sse_fanout.py and broadcast/start_fanout/stop_fanout of   *)
(* src/services/sse.py), with several gateway processes and one channel.   *)
(*                                                                         *)
(* A step is a stretch of code between two awaits.  Redis is external: it  *)
(* numbers the messages of the channel in publish order and copies each to *)
(* the connection of every live subscription; a connection may die without *)
(* the process noticing (half-open), and a publish the process gave up on  *)
(* may still reach Redis.  SSEBroadcaster.notify() is the end point: each  *)
(* call of it appends to `delivered`.                                      *)
(*                                                                         *)
(* Times (publish timeout, ping interval, pong timeout, reconnect delay)   *)
(* are abstracted to steps that may happen; the sockets of a connection    *)
(* are abstracted to the messages waiting in it.                           *)
(***************************************************************************)
EXTENDS Integers, Sequences

CONSTANTS Procs,       \* gateway processes
          Broadcasts,  \* calls of broadcast()
          Refetch,     \* the ones whose event is in REFETCH_EVENTS
          NoProc,      \* the owner of a call not made yet
          JUNK,        \* a message _deliver() cannot decode
          MaxFaults,   \* bound on lost connections and failed subscribes
          MaxJunk      \* bound on undecodable messages

ASSUME FanoutAssumption ==
    /\ Refetch \subseteq Broadcasts
    /\ NoProc \notin Procs
    /\ JUNK \notin Broadcasts
    /\ MaxFaults \in Nat /\ MaxJunk \in Nat

VARIABLES
    subscribed,    \* _subscribed
    subscription,  \* _subscription, the number of acknowledged subscriptions
    stopping,      \* _stopping, set by stop(); stop_fanout() cleared _fanout
    publisher,     \* _publisher is not None
    loop,          \* where _subscribe_loop is
    upGauge,       \* sse_fanout_connected
    link,          \* the subscriber connection as Redis has it
    inbox,         \* what waits in that connection: ACK or a message's number
    chan,          \* the channel's messages in publish order
    pcB,           \* where each broadcast() is
    owner,         \* the process that makes the call
    snap,          \* its local `subscription`, None being 0
    flight,        \* its PUBLISH command
    faults, junk,  \* counters of the environment's misbehaviour
    relied,        \* history: the subscription broadcast() returned on, or 0
    delivered,     \* history: the notify() calls of each process
    ackAt          \* history: Len(chan) when Redis made the subscription

loopVars == <<subscribed, subscription, stopping, loop, upGauge>>
redisVars == <<link, inbox, chan>>
callVars == <<pcB, owner, snap, flight>>
envVars == <<faults, junk>>
fanoutVars == <<subscribed, subscription, stopping, publisher, loop, upGauge, link, inbox,
          chan, pcB, owner, snap, flight, faults, junk, relied, delivered, ackAt>>

ACK == 0     \* the acknowledgement of SUBSCRIBE; messages are numbered from 1
None == 0    \* subscription numbers start at 1
Direct == 0  \* the channel number of a delivery that did not use the channel

\* One notify() call: which broadcast, its number in the channel, and whether
\* its payload was passed on.
Delivery == [b : Broadcasts, n : Nat, payload : BOOLEAN]

LoopStates == {"connect", "awaitAck", "listen", "backoff", "stopped"}
LinkStates == {"none", "requested", "live", "dead"}

FanoutInit ==
    /\ subscribed = [p \in Procs |-> FALSE]
    /\ subscription = [p \in Procs |-> 0]
    /\ stopping = [p \in Procs |-> FALSE]
    /\ publisher = [p \in Procs |-> FALSE]
    /\ loop = [p \in Procs |-> "connect"]
    /\ upGauge = [p \in Procs |-> 0]
    /\ link = [p \in Procs |-> "none"]
    /\ inbox = [p \in Procs |-> << >>]
    /\ chan = << >>
    /\ pcB = [b \in Broadcasts |-> "idle"]
    /\ owner = [b \in Broadcasts |-> NoProc]
    /\ snap = [b \in Broadcasts |-> None]
    /\ flight = [b \in Broadcasts |-> "none"]
    /\ faults = 0 /\ junk = 0
    /\ relied = [b \in Broadcasts |-> None]
    /\ delivered = [p \in Procs |-> << >>]
    /\ ackAt = [p \in Procs |-> 0]

(***************************************************************************)
(* _subscribe_loop.  stop() sets _stopping and cancels the task in one     *)
(* step, so the loop takes no other step after it.                         *)
(***************************************************************************)

\* A fresh client sends SUBSCRIBE.
Connect(p) ==
    /\ loop[p] = "connect" /\ ~stopping[p]
    /\ loop' = [loop EXCEPT ![p] = "awaitAck"]
    /\ link' = [link EXCEPT ![p] = "requested"]
    /\ UNCHANGED <<subscribed, subscription, stopping, publisher, upGauge, inbox,
                   chan, callVars, envVars, relied, delivered, ackAt>>

\* Mutated form of Acknowledged: what came with the acknowledgement is dropped.
MutAcknowledgedFlush(p) ==
    /\ loop[p] = "awaitAck" /\ ~stopping[p]
    /\ inbox[p] # << >> /\ Head(inbox[p]) = ACK
    /\ inbox' = [inbox EXCEPT ![p] = << >>]
    /\ subscription' = [subscription EXCEPT ![p] = @ + 1]
    /\ subscribed' = [subscribed EXCEPT ![p] = TRUE]
    /\ upGauge' = [upGauge EXCEPT ![p] = 1]
    /\ loop' = [loop EXCEPT ![p] = "listen"]
    /\ UNCHANGED <<stopping, publisher, link, chan, callVars, envVars, relied,
                   delivered, ackAt>>

\* _await_acknowledgement sees the "subscribe" message.
Acknowledged(p) ==
    /\ loop[p] = "awaitAck" /\ ~stopping[p]
    /\ inbox[p] # << >> /\ Head(inbox[p]) = ACK
    /\ inbox' = [inbox EXCEPT ![p] = Tail(@)]
    /\ subscription' = [subscription EXCEPT ![p] = @ + 1]
    /\ subscribed' = [subscribed EXCEPT ![p] = TRUE]
    /\ upGauge' = [upGauge EXCEPT ![p] = 1]
    /\ loop' = [loop EXCEPT ![p] = "listen"]
    /\ UNCHANGED <<stopping, publisher, link, chan, callVars, envVars, relied,
                   delivered, ackAt>>

\* get_message() and _deliver(): an undecodable message is counted and dropped.
Receive(p) ==
    /\ loop[p] = "listen" /\ ~stopping[p] /\ inbox[p] # << >>
    /\ LET n == Head(inbox[p]) IN
         delivered' = IF chan[n] = JUNK THEN delivered
                      ELSE [delivered EXCEPT ![p] =
                              Append(@, [b |-> chan[n], n |-> n, payload |-> TRUE])]
    /\ inbox' = [inbox EXCEPT ![p] = Tail(@)]
    /\ UNCHANGED <<loopVars, publisher, link, chan, callVars, envVars, relied, ackAt>>

\* Mutated form of LoseSubscription: the gauge is decremented, not set.
MutLoseSubscriptionDec(p) ==
    /\ loop[p] \in {"connect", "awaitAck", "listen"} /\ ~stopping[p]
    /\ IF link[p] = "dead" THEN faults' = faults
                           ELSE faults < MaxFaults /\ faults' = faults + 1
    /\ subscribed' = [subscribed EXCEPT ![p] = FALSE]
    /\ upGauge' = [upGauge EXCEPT ![p] = @ - 1]
    /\ loop' = [loop EXCEPT ![p] = "backoff"]
    /\ UNCHANGED <<subscription, stopping, publisher, redisVars, callVars, junk,
                   relied, delivered, ackAt>>

\* The except branch: the flag drops first, the connection is closed only
\* after the sleep.  A dead connection is found by the missing PONG.
LoseSubscription(p) ==
    /\ loop[p] \in {"connect", "awaitAck", "listen"} /\ ~stopping[p]
    /\ IF link[p] = "dead" THEN faults' = faults
                           ELSE faults < MaxFaults /\ faults' = faults + 1
    /\ subscribed' = [subscribed EXCEPT ![p] = FALSE]
    /\ upGauge' = [upGauge EXCEPT ![p] = 0]
    /\ loop' = [loop EXCEPT ![p] = "backoff"]
    /\ UNCHANGED <<subscription, stopping, publisher, redisVars, callVars, junk,
                   relied, delivered, ackAt>>

\* Mutated form of Reconnect: the loop gives up after a failure.
MutReconnectNever(p) ==
    /\ loop[p] = "backoff" /\ ~stopping[p]
    /\ subscribed' = [subscribed EXCEPT ![p] = FALSE]
    /\ link' = [link EXCEPT ![p] = "none"]
    /\ inbox' = [inbox EXCEPT ![p] = << >>]
    /\ loop' = [loop EXCEPT ![p] = "stopped"]
    /\ UNCHANGED <<subscription, stopping, publisher, upGauge, chan, callVars,
                   envVars, relied, delivered, ackAt>>

\* The sleep is over: the finally block closes the connection, the loop retries.
Reconnect(p) ==
    /\ loop[p] = "backoff" /\ ~stopping[p]
    /\ subscribed' = [subscribed EXCEPT ![p] = FALSE]
    /\ link' = [link EXCEPT ![p] = "none"]
    /\ inbox' = [inbox EXCEPT ![p] = << >>]
    /\ loop' = [loop EXCEPT ![p] = "connect"]
    /\ UNCHANGED <<subscription, stopping, publisher, upGauge, chan, callVars,
                   envVars, relied, delivered, ackAt>>

\* stop_fanout(): _fanout is None from here on; the loop's task is cancelled.
Stop(p) ==
    /\ ~stopping[p]
    /\ stopping' = [stopping EXCEPT ![p] = TRUE]
    /\ UNCHANGED <<subscribed, subscription, publisher, loop, upGauge, redisVars,
                   callVars, envVars, relied, delivered, ackAt>>

\* CancelledError reaches the loop: only its finally block runs (the gauge is
\* left as it is), then stop() closes the publisher.
LoopCancelled(p) ==
    /\ stopping[p] /\ loop[p] # "stopped"
    /\ loop' = [loop EXCEPT ![p] = "stopped"]
    /\ subscribed' = [subscribed EXCEPT ![p] = FALSE]
    /\ link' = [link EXCEPT ![p] = "none"]
    /\ inbox' = [inbox EXCEPT ![p] = << >>]
    /\ publisher' = [publisher EXCEPT ![p] = FALSE]
    /\ UNCHANGED <<subscription, stopping, upGauge, chan, callVars, envVars, relied,
                   delivered, ackAt>>

(***************************************************************************)
(* broadcast()                                                             *)
(***************************************************************************)

\* sse.broadcast() with no fan-out: local delivery of the data as given.
BroadcastLocal(p, b) ==
    /\ pcB[b] = "idle" /\ stopping[p]
    /\ pcB' = [pcB EXCEPT ![b] = "done"]
    /\ owner' = [owner EXCEPT ![b] = p]
    /\ delivered' = [delivered EXCEPT ![p] =
                        Append(@, [b |-> b, n |-> Direct, payload |-> TRUE])]
    /\ UNCHANGED <<loopVars, publisher, redisVars, snap, flight, envVars, relied, ackAt>>

\* The subscription is remembered, the client made if needed, PUBLISH sent.
BroadcastBegin(p, b) ==
    /\ pcB[b] = "idle" /\ ~stopping[p]
    /\ pcB' = [pcB EXCEPT ![b] = "publishing"]
    /\ owner' = [owner EXCEPT ![b] = p]
    /\ snap' = [snap EXCEPT ![b] = IF subscribed[p] THEN subscription[p] ELSE None]
    /\ flight' = [flight EXCEPT ![b] = "sent"]
    /\ publisher' = [publisher EXCEPT ![p] = TRUE]
    /\ UNCHANGED <<loopVars, redisVars, envVars, relied, delivered, ackAt>>

\* Mutated form of SubscriptionHeld: only the flag after the publish counts.
MutSubscribedNow(p, b) == subscribed[p]

\* The subscription known before publishing is the one still in place.
SubscriptionHeld(p, b) ==
    snap[b] # None /\ subscribed[p] /\ subscription[p] = snap[b]

\* The call of notify() that tells this process's streams directly.
Fallback(p, b) ==
    delivered' = [delivered EXCEPT ![p] =
        Append(@, [b |-> b, n |-> Direct, payload |-> b \notin Refetch])]

\* Redis answered: return, or tell the streams directly.
PublishAnswered(b) ==
    /\ pcB[b] = "publishing" /\ flight[b] = "landed"
    /\ pcB' = [pcB EXCEPT ![b] = "done"]
    /\ \/ /\ SubscriptionHeld(owner[b], b)
          /\ relied' = [relied EXCEPT ![b] = snap[b]]
          /\ UNCHANGED delivered
       \/ /\ ~SubscriptionHeld(owner[b], b)
          /\ Fallback(owner[b], b)
          /\ UNCHANGED relied
    /\ UNCHANGED <<loopVars, publisher, redisVars, owner, snap, flight, envVars, ackAt>>

\* The publish raised or took longer than the timeout: the client is dropped.
\* The command may have landed, may land later, or may be lost.
PublishFails(b) ==
    /\ pcB[b] = "publishing"
    /\ pcB' = [pcB EXCEPT ![b] = "done"]
    /\ publisher' = [publisher EXCEPT ![owner[b]] = FALSE]
    /\ Fallback(owner[b], b)
    /\ UNCHANGED <<loopVars, redisVars, owner, snap, flight, envVars, relied, ackAt>>

(***************************************************************************)
(* Redis (external).                                                       *)
(***************************************************************************)

\* Redis makes the subscription and acknowledges it.
RedisSubscribe(p) ==
    /\ link[p] = "requested"
    /\ link' = [link EXCEPT ![p] = "live"]
    /\ inbox' = [inbox EXCEPT ![p] = <<ACK>>]
    /\ ackAt' = [ackAt EXCEPT ![p] = Len(chan)]
    /\ UNCHANGED <<loopVars, publisher, chan, callVars, envVars, relied, delivered>>

\* A message reaches the channel and, in order, every live subscription.
ChannelAppend(m) ==
    /\ chan' = Append(chan, m)
    /\ inbox' = [p \in Procs |-> IF link[p] = "live"
                                 THEN Append(inbox[p], Len(chan) + 1) ELSE inbox[p]]

RedisPublish(b) ==
    /\ flight[b] = "sent"
    /\ flight' = [flight EXCEPT ![b] = "landed"]
    /\ ChannelAppend(b)
    /\ UNCHANGED <<loopVars, publisher, link, pcB, owner, snap, envVars, relied,
                   delivered, ackAt>>

\* Another application writes to the shared channel.
ForeignPublish ==
    /\ junk < MaxJunk
    /\ junk' = junk + 1
    /\ ChannelAppend(JUNK)
    /\ UNCHANGED <<loopVars, publisher, link, callVars, faults, relied, delivered, ackAt>>

\* A gateway process that is not in Procs publishes the notification b.
FleetPublish(b) ==
    /\ pcB[b] = "idle"
    /\ pcB' = [pcB EXCEPT ![b] = "done"]
    /\ ChannelAppend(b)
    /\ UNCHANGED <<loopVars, publisher, link, owner, snap, flight, envVars, relied, delivered,
                   ackAt>>

\* The connection breaks on Redis's side: failover, restart, half-open socket.
LinkDies(p) ==
    /\ link[p] \in {"requested", "live"} /\ faults < MaxFaults
    /\ faults' = faults + 1
    /\ link' = [link EXCEPT ![p] = "dead"]
    /\ UNCHANGED <<loopVars, publisher, inbox, chan, callVars, junk, relied,
                   delivered, ackAt>>

LoopStep(p) ==
    \/ Connect(p) \/ Acknowledged(p) \/ Receive(p) \/ Reconnect(p) \/ LoopCancelled(p)
    \/ (link[p] = "dead" /\ LoseSubscription(p))

FanoutNext ==
    \/ \E p \in Procs : \/ LoopStep(p) \/ LoseSubscription(p) \/ Stop(p)
                        \/ RedisSubscribe(p) \/ LinkDies(p)
                        \/ \E b \in Broadcasts : BroadcastLocal(p, b) \/ BroadcastBegin(p, b)
    \/ \E b \in Broadcasts : PublishAnswered(b) \/ PublishFails(b) \/ RedisPublish(b) \/ FleetPublish(b)
    \/ ForeignPublish

(***************************************************************************)
(* The event loop runs the subscriber and the callers; Redis, while a      *)
(* connection lasts, answers SUBSCRIBE.  wait_for() bounds every publish.  *)
(* Nothing makes Redis keep or land a given PUBLISH.                       *)
(***************************************************************************)
FanoutFairness ==
    /\ \A p \in Procs : WF_fanoutVars(LoopStep(p)) /\ WF_fanoutVars(RedisSubscribe(p))
    /\ \A b \in Broadcasts : WF_fanoutVars(PublishAnswered(b) \/ PublishFails(b))

FanoutSpec == FanoutInit /\ [][FanoutNext]_fanoutVars
FanoutFairSpec == FanoutSpec /\ FanoutFairness

(***************************************************************************)
(* Properties.                                                             *)
(***************************************************************************)

\* The types of the fan-outs', Redis's and the callers' state.
FanoutTypeOK ==
    /\ subscribed \in [Procs -> BOOLEAN]
    /\ subscription \in [Procs -> Nat]
    /\ stopping \in [Procs -> BOOLEAN]
    /\ publisher \in [Procs -> BOOLEAN]
    /\ loop \in [Procs -> LoopStates]
    /\ upGauge \in [Procs -> {0, 1}]
    /\ link \in [Procs -> LinkStates]
    /\ inbox \in [Procs -> Seq(Nat)]
    /\ chan \in Seq(Broadcasts \cup {JUNK})
    /\ pcB \in [Broadcasts -> {"idle", "publishing", "done"}]
    /\ owner \in [Broadcasts -> Procs \cup {NoProc}]
    /\ snap \in [Broadcasts -> Nat]
    /\ flight \in [Broadcasts -> {"none", "sent", "landed"}]
    /\ faults \in Nat /\ junk \in Nat
    /\ relied \in [Broadcasts -> Nat]
    /\ delivered \in [Procs -> Seq(Delivery)]
    /\ ackAt \in [Procs -> Nat]

\* Message n of the channel was delivered to the streams of p.
ReceivedBy(p, n) == \E i \in 1..Len(delivered[p]) : delivered[p][i].n = n
\* Message n waits in the connection of p.
WaitingFor(p, n) == \E i \in 1..Len(inbox[p]) : inbox[p][i] = n

\* Every process delivers what it gets from the channel in publish order, each
\* message at most once, across reconnects too.
ChannelOrder ==
    \A p \in Procs : \A i, j \in 1..Len(delivered[p]) :
        i < j /\ delivered[p][i].n # Direct /\ delivered[p][j].n # Direct
            => delivered[p][i].n < delivered[p][j].n

\* While a subscription that Redis acknowledged lasts, no message published
\* since is skipped: it was delivered or waits in the connection.
NoSkipWhileConnected ==
    \A p \in Procs : link[p] = "live" /\ loop[p] \in {"awaitAck", "listen"} =>
        \A n \in (ackAt[p] + 1)..Len(chan) :
            chan[n] # JUNK => ReceivedBy(p, n) \/ WaitingFor(p, n)

\* A broadcast() that returned without telling its own streams is right to
\* rely on the channel: unless the connection of that subscription broke
\* since, the notification was delivered here or waits in it.
ReliedOnArrives ==
    \A b \in Broadcasts :
        relied[b] # None =>
            LET p == owner[b] IN
            subscribed[p] /\ subscription[p] = relied[b] /\ link[p] = "live"
                => \E n \in 1..Len(chan) :
                       chan[n] = b /\ (ReceivedBy(p, n) \/ WaitingFor(p, n))

\* A finished broadcast() either told its own streams directly or relied on a
\* subscription that was up when it was made.
ToldOrRelied ==
    \A b \in Broadcasts : pcB[b] = "done" /\ owner[b] # NoProc =>
        \/ relied[b] # None /\ relied[b] = snap[b]
        \/ \E i \in 1..Len(delivered[owner[b]]) : delivered[owner[b]][i].b = b

\* Event payloads a view would apply never go back in channel order: of two
\* refetch notifications delivered with their payload, the one published
\* later is delivered later (a direct delivery carries no payload).
NewerPayloadWins ==
    \A p \in Procs : \A i, j \in 1..Len(delivered[p]) :
        LET d == delivered[p][i]  e == delivered[p][j] IN
        i < j /\ d.payload /\ e.payload /\ d.b \in Refetch /\ e.b \in Refetch =>
            \A m, n \in 1..Len(chan) : chan[m] = d.b /\ chan[n] = e.b => m <= n

\* A process whose fan-out is not stopped keeps getting its subscription back.
KeepsResubscribing ==
    \A p \in Procs : []<>(subscribed[p] \/ stopping[p])

\* Every broadcast() ends, whatever Redis does.
BroadcastEnds ==
    \A b \in Broadcasts : (pcB[b] = "publishing") ~> (pcB[b] = "done")

\* A message waiting in an acknowledged subscription is delivered to the
\* process's streams unless that subscription is lost.
WaitingIsDelivered ==
    \A p \in Procs : \A b \in Broadcasts :
        (loop[p] = "listen" /\ \E n \in 1..Len(chan) : chan[n] = b /\ WaitingFor(p, n))
            ~> (\/ \E i \in 1..Len(delivered[p]) : delivered[p][i].b = b /\ delivered[p][i].n # Direct
                \/ loop[p] # "listen")

\* What a process gets from the channel: in order, without gaps, never stale.
ChannelKept == ChannelOrder /\ NoSkipWhileConnected /\ NewerPayloadWins

\* No broadcast() leaves its own streams untold.
NobodyUntold == ReliedOnArrives /\ ToldOrRelied

\* The subscriber, the callers and what waits all make progress.
FanoutProgress == KeepsResubscribing /\ BroadcastEnds /\ WaitingIsDelivered

=============================================================================
