--------------------------- MODULE SSEBroadcaster ---------------------------
(***************************************************************************)
(* The in-memory SSE broadcaster of one gateway process                    *)
(* (src/services/sse.py): the subscriber queues of each tenant, the        *)
(* streams that read them, and the close sweep that lets a graceful        *)
(* shutdown finish.                                                        *)
(*                                                                         *)
(* A step is a maximal stretch of code between two awaits of the event     *)
(* loop.  Every `async with self._lock` body is free of awaits, so on the  *)
(* server's loop the lock is never contended and each locked section is    *)
(* one step.  A stream is suspended either in `yield` (the response is     *)
(* sending the chunk: "sending") or in `queue.get()` ("waiting").          *)
(*                                                                         *)
(* A notification is <<tenant, k>>: the k-th notify() of that tenant.      *)
(***************************************************************************)
EXTENDS Integers, Sequences, FiniteSets

CONSTANTS Streams,       \* requests to /sse/subscribe
          Tenants,
          CLOSE,         \* the _CLOSE marker
          MaxNotify,     \* bound on notify() calls of each tenant
          MaxSignals,    \* bound on SIGTERM/SIGINT per lifespan
          MaxLifespans   \* bound on lifespans of the process

ASSUME BroadcasterAssumption ==
    /\ IsFiniteSet(Streams)
    /\ CLOSE \notin Tenants \X Nat
    /\ MaxNotify \in [Tenants -> Nat] /\ MaxSignals \in Nat /\ MaxLifespans \in Nat

VARIABLES
    connections,   \* _connections: the registered queues of each tenant
    queue,         \* the queue of each stream
    draining,      \* _draining
    gauge,         \* connected_users_gauge, per tenant
    closed,        \* sse_streams_closed_total, by reason
    pc,            \* where each stream's request is
    tenant,        \* the tenant the request authenticated as
    reason,        \* the reason an ended stream was counted under
    phase,         \* the server: "serving", "draining", "stopped"
    sweeps,        \* close_all() callbacks scheduled on the loop, not yet run
    signals,       \* signals received in this lifespan
    lifespans,     \* lifespans started
    notified,      \* history: notify() calls per tenant
    joined,        \* history: notified[tenant] when the stream registered
    received,      \* history: what the stream has yielded
    sweptAt        \* history: notified[tenant] at the first sweep it was in

brVars == <<connections, queue, draining, gauge, closed>>
reqVars == <<pc, tenant, reason>>
srvVars == <<phase, sweeps, signals, lifespans>>
histVars == <<notified, joined, received, sweptAt>>
vars == <<connections, queue, draining, gauge, closed, pc, tenant, reason,
          phase, sweeps, signals, lifespans, notified, joined, received, sweptAt>>

NotYet == -1
Message == Tenants \X Nat
PCs == {"none", "auth", "sending", "waiting", "abandoned", "ended"}
Phases == {"serving", "draining", "stopped"}
Reasons == {"client", "shutdown"}

Registered(s) == \E t \in Tenants : s \in connections[t]

\* The response task still runs: uvicorn's drain waits for it.
Responding(s) == pc[s] \in {"auth", "sending", "waiting"}

Init ==
    /\ connections = [t \in Tenants |-> {}]
    /\ queue = [s \in Streams |-> << >>]
    /\ draining = FALSE
    /\ gauge = [t \in Tenants |-> 0]
    /\ closed = [r \in Reasons |-> 0]
    /\ pc = [s \in Streams |-> "none"]
    /\ tenant \in [Streams -> Tenants]
    /\ reason = [s \in Streams |-> "client"]
    /\ phase = "serving" /\ sweeps = 0 /\ signals = 0 /\ lifespans = 1
    /\ notified = [t \in Tenants |-> 0]
    /\ joined = [s \in Streams |-> 0]
    /\ received = [s \in Streams |-> << >>]
    /\ sweptAt = [s \in Streams |-> NotYet]

(***************************************************************************)
(* The stream.                                                             *)
(***************************************************************************)

\* POST /sse/subscribe is accepted; its dependency authenticates in a thread.
Request(s) ==
    /\ phase = "serving" /\ pc[s] = "none"
    /\ pc' = [pc EXCEPT ![s] = "auth"]
    /\ UNCHANGED <<brVars, tenant, reason, srvVars, histVars>>

\* subscribe() while draining: counted as closed, never registered.
SubscribeRefused(s) ==
    /\ pc[s] = "auth" /\ draining
    /\ closed' = [closed EXCEPT !["shutdown"] = @ + 1]
    /\ pc' = [pc EXCEPT ![s] = "ended"]
    /\ reason' = [reason EXCEPT ![s] = "shutdown"]
    /\ UNCHANGED <<connections, queue, draining, gauge, tenant, srvVars, histVars>>

\* Mutated form of Subscribe: registers without looking at _draining.
MutSubscribeWhileDraining(s) ==
    /\ pc[s] = "auth"
    /\ connections' = [connections EXCEPT ![tenant[s]] = @ \cup {s}]
    /\ gauge' = [gauge EXCEPT ![tenant[s]] = @ + 1]
    /\ pc' = [pc EXCEPT ![s] = "sending"]
    /\ joined' = [joined EXCEPT ![s] = notified[tenant[s]]]
    /\ UNCHANGED <<queue, draining, closed, tenant, reason, srvVars,
                   notified, received, sweptAt>>

\* subscribe() up to the yield of the "connected" event.
Subscribe(s) ==
    /\ pc[s] = "auth" /\ ~draining
    /\ connections' = [connections EXCEPT ![tenant[s]] = @ \cup {s}]
    /\ gauge' = [gauge EXCEPT ![tenant[s]] = @ + 1]
    /\ pc' = [pc EXCEPT ![s] = "sending"]
    /\ joined' = [joined EXCEPT ![s] = notified[tenant[s]]]
    /\ UNCHANGED <<queue, draining, closed, tenant, reason, srvVars,
                   notified, received, sweptAt>>

\* The chunk is on the wire; the generator runs on to queue.get().
Sent(s) ==
    /\ pc[s] = "sending"
    /\ pc' = [pc EXCEPT ![s] = "waiting"]
    /\ UNCHANGED <<brVars, tenant, reason, srvVars, histVars>>

\* Mutated form of Dequeue: the close marker is yielded as an event.
MutDequeueAnything(s) ==
    /\ pc[s] = "waiting" /\ queue[s] # << >>
    /\ received' = [received EXCEPT ![s] = Append(@, Head(queue[s]))]
    /\ queue' = [queue EXCEPT ![s] = Tail(@)]
    /\ pc' = [pc EXCEPT ![s] = "sending"]
    /\ UNCHANGED <<connections, draining, gauge, closed, tenant, reason,
                   srvVars, notified, joined, sweptAt>>

\* queue.get() returned an event, which is yielded.
Dequeue(s) ==
    /\ pc[s] = "waiting" /\ queue[s] # << >> /\ Head(queue[s]) # CLOSE
    /\ received' = [received EXCEPT ![s] = Append(@, Head(queue[s]))]
    /\ queue' = [queue EXCEPT ![s] = Tail(@)]
    /\ pc' = [pc EXCEPT ![s] = "sending"]
    /\ UNCHANGED <<connections, draining, gauge, closed, tenant, reason,
                   srvVars, notified, joined, sweptAt>>

\* No event for SSE_KEEPALIVE_INTERVAL_SECONDS: a comment is yielded.
Keepalive(s) ==
    /\ pc[s] = "waiting" /\ queue[s] = << >>
    /\ pc' = [pc EXCEPT ![s] = "sending"]
    /\ UNCHANGED <<brVars, tenant, reason, srvVars, histVars>>

\* Mutated form of Unregister: the queue stays in _connections.
MutUnregisterLeaks(s, r) ==
    /\ gauge' = [gauge EXCEPT ![tenant[s]] = @ - 1]
    /\ closed' = [closed EXCEPT ![r] = @ + 1]
    /\ connections' = connections
    /\ pc' = [pc EXCEPT ![s] = "ended"]
    /\ reason' = [reason EXCEPT ![s] = r]

\* The finally block of subscribe(): metrics, then the queue is unregistered.
Unregister(s, r) ==
    /\ gauge' = [gauge EXCEPT ![tenant[s]] = @ - 1]
    /\ closed' = [closed EXCEPT ![r] = @ + 1]
    /\ connections' = [connections EXCEPT ![tenant[s]] = @ \ {s}]
    /\ pc' = [pc EXCEPT ![s] = "ended"]
    /\ reason' = [reason EXCEPT ![s] = r]

\* queue.get() returned _CLOSE: the generator returns and the response ends.
DequeueClose(s) ==
    /\ pc[s] = "waiting" /\ queue[s] # << >> /\ Head(queue[s]) = CLOSE
    /\ queue' = [queue EXCEPT ![s] = Tail(@)]
    /\ Unregister(s, "shutdown")
    /\ UNCHANGED <<draining, tenant, srvVars, histVars>>

\* The client goes away while the generator waits: CancelledError in get().
CancelWaiting(s) ==
    /\ pc[s] = "waiting"
    /\ Unregister(s, "client")
    /\ UNCHANGED <<queue, draining, tenant, srvVars, histVars>>

\* The client goes away while a chunk is being sent: the response task ends,
\* the generator stays suspended in its yield until it is finalised.
CancelSending(s) ==
    /\ pc[s] = "sending"
    /\ pc' = [pc EXCEPT ![s] = "abandoned"]
    /\ UNCHANGED <<brVars, tenant, reason, srvVars, histVars>>

\* The loop's asyncgen finaliser closes an abandoned generator.
Finalise(s) ==
    /\ pc[s] = "abandoned"
    /\ Unregister(s, "client")
    /\ UNCHANGED <<queue, draining, tenant, srvVars, histVars>>

(***************************************************************************)
(* The notifier and the shutdown.                                          *)
(***************************************************************************)

\* Mutated form of Notify: every tenant's queues get the event.
MutNotifyEveryTenant(t) ==
    /\ notified[t] < MaxNotify[t]
    /\ notified' = [notified EXCEPT ![t] = @ + 1]
    /\ queue' = [s \in Streams |->
                    IF Registered(s)
                    THEN Append(queue[s], <<t, notified[t] + 1>>)
                    ELSE queue[s]]
    /\ UNCHANGED <<connections, draining, gauge, closed, reqVars, srvVars,
                   joined, received, sweptAt>>

\* notify(): every registered queue of the tenant; dropped when there is none.
Notify(t) ==
    /\ notified[t] < MaxNotify[t]
    /\ notified' = [notified EXCEPT ![t] = @ + 1]
    /\ queue' = [s \in Streams |->
                    IF s \in connections[t]
                    THEN Append(queue[s], <<t, notified[t] + 1>>)
                    ELSE queue[s]]
    /\ UNCHANGED <<connections, draining, gauge, closed, reqVars, srvVars,
                   joined, received, sweptAt>>

\* Mutated form of Signal: only the previous handler runs.
MutSignalDrainOnly ==
    /\ phase # "stopped" /\ signals < MaxSignals
    /\ signals' = signals + 1
    /\ UNCHANGED <<brVars, reqVars, phase, sweeps, lifespans, histVars>>

\* close_streams_on_signal's handler: the sweep is scheduled on the loop and
\* uvicorn's own handler starts the drain (it stops accepting requests).
Signal ==
    /\ phase # "stopped" /\ signals < MaxSignals
    /\ signals' = signals + 1
    /\ sweeps' = sweeps + 1
    /\ UNCHANGED <<brVars, reqVars, phase, lifespans, histVars>>

\* Mutated form of CloseAll: the close marker goes ahead of queued events.
MutCloseAllFirst ==
    /\ sweeps > 0
    /\ sweeps' = sweeps - 1
    /\ draining' = TRUE
    /\ queue' = [s \in Streams |->
                    IF Registered(s) THEN <<CLOSE>> \o queue[s] ELSE queue[s]]
    /\ sweptAt' = [s \in Streams |->
                    IF Registered(s) /\ sweptAt[s] = NotYet
                    THEN notified[tenant[s]] ELSE sweptAt[s]]
    /\ UNCHANGED <<connections, gauge, closed, reqVars, phase, signals,
                   lifespans, notified, joined, received>>

\* The loop runs the scheduled close_all().
CloseAll ==
    /\ sweeps > 0
    /\ sweeps' = sweeps - 1
    /\ draining' = TRUE
    /\ queue' = [s \in Streams |->
                    IF Registered(s) THEN Append(queue[s], CLOSE) ELSE queue[s]]
    /\ sweptAt' = [s \in Streams |->
                    IF Registered(s) /\ sweptAt[s] = NotYet
                    THEN notified[tenant[s]] ELSE sweptAt[s]]
    /\ UNCHANGED <<connections, gauge, closed, reqVars, phase, signals,
                   lifespans, notified, joined, received>>

\* uvicorn sees should_exit on its next tick and stops accepting requests.
StartDrain ==
    /\ phase = "serving" /\ signals > 0
    /\ phase' = "draining"
    /\ UNCHANGED <<brVars, reqVars, sweeps, signals, lifespans, histVars>>

\* Every response has ended: the lifespan shutdown runs and the loop closes,
\* dropping any callback still scheduled on it.
LifespanShutdown ==
    /\ phase = "draining"
    /\ \A s \in Streams : ~Responding(s)
    /\ phase' = "stopped"
    /\ sweeps' = 0
    /\ UNCHANGED <<brVars, reqVars, signals, lifespans, histVars>>

\* A new lifespan: install_shutdown_handlers() reopens the broadcaster and
\* replaces the previous handlers.
Startup ==
    /\ phase = "stopped" /\ lifespans < MaxLifespans
    /\ lifespans' = lifespans + 1
    /\ draining' = FALSE
    /\ signals' = 0
    /\ phase' = "serving"
    /\ UNCHANGED <<connections, queue, gauge, closed, reqVars, sweeps, histVars>>

Progress(s) ==
    \/ SubscribeRefused(s) \/ Subscribe(s) \/ Sent(s)
    \/ Dequeue(s) \/ DequeueClose(s) \/ Finalise(s)

Client(s) ==
    \/ Request(s) \/ Keepalive(s) \/ CancelWaiting(s) \/ CancelSending(s)

Next ==
    \/ \E s \in Streams : Progress(s) \/ Client(s)
    \/ \E t \in Tenants : Notify(t)
    \/ Signal \/ CloseAll \/ StartDrain \/ LifespanShutdown \/ Startup

(***************************************************************************)
(* The event loop runs every callback that is ready, and the server's tick *)
(* and drain are loop callbacks too.  A client that neither reads nor      *)
(* disconnects would block Sent for ever; the proxies on the path cut it   *)
(* off, so Sent is fair.  Nothing makes clients, notifiers or signals act. *)
(***************************************************************************)
Fairness ==
    /\ \A s \in Streams : WF_vars(Progress(s))
    /\ WF_vars(CloseAll)
    /\ WF_vars(StartDrain)
    /\ WF_vars(LifespanShutdown)

Spec == Init /\ [][Next]_vars
FairSpec == Spec /\ Fairness

(***************************************************************************)
(* Properties.                                                             *)
(***************************************************************************)

\* The types of the broadcaster's, the requests' and the server's state.
TypeOK ==
    /\ connections \in [Tenants -> SUBSET Streams]
    /\ queue \in [Streams -> Seq(Message \cup {CLOSE})]
    /\ draining \in BOOLEAN
    /\ gauge \in [Tenants -> Int]
    /\ closed \in [Reasons -> Nat]
    /\ pc \in [Streams -> PCs]
    /\ tenant \in [Streams -> Tenants]
    /\ reason \in [Streams -> Reasons]
    /\ phase \in Phases
    /\ sweeps \in Nat /\ signals \in Nat /\ lifespans \in Nat
    /\ notified \in [Tenants -> Nat]
    /\ joined \in [Streams -> Nat]
    /\ received \in [Streams -> Seq(Message)]
    /\ sweptAt \in [Streams -> Nat \cup {NotYet}]

\* There is a close marker in the stream's queue.
CloseQueued(s) == \E i \in 1..Len(queue[s]) : queue[s][i] = CLOSE

\* A stream is in _connections exactly while its generator is alive, and only
\* under the tenant it authenticated as (subscribe's try/finally).
RegisteredWhileOpen ==
    \A s \in Streams : \A t \in Tenants :
        s \in connections[t] <=>
            pc[s] \in {"sending", "waiting", "abandoned"} /\ t = tenant[s]

\* While the broadcaster drains, every stream whose response is still open has
\* a close marker waiting for it: a request that was authenticating during the
\* sweep of close_all() cannot register behind it and hold the drain open.
DrainReachesEveryStream ==
    draining => \A s \in Streams :
                    pc[s] \in {"sending", "waiting"} => CloseQueued(s)

\* What a stream yields is exactly what notify() was called with for its
\* tenant since it subscribed: in order, nothing lost, repeated, or of another
\* tenant; and what is queued ahead of a close marker continues it.
NoGap(s) ==
    /\ \A i \in 1..Len(received[s]) : received[s][i] = <<tenant[s], joined[s] + i>>
    /\ Registered(s) =>
         /\ \A i \in 1..Len(queue[s]) :
              (\A j \in 1..i : queue[s][j] # CLOSE)
                 => queue[s][i] = <<tenant[s], joined[s] + Len(received[s]) + i>>
         /\ ~CloseQueued(s)
              => joined[s] + Len(received[s]) + Len(queue[s]) = notified[tenant[s]]

InOrderNoGap == \A s \in Streams : NoGap(s)

\* A stream that ends because of the shutdown has first yielded every
\* notification made before close_all() reached it: the close marker goes
\* through the queue and does not overtake events.
CloseOvertakesNothing ==
    \A s \in Streams :
        pc[s] = "ended" /\ reason[s] = "shutdown" /\ sweptAt[s] # NotYet
            => joined[s] + Len(received[s]) = sweptAt[s]

\* The connected_users gauge is the number of open generators of the tenant,
\* and every stream that ended was counted under exactly one close reason.
StreamAccounting ==
    /\ \A t \in Tenants :
         gauge[t] = Cardinality({s \in Streams :
                        /\ pc[s] \in {"sending", "waiting", "abandoned"}
                        /\ tenant[s] = t})
    /\ \A r \in Reasons :
         closed[r] = Cardinality({s \in Streams : pc[s] = "ended" /\ reason[s] = r})

\* Once the process was signalled it reaches the lifespan shutdown: no open
\* stream keeps uvicorn's drain waiting.
ShutdownCompletes == (signals > 0) ~> (phase = "stopped")

\* A notification queued for a stream is yielded, or the stream ends.
QueuedIsYielded ==
    \A s \in Streams, t \in Tenants : \A k \in 1..MaxNotify[t] :
        (pc[s] = "waiting" /\ Registered(s) /\ tenant[s] = t /\ notified[t] >= k /\ joined[s] < k)
            ~> (joined[s] + Len(received[s]) >= k \/ pc[s] = "ended")

\* Streams are accounted for while they are open and after.
StreamsAccounted == RegisteredWhileOpen /\ StreamAccounting

\* Streams and the process both make progress.
StreamsProgress == ShutdownCompletes /\ QueuedIsYielded

=============================================================================
