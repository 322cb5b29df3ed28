---------------------------- MODULE KafkaProducer ----------------------------
(***************************************************************************)
(* Alert ingestion: the Kafka producer shared by every request of a        *)
(* gateway process (src/services/producers/kafka_producer.py), the two     *)
(* ingestion routes that answer by where the event landed                  *)
(* (src/routes/alerts.py) and the readiness probe that reconnects a cold   *)
(* producer (src/routes/healthcheck.py).                                   *)
(*                                                                         *)
(* A caller is a request of the generic route, a request of the provider   *)
(* route, or a probe (the startup's start() connects the same way).  A     *)
(* step is a stretch of code between two awaits.  The brokers are          *)
(* external: a connection or a send succeeds, fails or times out, and a    *)
(* send that timed out may still be written later.  The clock is           *)
(* abstracted: the produce deadline may have passed after any attempt.     *)
(***************************************************************************)
EXTENDS Integers, FiniteSets

CONSTANTS Callers,
          NoCaller,     \* nobody holds the start lock
          MaxRetries    \* KAFKA_MAX_RETRIES

ASSUME ProducerAssumption ==
    /\ NoCaller \notin Callers
    /\ MaxRetries \in Nat

VARIABLES
    dlqAccept,   \* KEEP_ALERT_DLQ_ACCEPT, read when the process starts
    kind,        \* what each caller is
    pc,          \* where it is
    tryNo,       \* attempts on the main topic it has made
    started,     \* _started
    lock,        \* the holder of _start_lock
    mainUp,      \* the main client is connected
    dlqUp,       \* the DLQ client is connected
    lastError,   \* _last_start_error: "none" or the client that failed
    lastResult,  \* _last_result: "none", "main" or "dlq"
    life,        \* the lifespan: "up", then stop()'s two steps, then "down"
    main,        \* copies of the caller's event in the main topic
    dlq,         \* copies in the DLQ topic
    lateMain,    \* timed-out sends to the main topic that may still land
    lateDlq,     \* timed-out sends to the DLQ topic that may still land
    status,      \* the HTTP status answered, 0 before
    counted      \* ingestion metrics the request incremented, by label

clientVars == <<started, mainUp, dlqUp, lastError>>
topicVars == <<main, dlq, lateMain, lateDlq>>
answerVars == <<status, counted>>
producerVars == <<dlqAccept, kind, pc, tryNo, started, lock, mainUp, dlqUp, lastError, lastResult,
          life, main, dlq, lateMain, lateDlq, status, counted>>

Kinds == {"generic", "provider", "probe"}
PCs == {"idle", "lock", "startMain", "startDlq", "attempt", "dlqStart", "dlqSend", "done"}
Labels == {"success", "dlq", "error"}
Request(c) == kind[c] # "probe"

ProducerInit ==
    /\ dlqAccept \in BOOLEAN
    /\ kind \in [Callers -> Kinds]
    /\ pc = [c \in Callers |-> "idle"]
    /\ tryNo = [c \in Callers |-> 0]
    /\ started = FALSE /\ lock = NoCaller
    /\ mainUp = FALSE /\ dlqUp = FALSE
    /\ lastError = "none" /\ lastResult = "none"
    /\ life = "up"
    /\ main = [c \in Callers |-> 0]
    /\ dlq = [c \in Callers |-> 0]
    /\ lateMain = [c \in Callers |-> 0]
    /\ lateDlq = [c \in Callers |-> 0]
    /\ status = [c \in Callers |-> 0]
    /\ counted = [c \in Callers |-> [l \in Labels |-> 0]]

(***************************************************************************)
(* The answers.                                                            *)
(***************************************************************************)

Count(f, c, ls) == [f EXCEPT ![c] = [l \in Labels |-> @[l] + ls[l]]]

\* Mutated form of Answer: every event that left the gateway is a success.
MutAnswerCountsSuccess(c, sink) ==
    /\ counted' = Count(counted, c,
           [l \in Labels |->
              IF l # "success" THEN 0 ELSE IF kind[c] = "provider" THEN 2 ELSE 1])
    /\ status' = [status EXCEPT ![c] =
                    IF sink = "main" \/ dlqAccept THEN 202 ELSE 503]
    /\ pc' = [pc EXCEPT ![c] = "done"]

\* _ingestion_response, after the provider route's own success count.
Answer(c, sink) ==
    /\ counted' = Count(counted, c,
           [l \in Labels |->
              (IF l = "success" /\ kind[c] = "provider" THEN 1 ELSE 0)
              + (IF l = (IF sink = "dlq" THEN "dlq" ELSE "success") THEN 1 ELSE 0)])
    /\ status' = [status EXCEPT ![c] =
                    IF sink = "main" \/ dlqAccept THEN 202 ELSE 503]
    /\ pc' = [pc EXCEPT ![c] = "done"]

\* Mutated form of Reject: the handler swallows the exception.
MutRejectSwallows(c) ==
    /\ counted' = Count(counted, c,
           [l \in Labels |-> IF l = "error" /\ kind[c] = "generic" THEN 1 ELSE 0])
    /\ status' = [status EXCEPT ![c] = 202]
    /\ pc' = [pc EXCEPT ![c] = "done"]

\* produce() raised: _publish_failed_response on the generic route; the
\* provider route lets it reach the catch-all handler.
Reject(c) ==
    /\ counted' = Count(counted, c,
           [l \in Labels |-> IF l = "error" /\ kind[c] = "generic" THEN 1 ELSE 0])
    /\ status' = [status EXCEPT ![c] = IF kind[c] = "generic" THEN 503 ELSE 500]
    /\ pc' = [pc EXCEPT ![c] = "done"]

(***************************************************************************)
(* _ensure_started()                                                       *)
(***************************************************************************)

\* Where a caller goes once the producer is started.
AfterStart(c) == IF ~Request(c) THEN "done"
                 ELSE IF tryNo[c] < MaxRetries THEN "attempt" ELSE "dlqStart"

BeginCall(c) ==
    /\ pc[c] = "idle" /\ life = "up"
    /\ pc' = [pc EXCEPT ![c] = IF started THEN AfterStart(c) ELSE "lock"]
    /\ UNCHANGED <<dlqAccept, kind, tryNo, clientVars, lock, lastResult, life, topicVars, answerVars>>

\* Mutated form of EnterLock: _started is not checked again under the lock.
MutEnterLockUnchecked(c) ==
    /\ pc[c] = "lock" /\ lock = NoCaller
    /\ pc' = [pc EXCEPT ![c] = "startMain"] /\ lock' = c
    /\ UNCHANGED <<dlqAccept, kind, tryNo, clientVars, lastResult, life, topicVars, answerVars>>

\* The lock is taken; another caller may have connected in the meantime.
EnterLock(c) ==
    /\ pc[c] = "lock" /\ lock = NoCaller
    /\ IF started
       THEN pc' = [pc EXCEPT ![c] = AfterStart(c)] /\ lock' = lock
       ELSE pc' = [pc EXCEPT ![c] = "startMain"] /\ lock' = c
    /\ UNCHANGED <<dlqAccept, kind, tryNo, clientVars, lastResult, life, topicVars, answerVars>>

StartMain(c) ==
    /\ pc[c] = "startMain"
    /\ mainUp' = TRUE
    /\ pc' = [pc EXCEPT ![c] = "startDlq"]
    /\ UNCHANGED <<dlqAccept, kind, tryNo, started, lock, dlqUp, lastError, lastResult, life,
                   topicVars, answerVars>>

StartDlq(c) ==
    /\ pc[c] = "startDlq"
    /\ dlqUp' = TRUE
    /\ started' = TRUE
    /\ lastError' = "none"
    /\ lock' = NoCaller
    /\ pc' = [pc EXCEPT ![c] = AfterStart(c)]
    /\ UNCHANGED <<dlqAccept, kind, tryNo, mainUp, lastResult, life, topicVars, answerVars>>

\* A client's start() raised KafkaConnectionError: a request goes to the DLQ.
StartRefused(c) ==
    /\ pc[c] \in {"startMain", "startDlq"}
    /\ lastError' = IF pc[c] = "startMain" THEN "main" ELSE "dlq"
    /\ lock' = NoCaller
    /\ pc' = [pc EXCEPT ![c] = IF Request(c) THEN "dlqStart" ELSE "done"]
    /\ UNCHANGED <<dlqAccept, kind, tryNo, started, mainUp, dlqUp, lastResult, life, topicVars,
                   answerVars>>

\* It raised something else: produce() raises it; a probe logs it.
StartBroken(c) ==
    /\ pc[c] \in {"startMain", "startDlq"}
    /\ lastError' = IF pc[c] = "startMain" THEN "main" ELSE "dlq"
    /\ lock' = NoCaller
    /\ \/ Request(c) /\ Reject(c)
       \/ ~Request(c) /\ pc' = [pc EXCEPT ![c] = "done"] /\ UNCHANGED answerVars
    /\ UNCHANGED <<dlqAccept, kind, tryNo, started, mainUp, dlqUp, lastResult, life, topicVars>>

\* Mutated form of ProbeTimesOut: the abandoned probe keeps the lock.
MutProbeKeepsLock(c) ==
    /\ ~Request(c) /\ pc[c] \in {"lock", "startMain", "startDlq"}
    /\ lock' = lock
    /\ pc' = [pc EXCEPT ![c] = "done"]
    /\ UNCHANGED <<dlqAccept, kind, tryNo, clientVars, lastResult, life, topicVars, answerVars>>

\* /readyz abandons a check after READYZ_CHECK_TIMEOUT: its task is cancelled
\* wherever it waits, and leaves the lock if it held it.
ProbeTimesOut(c) ==
    /\ ~Request(c) /\ pc[c] \in {"lock", "startMain", "startDlq"}
    /\ lock' = IF lock = c THEN NoCaller ELSE lock
    /\ pc' = [pc EXCEPT ![c] = "done"]
    /\ UNCHANGED <<dlqAccept, kind, tryNo, clientVars, lastResult, life, topicVars, answerVars>>

(***************************************************************************)
(* _produce_with_retry()                                                   *)
(***************************************************************************)

SendAcked(c) ==
    /\ pc[c] = "attempt"
    /\ main' = [main EXCEPT ![c] = @ + 1]
    /\ tryNo' = [tryNo EXCEPT ![c] = @ + 1]
    /\ lastResult' = "main"
    /\ Answer(c, "main")
    /\ UNCHANGED <<dlqAccept, kind, clientVars, lock, life, dlq, lateMain, lateDlq>>

\* Mutated form of NextAttempt: one attempt too many.
MutNextAttemptOffByOne(c) ==
    /\ tryNo' = [tryNo EXCEPT ![c] = @ + 1]
    /\ \/ /\ tryNo[c] < MaxRetries
          /\ UNCHANGED pc
       \/ pc' = [pc EXCEPT ![c] = "dlqStart"]

\* One more attempt failed; the last one, or a passed deadline, means the DLQ.
NextAttempt(c) ==
    /\ tryNo' = [tryNo EXCEPT ![c] = @ + 1]
    /\ \/ /\ tryNo[c] + 1 < MaxRetries
          /\ UNCHANGED pc
       \/ pc' = [pc EXCEPT ![c] = "dlqStart"]

SendFails(c) ==
    /\ pc[c] = "attempt"
    /\ NextAttempt(c)
    /\ UNCHANGED <<dlqAccept, kind, clientVars, lock, lastResult, life, topicVars, answerVars>>

SendTimesOut(c) ==
    /\ pc[c] = "attempt"
    /\ lateMain' = [lateMain EXCEPT ![c] = @ + 1]
    /\ NextAttempt(c)
    /\ UNCHANGED <<dlqAccept, kind, clientVars, lock, lastResult, life, main, dlq, lateDlq, answerVars>>

(***************************************************************************)
(* _send_to_dlq()                                                          *)
(***************************************************************************)

\* The DLQ client is started again; "already started" is ignored.
DlqStarted(c) ==
    /\ pc[c] = "dlqStart"
    /\ dlqUp' = TRUE
    /\ pc' = [pc EXCEPT ![c] = "dlqSend"]
    /\ UNCHANGED <<dlqAccept, kind, tryNo, started, lock, mainUp, lastError, lastResult, life,
                   topicVars, answerVars>>

DlqAcked(c) ==
    /\ pc[c] = "dlqSend"
    /\ dlq' = [dlq EXCEPT ![c] = @ + 1]
    /\ lastResult' = "dlq"
    /\ Answer(c, "dlq")
    /\ UNCHANGED <<dlqAccept, kind, tryNo, clientVars, lock, life, main, lateMain, lateDlq>>

\* Connecting to or writing the DLQ failed, or timed out and may land later.
DlqFails(c) ==
    /\ pc[c] \in {"dlqStart", "dlqSend"}
    /\ \/ UNCHANGED lateDlq
       \/ pc[c] = "dlqSend" /\ lateDlq' = [lateDlq EXCEPT ![c] = @ + 1]
    /\ Reject(c)
    /\ UNCHANGED <<dlqAccept, kind, tryNo, clientVars, lock, lastResult, life, main, dlq, lateMain>>

(***************************************************************************)
(* The brokers, and stop() after the server drained its requests.          *)
(***************************************************************************)

LateLanding(c) ==
    /\ \/ /\ lateMain[c] > 0
          /\ lateMain' = [lateMain EXCEPT ![c] = @ - 1]
          /\ main' = [main EXCEPT ![c] = @ + 1]
          /\ UNCHANGED <<dlq, lateDlq>>
       \/ /\ lateDlq[c] > 0
          /\ lateDlq' = [lateDlq EXCEPT ![c] = @ - 1]
          /\ dlq' = [dlq EXCEPT ![c] = @ + 1]
          /\ UNCHANGED <<main, lateMain>>
    /\ UNCHANGED <<dlqAccept, kind, pc, tryNo, clientVars, lock, lastResult, life, answerVars>>

\* Each client is closed in turn, each close bounded by stop_timeout; only
\* then is _started cleared.
StopMain ==
    /\ life = "up" /\ \A c \in Callers : pc[c] \in {"idle", "done"}
    /\ life' = "stopDlq"
    /\ mainUp' \in {FALSE, mainUp}
    /\ UNCHANGED <<dlqAccept, kind, pc, tryNo, started, dlqUp, lastError, lock, lastResult,
                   topicVars, answerVars>>

StopDlq ==
    /\ life = "stopDlq"
    /\ life' = "down"
    /\ dlqUp' \in {FALSE, dlqUp}
    /\ started' = FALSE
    /\ UNCHANGED <<dlqAccept, kind, pc, tryNo, mainUp, lastError, lock, lastResult, topicVars,
                   answerVars>>

\* The waits of a caller, each of which the code bounds.
CallerStep(c) ==
    \/ EnterLock(c) \/ StartMain(c) \/ StartDlq(c) \/ StartRefused(c) \/ StartBroken(c)
    \/ SendAcked(c) \/ SendFails(c) \/ SendTimesOut(c)
    \/ DlqStarted(c) \/ DlqAcked(c) \/ DlqFails(c)

ProducerNext ==
    \/ \E c \in Callers : BeginCall(c) \/ CallerStep(c) \/ ProbeTimesOut(c) \/ LateLanding(c)
    \/ StopMain \/ StopDlq

\* Every send is bounded by send_timeout, every connection by the client's
\* request timeout, and a released lock goes to its next waiter.
Fairness == \A c \in Callers : WF_producerVars(CallerStep(c))

ProducerSpec == ProducerInit /\ [][ProducerNext]_producerVars
FairSpec == ProducerSpec /\ Fairness

(***************************************************************************)
(* Properties.                                                             *)
(***************************************************************************)

\* The types of the producer's, the callers' and the topics' state.
ProducerTypeOK ==
    /\ dlqAccept \in BOOLEAN
    /\ kind \in [Callers -> Kinds]
    /\ pc \in [Callers -> PCs]
    /\ tryNo \in [Callers -> 0..MaxRetries]
    /\ started \in BOOLEAN /\ mainUp \in BOOLEAN /\ dlqUp \in BOOLEAN
    /\ lock \in Callers \cup {NoCaller}
    /\ lastError \in {"none", "main", "dlq"} /\ lastResult \in {"none", "main", "dlq"}
    /\ life \in {"up", "stopDlq", "down"}
    /\ main \in [Callers -> Nat] /\ dlq \in [Callers -> Nat]
    /\ lateMain \in [Callers -> Nat] /\ lateDlq \in [Callers -> Nat]
    /\ status \in [Callers -> {0, 202, 500, 503}]
    /\ counted \in [Callers -> [Labels -> Nat]]

\* A burst on a cold producer costs one bootstrap: at most one caller connects
\* at a time, it holds the start lock, and nobody connects a started producer.
OneBootstrap ==
    \A c \in Callers : pc[c] \in {"startMain", "startDlq"} => lock = c /\ ~started

\* The start lock is held only by a caller that is connecting: a failure or a
\* probe abandoned half-way leaves it free.
LockNotLeaked ==
    lock # NoCaller => pc[lock] \in {"startMain", "startDlq"}

\* A producer that /readyz reports as connected has both clients connected.
ReadyMeansConnected == life = "up" /\ started => mainUp /\ dlqUp

\* A sender told 202 has its event in the topic that is consumed, or, with
\* KEEP_ALERT_DLQ_ACCEPT, at least in the dead-letter topic.
AcceptedIsStored ==
    \A c \in Callers : status[c] = 202 => main[c] > 0 \/ (dlqAccept /\ dlq[c] > 0)

\* An event in no topic, and with no send that may still land.
Lost(c) == pc[c] = "done" /\ Request(c) /\ main[c] + dlq[c] + lateMain[c] + lateDlq[c] = 0

\* The sender of a lost event gets an error, whichever await failed and in
\* whatever order, and on the generic route one that says to send it again.
LostIsReported ==
    \A c \in Callers : Lost(c) =>
        status[c] \in (IF kind[c] = "generic" THEN {503} ELSE {500, 503})

\* What _publish_failed_response and its test say of every route: a sender whose
\* event reached no topic is answered with a retryable 503, not a 500.
\* receive_event has no handler of its own and breaks it.
LostIsRetryable == \A c \in Callers : Lost(c) => status[c] = 503

\* One event is written to the main topic at most once per attempt and to the
\* DLQ at most once, counting the sends that may still land.
CopiesBounded ==
    \A c \in Callers : /\ main[c] + lateMain[c] <= tryNo[c]
                       /\ dlq[c] + lateDlq[c] <= 1
                       /\ status[c] = 202 /\ ~dlqAccept => dlq[c] + lateDlq[c] = 0

\* On the generic route the ingestion metric is labelled by where the event
\* landed, once per request; the provider route also counts a success first.
CountedWhereItLanded ==
    \A c \in Callers : pc[c] = "done" /\ kind[c] = "generic" =>
        \E l \in Labels :
            /\ counted[c] = [k \in Labels |-> IF k = l THEN 1 ELSE 0]
            /\ l = "success" => main[c] > 0
            /\ l = "dlq" => dlq[c] > 0
            /\ status[c] = 202 => l # "error"
            /\ ~dlqAccept => (status[c] = 202 <=> l = "success")

\* Connecting: one caller at a time, with the lock, which it gives back.
StartIsExclusive == OneBootstrap /\ LockNotLeaked /\ ReadyMeansConnected

\* The answers and the metric say where the event is.
AnswersAreTrue == AcceptedIsStored /\ LostIsReported /\ CopiesBounded /\ CountedWhereItLanded

\* What the sender is promised (module Ingestion) is what the producer and the
\* routes do: 202 accepts, 503 asks for the event again, the provider route's
\* 500 is a bare error, and what happens between the broker clients is not seen.
Answers == [c \in Callers |-> CASE status[c] = 0 -> "none" [] status[c] = 202 -> "accepted"
                                 [] status[c] = 503 -> "retry" [] OTHER -> "error"]
Told == {c \in Callers : kind[c] = "generic"}
Promise == INSTANCE Ingestion WITH
    Senders <- Callers, MaxCopies <- MaxRetries, accept <- dlqAccept, answer <- Answers,
    told <- Told
ImplementsIngestion == Promise!Spec

\* Every request that began is answered and every probe ends: nothing waits
\* for ever on a broker or on the start lock.
EveryCallEnds == \A c \in Callers : (pc[c] # "idle") ~> (pc[c] = "done")

=============================================================================
