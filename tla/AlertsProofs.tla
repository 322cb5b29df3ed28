---------------------------- MODULE AlertsProofs ----------------------------
(***************************************************************************)
(* Proofs about alerts: how they are accepted and published (KafkaProducer), *)
(* and the row that holds the last occurrence of each, with what users set *)
(* on it (LastAlert).                                                      *)
(***************************************************************************)
EXTENDS KafkaProducer, LastAlert, TLAPS
-----------------------------------------------------------------------------

(***************************************************************************)
(* KafkaProducer: for any set of callers and any number of retries, connecting *)
(* is exclusive and leaves the start lock free, the answers and the metric *)
(* say where the event is, and what the producer and the routes do implements *)
(* what the sender is promised (Ingestion).                                *)
(***************************************************************************)

\* Only requests publish, and an attempt is made only while one is left.
PublishesWithinRetries ==
    \A c \in Callers :
        /\ pc[c] \in {"attempt", "dlqStart", "dlqSend"} => kind[c] # "probe"
        /\ pc[c] = "attempt" => tryNo[c] < MaxRetries

\* The main client was connected first, by the caller that now connects the
\* DLQ client; no caller is under way once stop() has begun.
ConnectsInOrder ==
    /\ \A c \in Callers : pc[c] = "startDlq" => mainUp
    /\ life # "up" => \A c \in Callers : pc[c] \in {"idle", "done"}

\* Until a caller is done it has no answer, no metric and nothing in the DLQ.
UnansweredIsBlank ==
    \A c \in Callers : pc[c] # "done" =>
        /\ status[c] = 0 /\ dlq[c] = 0 /\ lateDlq[c] = 0
        /\ counted[c] = [l \in Labels |-> 0]

StartInv == StartIsExclusive /\ ConnectsInOrder
AnswerInv == AnswersAreTrue /\ UnansweredIsBlank

IInv == ProducerTypeOK /\ PublishesWithinRetries /\ StartInv /\ AnswerInv

-----------------------------------------------------------------------------
\* A process starts cold, with no caller under way and empty topics.
LEMMA TypeInit == ProducerInit => ProducerTypeOK /\ PublishesWithinRetries
<1> SUFFICES ASSUME ProducerInit PROVE ProducerTypeOK /\ PublishesWithinRetries
  OBVIOUS
<1>1. dlqAccept \in BOOLEAN
  BY Zenon DEF ProducerInit
<1>2. tryNo \in [Callers -> 0..MaxRetries]
  <2>1. 0 \in 0..MaxRetries
    BY ProducerAssumption
  <2> QED BY <2>1 DEF ProducerInit
<1> QED BY ZenonT(30), <1>1, <1>2 DEF ProducerInit, ProducerTypeOK, PCs, Kinds, Labels, PublishesWithinRetries

\* The counters of the ingestion metric stay counters.
LEMMA CountType ==
    ASSUME NEW f \in [Callers -> [Labels -> Nat]], NEW c \in Callers, NEW ls \in [Labels -> Nat]
    PROVE  Count(f, c, ls) \in [Callers -> [Labels -> Nat]]
<1>1. [l \in Labels |-> f[c][l] + ls[l]] \in [Labels -> Nat]
  OBVIOUS
<1> QED BY <1>1 DEF Count

\* A caller is answered: it is done, and the metric and the status are typed.
AnswerTyped(c) ==
    /\ counted' \in [Callers -> [Labels -> Nat]]
    /\ status' \in [Callers -> {0, 202, 500, 503}]
    /\ pc' = [pc EXCEPT ![c] = "done"]

\* What Answer and Reject assign is well typed.
LEMMA AnswerTypes ==
    ASSUME ProducerTypeOK, NEW c \in Callers,
           Reject(c) \/ \E topic \in {"main", "dlq"} : Answer(c, topic)
    PROVE  AnswerTyped(c)
<1> USE DEF AnswerTyped
<1>1. CASE Reject(c)
  <2> DEFINE ls == [l \in Labels |-> IF l = "error" /\ kind[c] = "generic" THEN 1 ELSE 0]
  <2>1. ls \in [Labels -> Nat]
    OBVIOUS
  <2>2. counted' = Count(counted, c, ls)
    BY <1>1 DEF Reject
  <2> HIDE DEF ls
  <2>3. counted' \in [Callers -> [Labels -> Nat]]
    BY <2>1, <2>2, CountType DEF ProducerTypeOK
  <2>4. status' = [status EXCEPT ![c] = 503] \/ status' = [status EXCEPT ![c] = 500]
    BY <1>1, Zenon DEF Reject
  <2>5. status' \in [Callers -> {0, 202, 500, 503}]
    BY <2>4 DEF ProducerTypeOK
  <2> QED BY <1>1, <2>3, <2>5 DEF Reject
<1>2. ASSUME NEW topic \in {"main", "dlq"}, Answer(c, topic)
      PROVE  AnswerTyped(c)
  <2> DEFINE ls == [l \in Labels |->
              (IF l = "success" /\ kind[c] = "provider" THEN 1 ELSE 0)
              + (IF l = (IF topic = "dlq" THEN "dlq" ELSE "success") THEN 1 ELSE 0)]
  <2>1. ls \in [Labels -> Nat]
    OBVIOUS
  <2>2. counted' = Count(counted, c, ls)
    BY <1>2 DEF Answer
  <2> HIDE DEF ls
  <2>3. counted' \in [Callers -> [Labels -> Nat]]
    BY <2>1, <2>2, CountType DEF ProducerTypeOK
  <2>4. status' = [status EXCEPT ![c] = 202] \/ status' = [status EXCEPT ![c] = 503]
    BY <1>2, Zenon DEF Answer
  <2>5. status' \in [Callers -> {0, 202, 500, 503}]
    BY <2>4 DEF ProducerTypeOK
  <2> QED BY <1>2, <2>3, <2>5 DEF Answer
<1> QED BY <1>1, <1>2

\* A send that lands late moves one copy from the sends under way to the topic.
LEMMA LandingTypes ==
    ASSUME ProducerTypeOK, NEW c \in Callers, LateLanding(c)
    PROVE  /\ main' \in [Callers -> Nat] /\ dlq' \in [Callers -> Nat]
           /\ lateMain' \in [Callers -> Nat] /\ lateDlq' \in [Callers -> Nat]
<1>t. /\ main \in [Callers -> Nat] /\ dlq \in [Callers -> Nat]
      /\ lateMain \in [Callers -> Nat] /\ lateDlq \in [Callers -> Nat]
  BY DEF ProducerTypeOK
<1>1. CASE lateMain[c] > 0 /\ lateMain' = [lateMain EXCEPT ![c] = @ - 1]
  <2>1. lateMain[c] - 1 \in Nat
    BY <1>t, <1>1
  <2> QED BY <1>t, <1>1, <2>1 DEF LateLanding
<1>2. CASE lateDlq[c] > 0 /\ lateDlq' = [lateDlq EXCEPT ![c] = @ - 1]
  <2>1. lateDlq[c] - 1 \in Nat
    BY <1>t, <1>2
  <2> QED BY <1>t, <1>2, <2>1 DEF LateLanding
<1> QED BY <1>1, <1>2 DEF LateLanding

\* A failed attempt is counted, and another is made only while one is left.
LEMMA AttemptTypes ==
    ASSUME ProducerTypeOK, PublishesWithinRetries, NEW c \in Callers,
           pc[c] = "attempt", NextAttempt(c), UNCHANGED kind
    PROVE  /\ pc' \in [Callers -> PCs]
           /\ tryNo' \in [Callers -> 0..MaxRetries]
           /\ PublishesWithinRetries'
<1>1. /\ pc \in [Callers -> PCs] /\ tryNo \in [Callers -> 0..MaxRetries] /\ MaxRetries \in Nat
      /\ tryNo' = [tryNo EXCEPT ![c] = @ + 1]
  BY ProducerAssumption DEF ProducerTypeOK, NextAttempt
<1>2. kind[c] # "probe" /\ tryNo[c] < MaxRetries
  BY DEF PublishesWithinRetries
<1>3. tryNo[c] + 1 \in 0..MaxRetries
  BY <1>1, <1>2
<1>4. tryNo' \in [Callers -> 0..MaxRetries]
  BY <1>1, <1>3
<1>5. CASE tryNo[c] + 1 < MaxRetries /\ UNCHANGED pc
  BY <1>1, <1>4, <1>5 DEF PublishesWithinRetries
<1>6. CASE pc' = [pc EXCEPT ![c] = "dlqStart"]
  <2>1. pc' \in [Callers -> PCs]
    BY <1>1, <1>6 DEF PCs
  <2> QED BY <1>1, <1>2, <1>4, <1>6, <2>1 DEF PublishesWithinRetries
<1> QED BY <1>5, <1>6 DEF NextAttempt

\* Every step of the producer keeps the types of its state, and no attempt is
\* made beyond the last.
LEMMA TypeStep ==
    ProducerTypeOK /\ PublishesWithinRetries /\ [ProducerNext]_producerVars => ProducerTypeOK' /\ PublishesWithinRetries'
<1> SUFFICES ASSUME ProducerTypeOK, PublishesWithinRetries, [ProducerNext]_producerVars
             PROVE  ProducerTypeOK' /\ PublishesWithinRetries'
  OBVIOUS
<1> USE ProducerAssumption DEF ProducerTypeOK, PCs, Kinds, PublishesWithinRetries
<1>1. ASSUME NEW c \in Callers, BeginCall(c) PROVE ProducerTypeOK' /\ PublishesWithinRetries'
  BY <1>1 DEF BeginCall, AfterStart, Request, clientVars, topicVars, answerVars
<1>2. ASSUME NEW c \in Callers, EnterLock(c) PROVE ProducerTypeOK' /\ PublishesWithinRetries'
  BY <1>2 DEF EnterLock, AfterStart, Request, clientVars, topicVars, answerVars
<1>3. ASSUME NEW c \in Callers, StartMain(c) PROVE ProducerTypeOK' /\ PublishesWithinRetries'
  BY <1>3 DEF StartMain, Request, topicVars, answerVars
<1>4. ASSUME NEW c \in Callers, StartDlq(c) PROVE ProducerTypeOK' /\ PublishesWithinRetries'
  BY <1>4 DEF StartDlq, AfterStart, Request, topicVars, answerVars
<1>5. ASSUME NEW c \in Callers, StartRefused(c) PROVE ProducerTypeOK' /\ PublishesWithinRetries'
  BY <1>5 DEF StartRefused, Request, topicVars, answerVars
<1>6. ASSUME NEW c \in Callers, StartBroken(c) PROVE ProducerTypeOK' /\ PublishesWithinRetries'
  <2>1. CASE Reject(c)
    <3>1. AnswerTyped(c)
      BY <2>1, AnswerTypes
    <3> QED BY <1>6, <3>1 DEF AnswerTyped, StartBroken, Request, topicVars
  <2>2. CASE ~Reject(c)
    BY <1>6, <2>2 DEF StartBroken, Request, topicVars, answerVars
  <2> QED BY <2>1, <2>2
<1>7. ASSUME NEW c \in Callers, ProbeTimesOut(c) PROVE ProducerTypeOK' /\ PublishesWithinRetries'
  BY <1>7 DEF ProbeTimesOut, Request, clientVars, topicVars, answerVars
<1>8. ASSUME NEW c \in Callers, SendAcked(c) PROVE ProducerTypeOK' /\ PublishesWithinRetries'
  <2>1. AnswerTyped(c)
    BY <1>8, AnswerTypes DEF SendAcked
  <2>2. /\ pc' = [pc EXCEPT ![c] = "done"]
        /\ UNCHANGED kind
        /\ tryNo' \in [Callers -> 0..MaxRetries]
    BY <1>8, <2>1 DEF AnswerTyped, SendAcked
  <2>3. PublishesWithinRetries'
    BY <1>8, <2>2 DEF SendAcked
  <2> QED BY <1>8, <2>1, <2>2, <2>3 DEF AnswerTyped, SendAcked, clientVars
<1>9. ASSUME NEW c \in Callers, SendFails(c) PROVE ProducerTypeOK' /\ PublishesWithinRetries'
  <2>1. /\ pc' \in [Callers -> PCs] /\ tryNo' \in [Callers -> 0..MaxRetries]
        /\ PublishesWithinRetries'
    BY <1>9, AttemptTypes DEF SendFails
  <2> QED BY <1>9, <2>1 DEF SendFails, Request, clientVars, topicVars, answerVars
<1>10. ASSUME NEW c \in Callers, SendTimesOut(c) PROVE ProducerTypeOK' /\ PublishesWithinRetries'
  <2>1. /\ pc' \in [Callers -> PCs] /\ tryNo' \in [Callers -> 0..MaxRetries]
        /\ PublishesWithinRetries'
    BY <1>10, AttemptTypes DEF SendTimesOut
  <2>2. lateMain' \in [Callers -> Nat]
    BY <1>10 DEF SendTimesOut
  <2> QED BY <1>10, <2>1, <2>2 DEF SendTimesOut, Request, clientVars, answerVars
<1>11. ASSUME NEW c \in Callers, DlqStarted(c) PROVE ProducerTypeOK' /\ PublishesWithinRetries'
  BY <1>11 DEF DlqStarted, Request, topicVars, answerVars
<1>12. ASSUME NEW c \in Callers, DlqAcked(c) PROVE ProducerTypeOK' /\ PublishesWithinRetries'
  <2>1. AnswerTyped(c)
    BY <1>12, AnswerTypes DEF DlqAcked
  <2>2. /\ pc' = [pc EXCEPT ![c] = "done"]
        /\ UNCHANGED kind
        /\ tryNo' \in [Callers -> 0..MaxRetries]
    BY <1>12, <2>1 DEF AnswerTyped, DlqAcked
  <2>3. PublishesWithinRetries'
    BY <1>12, <2>2 DEF DlqAcked
  <2> QED BY <1>12, <2>1, <2>2, <2>3 DEF AnswerTyped, DlqAcked, clientVars
<1>13. ASSUME NEW c \in Callers, DlqFails(c) PROVE ProducerTypeOK' /\ PublishesWithinRetries'
  <2>1. AnswerTyped(c)
    BY <1>13, AnswerTypes DEF DlqFails
  <2>2. /\ pc' = [pc EXCEPT ![c] = "done"]
        /\ UNCHANGED kind
        /\ tryNo' \in [Callers -> 0..MaxRetries]
    BY <1>13, <2>1 DEF AnswerTyped, DlqFails
  <2>3. PublishesWithinRetries'
    BY <1>13, <2>2 DEF DlqFails
  <2> QED BY SMTT(30), <1>13, <2>1, <2>2, <2>3 DEF AnswerTyped, DlqFails, clientVars
<1>14. ASSUME NEW c \in Callers, LateLanding(c) PROVE ProducerTypeOK' /\ PublishesWithinRetries'
  <2>1. /\ main' \in [Callers -> Nat] /\ dlq' \in [Callers -> Nat]
        /\ lateMain' \in [Callers -> Nat] /\ lateDlq' \in [Callers -> Nat]
    BY <1>14, LandingTypes
  <2> QED BY <1>14, <2>1 DEF LateLanding, clientVars, answerVars
<1>15. CASE StopMain
  <2>1. life' \in {"up", "stopDlq", "down"} /\ mainUp' \in BOOLEAN
    BY <1>15 DEF StopMain
  <2>2. UNCHANGED <<dlqAccept, kind, pc, tryNo, started, dlqUp, lock, lastError, lastResult,
                    main, dlq, lateMain, lateDlq, status, counted>>
    BY <1>15, Zenon DEF StopMain, topicVars, answerVars
  <2> QED BY <2>1, <2>2 DEF Request
<1>16. CASE StopDlq
  <2>1. life' \in {"up", "stopDlq", "down"} /\ dlqUp' \in BOOLEAN /\ started' \in BOOLEAN
    BY <1>16 DEF StopDlq
  <2>2. UNCHANGED <<dlqAccept, kind, pc, tryNo, mainUp, lock, lastError, lastResult,
                    main, dlq, lateMain, lateDlq, status, counted>>
    BY <1>16, Zenon DEF StopDlq, topicVars, answerVars
  <2> QED BY <2>1, <2>2 DEF Request
<1>17. CASE UNCHANGED producerVars
  BY <1>17 DEF producerVars, Request
<1> QED
  BY <1>1, <1>2, <1>3, <1>4, <1>5, <1>6, <1>7, <1>8, <1>9, <1>10, <1>11, <1>12, <1>13,
     <1>14, <1>15, <1>16, <1>17 DEF ProducerNext, CallerStep

\* The producer's state is well typed in every reachable state: no sequence of
\* retries, timeouts and late landings leaves the counters' ranges.
THEOREM ProducerTypeCorrect == ProducerSpec => []ProducerTypeOK
BY TypeInit, TypeStep, PTL DEF ProducerSpec

-----------------------------------------------------------------------------
\* _ensure_started() under the start lock: one caller connects at a time, the
\* lock is given back by every exit, and a ready producer has both clients.
LEMMA StartStep == ProducerTypeOK /\ StartInv /\ [ProducerNext]_producerVars => StartInv'
<1> SUFFICES ASSUME ProducerTypeOK, StartInv, [ProducerNext]_producerVars PROVE StartInv'
  OBVIOUS
<1>t. /\ pc \in [Callers -> PCs] /\ NoCaller \notin Callers
      /\ started \in BOOLEAN /\ mainUp \in BOOLEAN /\ dlqUp \in BOOLEAN
  BY ProducerAssumption DEF ProducerTypeOK
<1> USE <1>t DEF StartInv, StartIsExclusive, OneBootstrap, LockNotLeaked, ReadyMeansConnected,
                 ConnectsInOrder, PCs
<1>1. ASSUME NEW c \in Callers, BeginCall(c) PROVE StartInv'
  BY <1>1 DEF BeginCall, AfterStart, clientVars
<1>2. ASSUME NEW c \in Callers, EnterLock(c) PROVE StartInv'
  BY <1>2 DEF EnterLock, AfterStart, clientVars
<1>3. ASSUME NEW c \in Callers, StartMain(c) PROVE StartInv'
  BY <1>3 DEF StartMain
<1>4. ASSUME NEW c \in Callers, StartDlq(c) PROVE StartInv'
  BY <1>4 DEF StartDlq, AfterStart
<1>5. ASSUME NEW c \in Callers, StartRefused(c) PROVE StartInv'
  BY <1>5 DEF StartRefused
<1>6. ASSUME NEW c \in Callers, StartBroken(c) PROVE StartInv'
  <2>1. pc' = [pc EXCEPT ![c] = "done"]
    BY <1>6 DEF StartBroken, Reject
  <2> QED BY <1>6, <2>1 DEF StartBroken
<1>7. ASSUME NEW c \in Callers, ProbeTimesOut(c) PROVE StartInv'
  BY <1>7 DEF ProbeTimesOut, clientVars
<1>8. ASSUME NEW c \in Callers, SendAcked(c) PROVE StartInv'
  BY <1>8 DEF SendAcked, Answer, clientVars
<1>9. ASSUME NEW c \in Callers, SendFails(c) \/ SendTimesOut(c) PROVE StartInv'
  <2>1. /\ pc' = pc \/ pc' = [pc EXCEPT ![c] = "dlqStart"]
        /\ UNCHANGED <<started, lock, mainUp, dlqUp, life>>
    BY <1>9 DEF SendFails, SendTimesOut, NextAttempt, clientVars
  <2>2. pc[c] = "attempt"
    BY <1>9 DEF SendFails, SendTimesOut
  <2>3. CASE pc' = pc
    BY <2>1, <2>3
  <2>4. CASE pc' = [pc EXCEPT ![c] = "dlqStart"]
    BY <2>1, <2>2, <2>4
  <2> QED BY <2>1, <2>3, <2>4
<1>10. ASSUME NEW c \in Callers, DlqStarted(c) PROVE StartInv'
  BY <1>10 DEF DlqStarted
<1>11. ASSUME NEW c \in Callers, DlqAcked(c) PROVE StartInv'
  BY <1>11 DEF DlqAcked, Answer, clientVars
<1>12. ASSUME NEW c \in Callers, DlqFails(c) PROVE StartInv'
  BY <1>12 DEF DlqFails, Reject, clientVars
<1>13. ASSUME NEW c \in Callers, LateLanding(c) PROVE StartInv'
  BY <1>13 DEF LateLanding, clientVars
<1>14. CASE StopMain
  BY <1>14 DEF StopMain
<1>15. CASE StopDlq
  BY <1>15 DEF StopDlq
<1>16. CASE UNCHANGED producerVars
  BY <1>16 DEF producerVars
<1> QED
  BY <1>1, <1>2, <1>3, <1>4, <1>5, <1>6, <1>7, <1>8, <1>9, <1>10, <1>11, <1>12, <1>13,
     <1>14, <1>15, <1>16 DEF ProducerNext, CallerStep

\* A process starts disconnected with the start lock free.
LEMMA StartInit == ProducerInit => StartInv
BY ProducerAssumption DEF ProducerInit, StartInv, StartIsExclusive, OneBootstrap, LockNotLeaked,
                          ReadyMeansConnected, ConnectsInOrder

-----------------------------------------------------------------------------
\* The part of AnswerInv that is about one caller.
Landed(c) ==
    /\ status[c] = 202 => main[c] > 0 \/ (dlqAccept /\ dlq[c] > 0)
    /\ pc[c] = "done" /\ kind[c] # "probe" /\ main[c] + dlq[c] + lateMain[c] + lateDlq[c] = 0
         => status[c] \in (IF kind[c] = "generic" THEN {503} ELSE {500, 503})

Bounded(c) ==
    /\ main[c] + lateMain[c] <= tryNo[c]
    /\ dlq[c] + lateDlq[c] <= 1
    /\ status[c] = 202 /\ ~dlqAccept => dlq[c] + lateDlq[c] = 0

One(l) == [k \in Labels |-> IF k = l THEN 1 ELSE 0]

Counted(c) ==
    pc[c] = "done" /\ kind[c] = "generic" =>
        \E l \in Labels :
            /\ counted[c] = One(l)
            /\ l = "success" => main[c] > 0
            /\ l = "dlq" => dlq[c] > 0
            /\ status[c] = 202 => l # "error"
            /\ ~dlqAccept => (status[c] = 202 <=> l = "success")

BlankCall(c) ==
    pc[c] # "done" =>
        /\ status[c] = 0 /\ dlq[c] = 0 /\ lateDlq[c] = 0
        /\ counted[c] = [l \in Labels |-> 0]

AnswerOf(c) == Landed(c) /\ Bounded(c) /\ Counted(c) /\ BlankCall(c)

\* The invariant of the answers speaks of each caller alone.
LEMMA AnswerPointwise == AnswerInv <=> \A c \in Callers : AnswerOf(c)
BY DEF AnswerInv, AnswersAreTrue, AcceptedIsStored, LostIsReported, Lost, CopiesBounded,
       CountedWhereItLanded, UnansweredIsBlank, AnswerOf, Landed, Bounded, Counted, BlankCall,
       One, Request

\* A step that leaves a caller's copies, status and metric alone, and does not
\* end a request, keeps what is said of that caller.
LEMMA QuietForCaller ==
    ASSUME ProducerTypeOK, NEW d \in Callers, AnswerOf(d), UNCHANGED <<dlqAccept, kind>>,
           main'[d] = main[d], dlq'[d] = dlq[d],
           lateMain'[d] = lateMain[d], lateDlq'[d] = lateDlq[d],
           status'[d] = status[d], counted'[d] = counted[d],
           tryNo'[d] \in {tryNo[d], tryNo[d] + 1},
           \/ pc'[d] = pc[d]
           \/ pc[d] # "done" /\ (pc'[d] # "done" \/ kind[d] = "probe")
    PROVE  AnswerOf(d)'
<1>t. /\ tryNo[d] \in Nat /\ main[d] \in Nat /\ lateMain[d] \in Nat
  BY ProducerAssumption DEF ProducerTypeOK
<1>1. Landed(d)'
  BY DEF AnswerOf, Landed
<1>2. Bounded(d)'
  BY <1>t DEF AnswerOf, Bounded
<1>3. Counted(d)'
  BY DEF AnswerOf, Counted
<1>4. BlankCall(d)'
  BY DEF AnswerOf, BlankCall
<1> QED BY <1>1, <1>2, <1>3, <1>4 DEF AnswerOf

\* The metric of a request that had none is set by one label.
LEMMA CountOne ==
    ASSUME ProducerTypeOK, NEW c \in Callers, NEW l \in Labels, kind[c] = "generic",
           counted[c] = [k \in Labels |-> 0]
    PROVE  /\ Answer(c, "main") /\ l = "success" => counted'[c] = One(l)
           /\ Answer(c, "dlq") /\ l = "dlq" => counted'[c] = One(l)
           /\ Reject(c) /\ l = "error" => counted'[c] = One(l)
<1>t. counted \in [Callers -> [Labels -> Nat]]
  BY DEF ProducerTypeOK
<1>1. ASSUME Answer(c, "main"), l = "success" PROVE counted'[c] = One(l)
  BY <1>t, <1>1 DEF Answer, Count, One, Labels
<1>2. ASSUME Answer(c, "dlq"), l = "dlq" PROVE counted'[c] = One(l)
  BY <1>t, <1>2 DEF Answer, Count, One, Labels
<1>3. ASSUME Reject(c), l = "error" PROVE counted'[c] = One(l)
  BY <1>t, <1>3 DEF Reject, Count, One, Labels
<1> QED BY <1>1, <1>2, <1>3

\* _ingestion_response: an acknowledged send of the main topic is a 202.
LEMMA AckedForCaller ==
    ASSUME ProducerTypeOK, PublishesWithinRetries, NEW c \in Callers, AnswerOf(c), SendAcked(c)
    PROVE  AnswerOf(c)'
<1>t. /\ tryNo[c] \in Nat /\ main[c] \in Nat /\ lateMain[c] \in Nat
      /\ dlq[c] \in Nat /\ lateDlq[c] \in Nat
  BY ProducerAssumption DEF ProducerTypeOK
<1>1. /\ main'[c] = main[c] + 1 /\ tryNo'[c] = tryNo[c] + 1
      /\ lateMain'[c] = lateMain[c] /\ dlq'[c] = dlq[c] /\ lateDlq'[c] = lateDlq[c]
      /\ UNCHANGED <<dlqAccept, kind>>
  BY DEF SendAcked, ProducerTypeOK
<1>2. pc'[c] = "done" /\ status'[c] = 202
  BY DEF SendAcked, Answer, ProducerTypeOK
<1>3. dlq[c] = 0 /\ lateDlq[c] = 0 /\ counted[c] = [l \in Labels |-> 0]
  BY DEF SendAcked, AnswerOf, BlankCall
<1>4. Landed(c)'
  BY <1>t, <1>1, <1>2 DEF Landed
<1>5. Bounded(c)'
  BY <1>t, <1>1, <1>2, <1>3 DEF Bounded, AnswerOf
<1>6. Counted(c)'
  <2> SUFFICES ASSUME kind[c] = "generic"
               PROVE  \E l \in Labels :
                        /\ counted'[c] = One(l)
                        /\ l = "success" => main'[c] > 0
                        /\ l = "dlq" => dlq'[c] > 0
                        /\ status'[c] = 202 => l # "error"
                        /\ ~dlqAccept => (status'[c] = 202 <=> l = "success")
    BY <1>1 DEF Counted, One
  <2>1. "success" \in Labels
    BY DEF Labels
  <2>2. counted'[c] = One("success")
    BY <1>3, <2>1, CountOne DEF SendAcked
  <2>3. main'[c] > 0
    BY <1>t, <1>1
  <2> QED BY <1>2, <2>1, <2>2, <2>3
<1>7. BlankCall(c)'
  BY <1>2 DEF BlankCall
<1> QED BY <1>4, <1>5, <1>6, <1>7 DEF AnswerOf

\* An event written to the DLQ is a 202 only where the operator chose so.
LEMMA DlqForCaller ==
    ASSUME ProducerTypeOK, NEW c \in Callers, AnswerOf(c), DlqAcked(c)
    PROVE  AnswerOf(c)'
<1>t. /\ tryNo[c] \in Nat /\ main[c] \in Nat /\ lateMain[c] \in Nat
      /\ dlq[c] \in Nat /\ lateDlq[c] \in Nat
  BY ProducerAssumption DEF ProducerTypeOK
<1>1. /\ main'[c] = main[c] /\ tryNo'[c] = tryNo[c]
      /\ lateMain'[c] = lateMain[c] /\ dlq'[c] = dlq[c] + 1 /\ lateDlq'[c] = lateDlq[c]
      /\ UNCHANGED <<dlqAccept, kind>>
  BY DEF DlqAcked, ProducerTypeOK
<1>2. pc'[c] = "done"
  BY DEF DlqAcked, Answer, ProducerTypeOK
<1>3. \/ dlqAccept /\ status'[c] = 202
      \/ ~dlqAccept /\ status'[c] = 503
  BY DEF DlqAcked, Answer, ProducerTypeOK
<1>4. dlq[c] = 0 /\ lateDlq[c] = 0 /\ counted[c] = [l \in Labels |-> 0]
  BY DEF DlqAcked, AnswerOf, BlankCall
<1>5. Landed(c)'
  BY <1>t, <1>1, <1>2, <1>3, <1>4 DEF Landed
<1>6. Bounded(c)'
  BY <1>t, <1>1, <1>2, <1>3, <1>4 DEF Bounded, AnswerOf
<1>7. Counted(c)'
  <2> SUFFICES ASSUME kind[c] = "generic"
               PROVE  \E l \in Labels :
                        /\ counted'[c] = One(l)
                        /\ l = "success" => main'[c] > 0
                        /\ l = "dlq" => dlq'[c] > 0
                        /\ status'[c] = 202 => l # "error"
                        /\ ~dlqAccept => (status'[c] = 202 <=> l = "success")
    BY <1>1 DEF Counted, One
  <2>1. "dlq" \in Labels
    BY DEF Labels
  <2>2. counted'[c] = One("dlq")
    BY <1>4, <2>1, CountOne DEF DlqAcked
  <2>3. dlq'[c] > 0
    BY <1>t, <1>1
  <2> QED BY <1>3, <2>1, <2>2, <2>3
<1>8. BlankCall(c)'
  BY <1>2 DEF BlankCall
<1> QED BY <1>5, <1>6, <1>7, <1>8 DEF AnswerOf

\* _publish_failed_response: whatever became of the event, the sender got an
\* error and the generic route counted it as one.
LEMMA RejectForCaller ==
    ASSUME ProducerTypeOK, NEW c \in Callers, AnswerOf(c), pc[c] # "done", Reject(c),
           UNCHANGED <<dlqAccept, kind, tryNo, main, lateMain, dlq>>,
           lateDlq'[c] \in {lateDlq[c], lateDlq[c] + 1}
    PROVE  AnswerOf(c)'
<1>t. /\ tryNo[c] \in Nat /\ main[c] \in Nat /\ lateMain[c] \in Nat
      /\ dlq[c] \in Nat /\ lateDlq[c] \in Nat
  BY ProducerAssumption DEF ProducerTypeOK
<1>1. pc'[c] = "done" /\ status'[c] \in {500, 503} /\ (kind[c] = "generic" => status'[c] = 503)
  BY DEF Reject, ProducerTypeOK
<1>2. dlq[c] = 0 /\ lateDlq[c] = 0 /\ counted[c] = [l \in Labels |-> 0]
  BY DEF AnswerOf, BlankCall
<1>3. Landed(c)'
  BY <1>1 DEF Landed
<1>4. Bounded(c)'
  BY <1>t, <1>1, <1>2 DEF Bounded, AnswerOf
<1>5. Counted(c)'
  <2> SUFFICES ASSUME kind[c] = "generic"
               PROVE  \E l \in Labels :
                        /\ counted'[c] = One(l)
                        /\ l = "success" => main'[c] > 0
                        /\ l = "dlq" => dlq'[c] > 0
                        /\ status'[c] = 202 => l # "error"
                        /\ ~dlqAccept => (status'[c] = 202 <=> l = "success")
    BY DEF Counted, One
  <2>1. "error" \in Labels
    BY DEF Labels
  <2>2. counted'[c] = One("error")
    BY <1>2, <2>1, CountOne
  <2> QED BY <1>1, <2>1, <2>2
<1>6. BlankCall(c)'
  BY <1>1 DEF BlankCall
<1> QED BY <1>3, <1>4, <1>5, <1>6 DEF AnswerOf

\* A send given up, and one that lands late, keep the bound on the copies.
LEMMA LateForCaller ==
    ASSUME ProducerTypeOK, NEW c \in Callers, AnswerOf(c), SendTimesOut(c) \/ LateLanding(c)
    PROVE  AnswerOf(c)'
<1>t. /\ tryNo[c] \in Nat /\ main[c] \in Nat /\ lateMain[c] \in Nat
      /\ dlq[c] \in Nat /\ lateDlq[c] \in Nat
  BY ProducerAssumption DEF ProducerTypeOK
<1>1. CASE SendTimesOut(c)
  <2>1. /\ lateMain'[c] = lateMain[c] + 1 /\ tryNo'[c] = tryNo[c] + 1
        /\ UNCHANGED <<dlqAccept, kind, main, dlq, lateDlq, status, counted>>
        /\ pc[c] # "done" /\ pc'[c] # "done"
    BY <1>1 DEF SendTimesOut, NextAttempt, answerVars, ProducerTypeOK
  <2>2. Landed(c)' /\ Counted(c)' /\ BlankCall(c)'
    BY <2>1 DEF AnswerOf, Landed, Counted, BlankCall
  <2>3. Bounded(c)'
    BY <1>t, <2>1 DEF AnswerOf, Bounded
  <2> QED BY <2>2, <2>3 DEF AnswerOf
<1>2. CASE LateLanding(c)
  <2>1. UNCHANGED <<dlqAccept, kind, pc, tryNo, status, counted>>
    BY <1>2 DEF LateLanding, answerVars
  <2>2. \/ /\ lateMain[c] > 0 /\ lateMain'[c] = lateMain[c] - 1 /\ main'[c] = main[c] + 1
           /\ dlq'[c] = dlq[c] /\ lateDlq'[c] = lateDlq[c]
        \/ /\ lateDlq[c] > 0 /\ lateDlq'[c] = lateDlq[c] - 1 /\ dlq'[c] = dlq[c] + 1
           /\ main'[c] = main[c] /\ lateMain'[c] = lateMain[c]
    BY <1>2 DEF LateLanding, ProducerTypeOK
  <2>3. Landed(c)'
    BY <1>t, <2>1, <2>2 DEF AnswerOf, Landed
  <2>4. Bounded(c)'
    BY <1>t, <2>1, <2>2 DEF AnswerOf, Bounded
  <2>5. Counted(c)'
    BY <1>t, <2>1, <2>2 DEF AnswerOf, Counted
  <2>6. BlankCall(c)'
    BY <1>t, <2>1, <2>2 DEF AnswerOf, BlankCall
  <2> QED BY <2>3, <2>4, <2>5, <2>6 DEF AnswerOf
<1> QED BY <1>1, <1>2

\* What a caller does says nothing new of another.
LEMMA OthersUntouched ==
    ASSUME ProducerTypeOK, NEW c \in Callers, NEW d \in Callers, d # c,
           CallerStep(c) \/ BeginCall(c) \/ ProbeTimesOut(c) \/ LateLanding(c)
    PROVE  /\ UNCHANGED <<dlqAccept, kind>>
           /\ main'[d] = main[d] /\ dlq'[d] = dlq[d]
           /\ lateMain'[d] = lateMain[d] /\ lateDlq'[d] = lateDlq[d]
           /\ status'[d] = status[d] /\ counted'[d] = counted[d]
           /\ tryNo'[d] = tryNo[d] /\ pc'[d] = pc[d]
<1> USE DEF ProducerTypeOK, topicVars, answerVars
<1>1. CASE BeginCall(c)
  BY <1>1 DEF BeginCall
<1>2. CASE EnterLock(c)
  BY <1>2 DEF EnterLock
<1>3. CASE StartMain(c)
  BY <1>3 DEF StartMain
<1>4. CASE StartDlq(c)
  BY <1>4 DEF StartDlq
<1>5. CASE StartRefused(c)
  BY <1>5 DEF StartRefused
<1>6. CASE StartBroken(c)
  BY <1>6 DEF StartBroken, Reject, Count
<1>7. CASE ProbeTimesOut(c)
  BY <1>7 DEF ProbeTimesOut
<1>8. CASE SendAcked(c)
  BY <1>8 DEF SendAcked, Answer, Count
<1>9. CASE SendFails(c)
  BY <1>9 DEF SendFails, NextAttempt
<1>10. CASE SendTimesOut(c)
  BY <1>10 DEF SendTimesOut, NextAttempt
<1>11. CASE DlqStarted(c)
  BY <1>11 DEF DlqStarted
<1>12. CASE DlqAcked(c)
  BY <1>12 DEF DlqAcked, Answer, Count
<1>13. CASE DlqFails(c)
  BY <1>13 DEF DlqFails, Reject, Count
<1>14. CASE LateLanding(c)
  BY <1>14 DEF LateLanding
<1> QED BY <1>1, <1>2, <1>3, <1>4, <1>5, <1>6, <1>7,
           <1>8, <1>9, <1>10, <1>11, <1>12, <1>13, <1>14 DEF CallerStep

\* The answers of _ingestion_response and _publish_failed_response: each step
\* keeps them true of the caller that takes it and of every other.
LEMMA AnswerStep ==
    ProducerTypeOK /\ PublishesWithinRetries /\ AnswerInv /\ [ProducerNext]_producerVars => AnswerInv'
<1>p. AnswerInv' <=> (\A c \in Callers : AnswerOf(c))'
  BY AnswerPointwise, PTL
<1> SUFFICES ASSUME ProducerTypeOK, PublishesWithinRetries, AnswerInv, [ProducerNext]_producerVars, NEW d \in Callers
             PROVE  AnswerOf(d)'
  BY <1>p
<1>1. \A e \in Callers : AnswerOf(e)
  BY AnswerPointwise
<1>2. ASSUME NEW c \in Callers, c # d,
             CallerStep(c) \/ BeginCall(c) \/ ProbeTimesOut(c) \/ LateLanding(c)
      PROVE  AnswerOf(d)'
  BY <1>1, <1>2, OthersUntouched, QuietForCaller
<1>3. ASSUME CallerStep(d) \/ BeginCall(d) \/ ProbeTimesOut(d) \/ LateLanding(d)
      PROVE  AnswerOf(d)'
  <2> USE <1>1
  <2>1. CASE BeginCall(d)
    <3>1. /\ UNCHANGED <<dlqAccept, kind, main, dlq, lateMain, lateDlq, status, counted>>
          /\ tryNo'[d] \in {tryNo[d], tryNo[d] + 1}
          /\ pc[d] # "done" /\ (pc'[d] # "done" \/ kind[d] = "probe")
      BY <2>1 DEF BeginCall, AfterStart, Request, topicVars, answerVars, ProducerTypeOK
    <3> QED BY <3>1, QuietForCaller
  <2>2. CASE EnterLock(d)
    <3>1. /\ UNCHANGED <<dlqAccept, kind, main, dlq, lateMain, lateDlq, status, counted>>
          /\ tryNo'[d] \in {tryNo[d], tryNo[d] + 1}
          /\ pc[d] # "done" /\ (pc'[d] # "done" \/ kind[d] = "probe")
      BY <2>2 DEF EnterLock, AfterStart, Request, topicVars, answerVars, ProducerTypeOK
    <3> QED BY <3>1, QuietForCaller
  <2>3. CASE StartMain(d)
    <3>1. /\ UNCHANGED <<dlqAccept, kind, main, dlq, lateMain, lateDlq, status, counted>>
          /\ tryNo'[d] \in {tryNo[d], tryNo[d] + 1}
          /\ pc[d] # "done" /\ (pc'[d] # "done" \/ kind[d] = "probe")
      BY <2>3 DEF StartMain, topicVars, answerVars, ProducerTypeOK
    <3> QED BY <3>1, QuietForCaller
  <2>4. CASE StartDlq(d)
    <3>1. /\ UNCHANGED <<dlqAccept, kind, main, dlq, lateMain, lateDlq, status, counted>>
          /\ tryNo'[d] \in {tryNo[d], tryNo[d] + 1}
          /\ pc[d] # "done" /\ (pc'[d] # "done" \/ kind[d] = "probe")
      BY <2>4 DEF StartDlq, AfterStart, Request, topicVars, answerVars, ProducerTypeOK
    <3> QED BY <3>1, QuietForCaller
  <2>5. CASE StartRefused(d)
    <3>1. /\ UNCHANGED <<dlqAccept, kind, main, dlq, lateMain, lateDlq, status, counted>>
          /\ tryNo'[d] \in {tryNo[d], tryNo[d] + 1}
          /\ pc[d] # "done" /\ (pc'[d] # "done" \/ kind[d] = "probe")
      BY <2>5 DEF StartRefused, Request, topicVars, answerVars, ProducerTypeOK
    <3> QED BY <3>1, QuietForCaller
  <2>6. CASE ProbeTimesOut(d)
    <3>1. /\ UNCHANGED <<dlqAccept, kind, main, dlq, lateMain, lateDlq, status, counted>>
          /\ tryNo'[d] \in {tryNo[d], tryNo[d] + 1}
          /\ pc[d] # "done" /\ (pc'[d] # "done" \/ kind[d] = "probe")
      BY <2>6 DEF ProbeTimesOut, Request, topicVars, answerVars, ProducerTypeOK
    <3> QED BY <3>1, QuietForCaller
  <2>7. CASE SendFails(d)
    <3>1. /\ UNCHANGED <<dlqAccept, kind, main, dlq, lateMain, lateDlq, status, counted>>
          /\ tryNo'[d] \in {tryNo[d], tryNo[d] + 1}
          /\ pc[d] # "done" /\ (pc'[d] # "done" \/ kind[d] = "probe")
      BY <2>7 DEF SendFails, NextAttempt, topicVars, answerVars, ProducerTypeOK
    <3> QED BY <3>1, QuietForCaller
  <2>8. CASE DlqStarted(d)
    <3>1. /\ UNCHANGED <<dlqAccept, kind, main, dlq, lateMain, lateDlq, status, counted>>
          /\ tryNo'[d] \in {tryNo[d], tryNo[d] + 1}
          /\ pc[d] # "done" /\ (pc'[d] # "done" \/ kind[d] = "probe")
      BY <2>8 DEF DlqStarted, topicVars, answerVars, ProducerTypeOK
    <3> QED BY <3>1, QuietForCaller
  <2>9. CASE StartBroken(d)
    <3>1. CASE Reject(d)
      BY <2>9, <3>1, RejectForCaller DEF StartBroken, topicVars
    <3>2. CASE ~Reject(d)
      <4>1. /\ UNCHANGED <<dlqAccept, kind, main, dlq, lateMain, lateDlq, status, counted, tryNo>>
            /\ pc[d] # "done" /\ kind[d] = "probe"
        BY <2>9, <3>2 DEF StartBroken, Request, topicVars, answerVars
      <4> QED BY <4>1, QuietForCaller
    <3> QED BY <3>1, <3>2
  <2>10. CASE SendAcked(d)
    BY <2>10, AckedForCaller
  <2>11. CASE SendTimesOut(d) \/ LateLanding(d)
    BY <2>11, LateForCaller
  <2>12. CASE DlqAcked(d)
    BY <2>12, DlqForCaller
  <2>13. CASE DlqFails(d)
    <3>1. /\ pc[d] # "done" /\ Reject(d)
          /\ UNCHANGED <<dlqAccept, kind, tryNo, main, lateMain, dlq>>
          /\ lateDlq'[d] \in {lateDlq[d], lateDlq[d] + 1}
      BY <2>13 DEF DlqFails, ProducerTypeOK
    <3> QED BY <3>1, RejectForCaller
  <2> QED BY <1>3, <2>1, <2>2, <2>3, <2>4, <2>5, <2>6, <2>7, <2>8, <2>9, <2>10, <2>11,
             <2>12, <2>13 DEF CallerStep
<1>4. CASE StopMain \/ StopDlq \/ UNCHANGED producerVars
  <2>1. UNCHANGED <<dlqAccept, kind, main, dlq, lateMain, lateDlq, status, counted, tryNo, pc>>
    BY <1>4 DEF StopMain, StopDlq, producerVars, topicVars, answerVars
  <2> QED BY <1>1, <2>1, QuietForCaller
<1> QED BY <1>2, <1>3, <1>4 DEF ProducerNext

\* No caller has been answered when a process starts.
LEMMA AnswerInit == ProducerInit => AnswerInv
<1> SUFFICES ASSUME ProducerInit, NEW c \in Callers PROVE AnswerOf(c)
  BY AnswerPointwise
<1>1. Landed(c) /\ Bounded(c) /\ Counted(c) /\ BlankCall(c)
  BY DEF ProducerInit, Landed, Bounded, Counted, BlankCall
<1> QED BY <1>1 DEF AnswerOf

-----------------------------------------------------------------------------
\* The parts together are inductive.
LEMMA Inductive == ProducerSpec => []IInv
<1>1. ProducerInit => IInv
  BY TypeInit, StartInit, AnswerInit DEF IInv
<1>2. IInv /\ [ProducerNext]_producerVars => IInv'
  BY TypeStep, StartStep, AnswerStep DEF IInv
<1> QED BY <1>1, <1>2, PTL DEF ProducerSpec

\* _ensure_started() in every reachable state, for any number of callers: a
\* burst costs one bootstrap, no failure or abandoned probe leaks the lock,
\* and /readyz says connected only with both clients connected.
THEOREM StartTheorem == ProducerSpec => []StartIsExclusive
<1>1. IInv => StartIsExclusive
  BY DEF IInv, StartInv
<1> QED BY <1>1, Inductive, PTL

\* What the sender is told is true in every reachable state, for any number of
\* callers and retries: a 202 has its event stored, a lost event is an error, the
\* copies are bounded, and the generic route counts the event where it landed.
THEOREM AnswersTheorem == ProducerSpec => []AnswersAreTrue
<1>1. IInv => AnswersAreTrue
  BY DEF IInv, AnswerInv
<1> QED BY <1>1, Inductive, PTL

-----------------------------------------------------------------------------
\* The answer of one caller changes as its status does.
LEMMA AnswerChanges ==
    ASSUME ProducerTypeOK, NEW c \in Callers, status[c] = 0
    PROVE  /\ Answers[c] = "none"
           /\ status' = [status EXCEPT ![c] = 202] => Answers' = [Answers EXCEPT ![c] = "accepted"]
           /\ status' = [status EXCEPT ![c] = 503] => Answers' = [Answers EXCEPT ![c] = "retry"]
           /\ status' = [status EXCEPT ![c] = 500] => Answers' = [Answers EXCEPT ![c] = "error"]
<1>1. Answers[c] = "none"
  BY DEF Answers
<1>2. ASSUME NEW v \in {202, 500, 503}, NEW a,
             v = 202 => a = "accepted", v = 503 => a = "retry", v = 500 => a = "error",
             status' = [status EXCEPT ![c] = v]
      PROVE  Answers' = [Answers EXCEPT ![c] = a]
  <2>1. \A d \in Callers : status'[d] = IF d = c THEN v ELSE status[d]
    BY <1>2 DEF ProducerTypeOK
  <2>2. \A d \in Callers : Answers'[d] = IF d = c THEN a ELSE Answers[d]
    BY <1>2, <2>1 DEF Answers
  <2>3. Answers' = [d \in Callers |-> Answers'[d]] /\ Answers = [d \in Callers |-> Answers[d]]
    BY DEF Answers
  <2> HIDE DEF Answers
  <2> QED BY <2>2, <2>3
<1> HIDE DEF Answers
<1>3. status' = [status EXCEPT ![c] = 202] => Answers' = [Answers EXCEPT ![c] = "accepted"]
  BY <1>2
<1>4. status' = [status EXCEPT ![c] = 503] => Answers' = [Answers EXCEPT ![c] = "retry"]
  BY <1>2
<1>5. status' = [status EXCEPT ![c] = 500] => Answers' = [Answers EXCEPT ![c] = "error"]
  BY <1>2
<1> QED BY <1>1, <1>3, <1>4, <1>5

\* produce() answered by an acknowledged send is an acceptance.
LEMMA AcceptsMain ==
    ASSUME ProducerTypeOK, PublishesWithinRetries, NEW c \in Callers, AnswerOf(c), SendAcked(c)
    PROVE  Promise!Accept(c)
<1>1. status[c] = 0 /\ status' = [status EXCEPT ![c] = 202]
  BY DEF SendAcked, Answer, AnswerOf, BlankCall
<1>2. Answers[c] = "none" /\ Answers' = [Answers EXCEPT ![c] = "accepted"]
  BY <1>1, AnswerChanges
<1>3. Promise!Room(c)
  <2>1. /\ main[c] + lateMain[c] <= tryNo[c] /\ tryNo[c] < MaxRetries
        /\ main[c] \in Nat /\ lateMain[c] \in Nat /\ tryNo[c] \in Nat /\ MaxRetries \in Nat
    BY ProducerAssumption DEF ProducerTypeOK, SendAcked, PublishesWithinRetries, AnswerOf, Bounded
  <2> QED BY <2>1 DEF Promise!Room
<1>4. main' = Promise!Plus(main, c, 1) /\ UNCHANGED <<dlqAccept, Told, dlq, lateMain, lateDlq>>
  BY DEF SendAcked, Promise!Plus, Told
<1> QED BY <1>2, <1>3, <1>4 DEF Promise!Accept

\* An event written to the DLQ is an acceptance or a refusal, as configured.
LEMMA KeepsInDlq ==
    ASSUME ProducerTypeOK, NEW c \in Callers, AnswerOf(c), DlqAcked(c)
    PROVE  Promise!Accept(c) \/ Promise!Refuse(c)
<1>1. /\ status[c] = 0 /\ dlq[c] = 0 /\ lateDlq[c] = 0
      /\ dlq' = Promise!Plus(dlq, c, 1) /\ UNCHANGED <<dlqAccept, Told, main, lateMain, lateDlq>>
  BY DEF DlqAcked, AnswerOf, BlankCall, Promise!Plus, Told
<1>2. Promise!NoDlqCopy(c)
  BY <1>1 DEF Promise!NoDlqCopy
<1>3. CASE dlqAccept
  <2>1. status' = [status EXCEPT ![c] = 202]
    BY <1>3 DEF DlqAcked, Answer
  <2>2. Answers[c] = "none" /\ Answers' = [Answers EXCEPT ![c] = "accepted"]
    BY <1>1, <2>1, AnswerChanges
  <2> QED BY <1>1, <1>2, <1>3, <2>2 DEF Promise!Accept
<1>4. CASE ~dlqAccept
  <2>1. status' = [status EXCEPT ![c] = 503]
    BY <1>4 DEF DlqAcked, Answer
  <2>2. Answers[c] = "none" /\ Answers' = [Answers EXCEPT ![c] = "retry"]
    BY <1>1, <2>1, AnswerChanges
  <2> QED BY <1>1, <1>2, <1>4, <2>2 DEF Promise!Refuse
<1> QED BY <1>3, <1>4

\* produce() that raised is a refusal or, on the provider route, a failure, even
\* where the send may still land.
LEMMA RefusesOnError ==
    ASSUME ProducerTypeOK, NEW c \in Callers, AnswerOf(c), pc[c] # "done", Reject(c),
           UNCHANGED <<dlqAccept, kind, main, lateMain, dlq>>,
           UNCHANGED lateDlq \/ lateDlq' = [lateDlq EXCEPT ![c] = @ + 1]
    PROVE  Promise!Refuse(c) \/ Promise!Fail(c)
<1>1. status[c] = 0 /\ dlq[c] = 0 /\ lateDlq[c] = 0 /\ UNCHANGED Told
  BY DEF AnswerOf, BlankCall, Told
<1>2. Promise!NoDlqCopy(c)
  BY <1>1 DEF Promise!NoDlqCopy
<1>3. UNCHANGED lateDlq \/ lateDlq' = Promise!Plus(lateDlq, c, 1)
  BY DEF Promise!Plus
<1>4. CASE kind[c] = "generic"
  <2>1. c \in Told /\ status' = [status EXCEPT ![c] = 503]
    BY <1>4 DEF Reject, Told
  <2>2. Answers[c] = "none" /\ Answers' = [Answers EXCEPT ![c] = "retry"]
    BY <1>1, <2>1, AnswerChanges
  <2> QED BY <1>1, <1>2, <1>3, <2>1, <2>2 DEF Promise!Refuse
<1>5. CASE kind[c] # "generic"
  <2>1. c \notin Told /\ status' = [status EXCEPT ![c] = 500]
    BY <1>5 DEF Reject, Told
  <2>2. Answers[c] = "none" /\ Answers' = [Answers EXCEPT ![c] = "error"]
    BY <1>1, <2>1, AnswerChanges
  <2> QED BY <1>1, <1>2, <1>3, <2>1, <2>2 DEF Promise!Fail
<1> QED BY <1>4, <1>5

\* A send given up takes room that an attempt had; what lands late was given up.
LEMMA GivesUpAndLands ==
    ASSUME ProducerTypeOK, PublishesWithinRetries, NEW c \in Callers, AnswerOf(c)
    PROVE  /\ SendTimesOut(c) => Promise!GiveUp(c)
           /\ LateLanding(c) => Promise!Land(c)
<1>1. ASSUME SendTimesOut(c) PROVE Promise!GiveUp(c)
  <2>1. Answers[c] = "none" /\ UNCHANGED Answers
    BY <1>1 DEF SendTimesOut, Answers, AnswerOf, BlankCall, answerVars
  <2>2. /\ main[c] + lateMain[c] <= tryNo[c] /\ tryNo[c] < MaxRetries
        /\ main[c] \in Nat /\ lateMain[c] \in Nat /\ tryNo[c] \in Nat /\ MaxRetries \in Nat
    BY <1>1, ProducerAssumption
       DEF ProducerTypeOK, SendTimesOut, PublishesWithinRetries, AnswerOf, Bounded
  <2>3. Promise!Room(c)
    BY <2>2 DEF Promise!Room
  <2> QED BY <1>1, <2>1, <2>3 DEF SendTimesOut, Promise!GiveUp, Promise!Plus, Told
<1>2. ASSUME LateLanding(c) PROVE Promise!Land(c)
  <2>1. UNCHANGED Answers
    BY <1>2 DEF LateLanding, Answers, answerVars
  <2>2. lateMain[c] - 1 = lateMain[c] + (-1) /\ lateDlq[c] - 1 = lateDlq[c] + (-1)
    BY DEF ProducerTypeOK
  <2> QED BY <1>2, <2>1, <2>2 DEF LateLanding, Promise!Land, Promise!Plus, Told
<1> QED BY <1>1, <1>2

\* A step that touches no status and no topic is not seen by a sender.
LEMMA Unseen ==
    UNCHANGED <<dlqAccept, kind, topicVars, status>> => UNCHANGED Promise!vars
BY DEF topicVars, Answers, Promise!vars, Told

\* Every step of the producer is a step of what the sender is promised.
LEMMA PromiseStep ==
    IInv /\ [ProducerNext]_producerVars => [Promise!Next]_Promise!vars
<1> SUFFICES ASSUME ProducerTypeOK, PublishesWithinRetries, AnswerInv, [ProducerNext]_producerVars
             PROVE  Promise!Next \/ UNCHANGED Promise!vars
  BY DEF IInv
<1>1. \A c \in Callers : AnswerOf(c)
  BY AnswerPointwise
<1>2. ASSUME NEW c \in Callers, CallerStep(c) \/ BeginCall(c) \/ ProbeTimesOut(c) \/ LateLanding(c)
      PROVE  Promise!Next \/ UNCHANGED Promise!vars
  <2>1. CASE BeginCall(c) \/ EnterLock(c) \/ ProbeTimesOut(c)
    BY <2>1, Unseen DEF BeginCall, EnterLock, ProbeTimesOut, answerVars
  <2>2. CASE StartMain(c) \/ StartDlq(c) \/ StartRefused(c)
    BY <2>2, Unseen DEF StartMain, StartDlq, StartRefused, answerVars
  <2>3. CASE SendFails(c) \/ DlqStarted(c)
    BY <2>3, Unseen DEF SendFails, DlqStarted, answerVars
  <2>4. CASE StartBroken(c)
    <3>1. CASE Reject(c)
      <4>1. pc[c] # "done" /\ UNCHANGED <<dlqAccept, kind, main, lateMain, dlq, lateDlq>>
        BY <2>4 DEF StartBroken, topicVars
      <4>2. Promise!Refuse(c) \/ Promise!Fail(c)
        BY <1>1, <3>1, <4>1, RefusesOnError
      <4> QED BY <4>2 DEF Promise!Next
    <3>2. CASE ~Reject(c)
      BY <2>4, <3>2, Unseen DEF StartBroken, answerVars
    <3> QED BY <3>1, <3>2
  <2>5. CASE SendAcked(c)
    <3>1. Promise!Accept(c)
      BY <1>1, <2>5, AcceptsMain
    <3> QED BY <3>1 DEF Promise!Next
  <2>6. CASE SendTimesOut(c) \/ LateLanding(c)
    <3>1. Promise!GiveUp(c) \/ Promise!Land(c)
      BY <1>1, <2>6, GivesUpAndLands
    <3> QED BY <3>1 DEF Promise!Next
  <2>7. CASE DlqAcked(c)
    <3>1. Promise!Accept(c) \/ Promise!Refuse(c)
      BY <1>1, <2>7, KeepsInDlq
    <3> QED BY <3>1 DEF Promise!Next
  <2>8. CASE DlqFails(c)
    <3>1. /\ pc[c] # "done" /\ Reject(c) /\ UNCHANGED <<dlqAccept, kind, main, lateMain, dlq>>
          /\ UNCHANGED lateDlq \/ lateDlq' = [lateDlq EXCEPT ![c] = @ + 1]
      BY <2>8 DEF DlqFails
    <3>2. Promise!Refuse(c) \/ Promise!Fail(c)
      BY <1>1, <3>1, RefusesOnError
    <3> QED BY <3>2 DEF Promise!Next
  <2> QED BY <1>2, <2>1, <2>2, <2>3, <2>4, <2>5, <2>6, <2>7, <2>8 DEF CallerStep
<1>3. CASE StopMain \/ StopDlq \/ UNCHANGED producerVars
  BY <1>3, Unseen DEF StopMain, StopDlq, producerVars, topicVars, answerVars
<1> QED BY <1>2, <1>3 DEF ProducerNext

\* What a sender is promised (Ingestion) is what the producer and the routes do:
\* for any number of callers and retries, connections, retries, the DLQ and the
\* late landings together implement "one answer, and accepted only when stored".
THEOREM Implementation == ProducerSpec => ImplementsIngestion
<1>1. ProducerInit => Promise!Init
  <2> SUFFICES ASSUME ProducerInit PROVE Promise!Init
    OBVIOUS
  <2>1. Answers = [c \in Callers |-> "none"]
    BY DEF ProducerInit, Answers
  <2> QED BY <2>1 DEF ProducerInit, Promise!Init, Told
<1> QED BY <1>1, Inductive, PromiseStep, PTL DEF ProducerSpec, ImplementsIngestion, Promise!Spec

-----------------------------------------------------------------------------

(***************************************************************************)
(* LastAlert, for any number of occurrences and requests.                  *)
(*                                                                         *)
(* The first part says what the operators of the module return: payloads   *)
(* stay typed, and normalising what was normalised changes nothing unless  *)
(* the payload mixed a dismiss mode with an empty legacy time (StoredIs).  *)
(* The second is the invariant of one request from its acceptance to its   *)
(* answer (Whole), the third that of a row and of the calls that set it    *)
(* (RowOk, WriterOk).  A request reads no row; a row that a request writes *)
(* needs what the request was accepted with (Served).                      *)
(***************************************************************************)

\* What Over and Without return.
LEMMA OverDomain ==
    ASSUME NEW f, NEW g
    PROVE  DOMAIN Over(f, g) = DOMAIN f \cup DOMAIN g
BY DEF Over

\* The left one wins where it has a value,
LEMMA OverLeft ==
    ASSUME NEW f, NEW g, NEW k \in DOMAIN f
    PROVE  Over(f, g)[k] = f[k]
BY DEF Over

\* and the right one fills what it lacks.
LEMMA OverRight ==
    ASSUME NEW f, NEW g, NEW k \in DOMAIN g, k \notin DOMAIN f
    PROVE  Over(f, g)[k] = g[k]
BY DEF Over

\* Without drops one key and keeps the values of the others.
LEMMA WithoutIs ==
    ASSUME NEW p, NEW k
    PROVE  /\ DOMAIN Without(p, k) = DOMAIN p \ {k}
           /\ \A x \in DOMAIN p \ {k} : Without(p, k)[x] = p[x]
BY DEF Without

\* Both return functions.
LEMMA AreFunctions ==
    ASSUME NEW f, NEW g
    PROVE  /\ Over(f, g) = [k \in DOMAIN Over(f, g) |-> Over(f, g)[k]]
           /\ Without(f, g) = [k \in DOMAIN Without(f, g) |-> Without(f, g)[k]]
BY DEF Over, Without

\* Both keep a typed key typed, and payloads payloads.
LEMMA OverTyped ==
    ASSUME NEW f, NEW g, NEW k, NEW T, Typed(f, k, T), Typed(g, k, T)
    PROVE  Typed(Over(f, g), k, T)
<1>1. CASE k \in DOMAIN f
  <2>1. Over(f, g)[k] = f[k]
    BY <1>1, OverLeft
  <2> QED BY <1>1, <2>1 DEF Typed
<1>2. CASE k \in DOMAIN g /\ k \notin DOMAIN f
  <2>1. Over(f, g)[k] = g[k]
    BY <1>2, OverRight
  <2> QED BY <1>2, <2>1 DEF Typed
<1>3. CASE k \notin DOMAIN f \cup DOMAIN g
  <2>1. k \notin DOMAIN Over(f, g)
    BY <1>3, OverDomain
  <2> QED BY <2>1 DEF Typed
<1> QED BY <1>1, <1>2, <1>3

\* Dropping a key keeps the other keys typed.
LEMMA WithoutTyped ==
    ASSUME NEW p, NEW x, NEW k, NEW T, Typed(p, k, T)
    PROVE  Typed(Without(p, x), k, T)
<1>1. k \in DOMAIN Without(p, x) => k \in DOMAIN p /\ Without(p, x)[k] = p[k]
  BY WithoutIs
<1>2. k \in DOMAIN p => p[k] \in T
  BY DEF Typed
<1> QED BY <1>1, <1>2 DEF Typed

\* A payload over a payload is a payload.
LEMMA OverIsPayload ==
    ASSUME NEW f, NEW g, IsPayload(f), IsPayload(g)
    PROVE  IsPayload(Over(f, g))
BY OverTyped, AreFunctions, Zenon DEF IsPayload

\* A payload without one of its keys is a payload.
LEMMA WithoutIsPayload ==
    ASSUME NEW p, NEW x, IsPayload(p)
    PROVE  IsPayload(Without(p, x))
BY WithoutTyped, AreFunctions, Zenon DEF IsPayload

\* The defaults and assignments of normalize_enrichments are payloads.
LEMMA Parts ==
    /\ IsPayload([status |-> "suppressed"])
    /\ IsPayload([status |-> Null])
    /\ IsPayload([status |-> Null, dismissed_until |-> Null])
    /\ IsPayload([status |-> "suppressed", dismiss_mode |-> "permanent"])
    /\ IsPayload([dismiss_mode |-> Null, dismissed_until |-> Null])
    /\ \A ts \in Until : IsPayload([dismiss_mode |-> "dismiss_until", dismissed_until |-> ts])
    /\ \A b \in BOOLEAN : IsPayload([status_disposable |-> b])
BY DEF IsPayload, Typed, AlertStatus, DismissMode, Until, Null

\* What Get finds of a legacy time, and what DismissUntil makes of it.
LEMMA GetIsUntil ==
    ASSUME NEW p, IsPayload(p)
    PROVE  Get(p, "dismissed_until") \in Until /\ Get(p, "dismiss_until") \in Until
BY DEF IsPayload, Typed, Get, Until

\* A dismissal until a time is a payload when the rest is one.
LEMMA DismissUntilIsPayload ==
    ASSUME NEW p, NEW ts \in Until, IsPayload(p)
    PROVE  IsPayload(DismissUntil(p, ts))
BY Parts, OverIsPayload, Zenon DEF DismissUntil

\* Normalisation and the helpers of the routes make payloads of payloads.
LEMMA TranslateIsPayload ==
    ASSUME NEW p, IsPayload(p)
    PROVE  IsPayload(TranslateDismissed(p))
<1> DEFINE typed == Get(p, "dismissed_until")
           rest == Without(p, "dismissed")
           q == IF typed # Null THEN rest ELSE Without(rest, "dismiss_until")
           ts == IF typed # Null THEN typed ELSE Get(rest, "dismiss_until")
<1>1. IsPayload(rest) /\ IsPayload(Without(rest, "dismiss_until"))
  BY WithoutIsPayload, Zenon
<1>2. IsPayload(q)
  BY <1>1, Zenon
<1>3. ts \in Until
  BY <1>1, GetIsUntil, Zenon
<1> HIDE DEF q, ts
<1>4. IsPayload(Over(Over([dismiss_mode |-> Null, dismissed_until |-> Null], q), [status |-> Null]))
  BY <1>2, Parts, OverIsPayload, Zenon
<1>5. IsPayload(DismissUntil(q, ts))
  BY <1>2, <1>3, DismissUntilIsPayload, Zenon
<1>6. IsPayload(Over(q, [status |-> "suppressed", dismiss_mode |-> "permanent"]))
  BY <1>2, Parts, OverIsPayload, Zenon
<1>7. \/ TranslateDismissed(p) = Over(Over([dismiss_mode |-> Null, dismissed_until |-> Null], q), [status |-> Null])
      \/ TranslateDismissed(p) = DismissUntil(q, ts)
      \/ TranslateDismissed(p) = Over(q, [status |-> "suppressed", dismiss_mode |-> "permanent"])
  BY Zenon DEF TranslateDismissed, q, ts
<1> QED BY <1>4, <1>5, <1>6, <1>7, Zenon

\* normalize_enrichments makes a payload of a payload.
LEMMA NormalizeIsPayload ==
    ASSUME NEW p, IsPayload(p)
    PROVE  IsPayload(normalize_enrichments(p))
<1>1. IsPayload(TranslateDismissed(p))
  BY TranslateIsPayload
<1>2. CASE "dismissed" \notin DOMAIN p /\ "dismiss_until" \in DOMAIN p
  <2>1. p["dismiss_until"] \in Until
    BY <1>2, Zenon DEF IsPayload, Typed
  <2>2. IsPayload(Without(p, "dismiss_until"))
    BY WithoutIsPayload
  <2>3. IsPayload(DismissUntil(Without(p, "dismiss_until"), p["dismiss_until"]))
    BY <2>1, <2>2, DismissUntilIsPayload
  <2> QED BY <1>2, <2>2, <2>3, Zenon DEF normalize_enrichments
<1>3. IsPayload(Over(p, [status |-> "suppressed"]))
      /\ IsPayload(Over(p, [status |-> Null, dismissed_until |-> Null]))
  BY Parts, OverIsPayload, Zenon
<1> QED BY <1>1, <1>2, <1>3, Zenon DEF normalize_enrichments

\* So does _apply_dispose_on_new_alert.
LEMMA DisposeIsPayload ==
    ASSUME NEW p, NEW dispose \in BOOLEAN, IsPayload(p)
    PROVE  IsPayload(_apply_dispose_on_new_alert(p, dispose))
BY Parts, OverIsPayload, Zenon DEF _apply_dispose_on_new_alert

\* So does the translation of the routes.
LEMMA RouteIsPayload ==
    ASSUME NEW p, IsPayload(p)
    PROVE  IsPayload(_translate_dismiss_enrichments(p))
BY TranslateIsPayload, Zenon DEF _translate_dismiss_enrichments

\* Un-enriching builds a payload, because no list names the NOT NULL flag.
LEMMA ClearedIsPayload ==
    ASSUME NEW keys \in ClearLists
    PROVE  IsPayload(Cleared(keys))
<1>1. "status_disposable" \notin keys
  BY PayloadAssumption
<1>2. DOMAIN Cleared(keys) \cap {"status_disposable", "dismissed", "dismiss_until"} = {}
  BY <1>1 DEF Cleared
<1>3. \A k \in DOMAIN Cleared(keys) : Cleared(keys)[k] = IF k = "deleted" THEN FALSE ELSE Null
  BY DEF Cleared
<1>4. Cleared(keys) = [k \in DOMAIN Cleared(keys) |-> Cleared(keys)[k]]
  BY DEF Cleared
<1> HIDE DEF Cleared
<1>5. \A k : k # "deleted" /\ k \in DOMAIN Cleared(keys) => Cleared(keys)[k] = Null
  BY <1>3, Zenon
<1>6. "deleted" \in DOMAIN Cleared(keys) => Cleared(keys)["deleted"] \in BOOLEAN
  BY <1>3, Zenon
<1> QED BY <1>2, <1>4, <1>5, <1>6 DEF IsPayload, Typed, AlertStatus, DismissMode, Until

-----------------------------------------------------------------------------
\* Defaults that are there already change nothing.
LEMMA OverKeeps ==
    ASSUME NEW p, NEW g, p = [k \in DOMAIN p |-> p[k]], DOMAIN g \subseteq DOMAIN p
    PROVE  Over(p, g) = p
<1>1. DOMAIN Over(p, g) = DOMAIN p
  BY OverDomain
<1>2. Over(p, g) = [k \in DOMAIN p |-> Over(p, g)[k]]
  BY <1>1, AreFunctions
<1>3. [k \in DOMAIN p |-> Over(p, g)[k]] = [k \in DOMAIN p |-> p[k]]
  BY OverLeft
<1> QED BY <1>2, <1>3, Zenon

\* A payload in which the typed dismiss mode has what goes with it.
Complete(n) ==
    "dismiss_mode" \in DOMAIN n =>
        /\ "status" \in DOMAIN n
        /\ n["dismiss_mode"] = Null => "dismissed_until" \in DOMAIN n

\* normalize_enrichments is idempotent on typed payloads that are complete.
LEMMA TypedIsFixed ==
    ASSUME NEW n, IsPayload(n), Complete(n), "dismissed" \notin DOMAIN n, "dismiss_until" \notin DOMAIN n
    PROVE  normalize_enrichments(n) = n
<1>1. n = [k \in DOMAIN n |-> n[k]]
  BY Zenon DEF IsPayload
<1>2. CASE "dismiss_mode" \notin DOMAIN n
  BY <1>2, Zenon DEF normalize_enrichments
<1>3. CASE "dismiss_mode" \in DOMAIN n /\ n["dismiss_mode"] # Null
  <2>1. DOMAIN [status |-> "suppressed"] \subseteq DOMAIN n
    BY <1>3 DEF Complete
  <2>2. Over(n, [status |-> "suppressed"]) = n
    BY <1>1, <2>1, OverKeeps
  <2> QED BY <1>3, <2>2, Zenon DEF normalize_enrichments
<1>4. CASE "dismiss_mode" \in DOMAIN n /\ n["dismiss_mode"] = Null
  <2>1. DOMAIN [status |-> Null, dismissed_until |-> Null] \subseteq DOMAIN n
    BY <1>4 DEF Complete
  <2>2. Over(n, [status |-> Null, dismissed_until |-> Null]) = n
    BY <1>1, <2>1, OverKeeps
  <2> QED BY <1>4, <2>2, Zenon DEF normalize_enrichments
<1> QED BY <1>2, <1>3, <1>4

\* What a typed dismissal until a time holds.
LEMMA DismissUntilIs ==
    ASSUME NEW p, NEW ts
    PROVE  /\ DOMAIN DismissUntil(p, ts) = DOMAIN p \cup {"dismiss_mode", "dismissed_until", "status"}
           /\ DismissUntil(p, ts)["dismiss_mode"] = "dismiss_until"
           /\ \A k \in DOMAIN p \ {"dismiss_mode", "dismissed_until"} : DismissUntil(p, ts)[k] = p[k]
<1> DEFINE f == [dismiss_mode |-> "dismiss_until", dismissed_until |-> ts]
           g == [status |-> "suppressed"]
<1>1. DOMAIN f = {"dismiss_mode", "dismissed_until"} /\ DOMAIN g = {"status"}
      /\ f["dismiss_mode"] = "dismiss_until"
  OBVIOUS
<1> HIDE DEF f, g
<1>2. DismissUntil(p, ts) = Over(Over(f, p), g)
  BY DEF DismissUntil, f, g
<1>3. DOMAIN Over(f, p) = DOMAIN p \cup {"dismiss_mode", "dismissed_until"}
  BY <1>1, OverDomain
<1>4. DOMAIN Over(Over(f, p), g) = DOMAIN p \cup {"dismiss_mode", "dismissed_until", "status"}
  BY <1>1, <1>3, OverDomain
<1>5. \A k \in DOMAIN Over(f, p) : Over(Over(f, p), g)[k] = Over(f, p)[k]
  BY OverLeft
<1>6. Over(f, p)["dismiss_mode"] = "dismiss_until"
  BY <1>1, OverLeft
<1>7. \A k \in DOMAIN p \ {"dismiss_mode", "dismissed_until"} : Over(f, p)[k] = p[k]
  BY <1>1, OverRight
<1> QED BY <1>2, <1>3, <1>4, <1>5, <1>6, <1>7

\* What strict mode lets through is typed, and complete unless the payload mixed
\* the typed mode with a legacy key.
LEMMA NormalizedIsComplete ==
    ASSUME NEW p, "dismissed" \notin DOMAIN p, ~Mixed(p)
    PROVE  Complete(normalize_enrichments(p))
<1> DEFINE n == normalize_enrichments(p)
<1>1. CASE "dismiss_until" \in DOMAIN p
  <2>1. "dismiss_mode" \notin DOMAIN p
    BY <1>1 DEF Mixed
  <2>2. CASE p["dismiss_until"] = Null
    <3>1. n = Without(p, "dismiss_until")
      BY <1>1, <2>2, Zenon DEF normalize_enrichments
    <3>a. DOMAIN Without(p, "dismiss_until") = DOMAIN p \ {"dismiss_until"}
      BY WithoutIs
    <3>2. "dismiss_mode" \notin DOMAIN n
      BY <2>1, <3>1, <3>a
    <3> QED BY <3>2 DEF Complete
  <2>3. CASE p["dismiss_until"] # Null
    <3>1. n = DismissUntil(Without(p, "dismiss_until"), p["dismiss_until"])
      BY <1>1, <2>3, Zenon DEF normalize_enrichments
    <3>a. DOMAIN n = DOMAIN Without(p, "dismiss_until")
                        \cup {"dismiss_mode", "dismissed_until", "status"}
      BY <3>1, DismissUntilIs, Zenon
    <3>2. "status" \in DOMAIN n /\ "dismissed_until" \in DOMAIN n
      <4> HIDE DEF n
      <4> QED BY <3>a
    <3> QED BY <3>2 DEF Complete
  <2> QED BY <2>2, <2>3
<1>2. CASE "dismiss_until" \notin DOMAIN p /\ "dismiss_mode" \in DOMAIN p
  <2>1. CASE p["dismiss_mode"] # Null
    <3>1. n = Over(p, [status |-> "suppressed"])
      BY <1>2, <2>1, Zenon DEF normalize_enrichments
    <3>a. DOMAIN Over(p, [status |-> "suppressed"]) = DOMAIN p \cup DOMAIN [status |-> "suppressed"]
      BY OverDomain
    <3>2. "status" \in DOMAIN n
      BY <3>1, <3>a
    <3>3. n["dismiss_mode"] = p["dismiss_mode"]
      BY <1>2, <3>1, OverLeft
    <3> QED BY <2>1, <3>2, <3>3 DEF Complete
  <2>2. CASE p["dismiss_mode"] = Null
    <3>1. n = Over(p, [status |-> Null, dismissed_until |-> Null])
      BY <1>2, <2>2, Zenon DEF normalize_enrichments
    <3>a. DOMAIN Over(p, [status |-> Null, dismissed_until |-> Null])
            = DOMAIN p \cup DOMAIN [status |-> Null, dismissed_until |-> Null]
      BY OverDomain
    <3>2. "status" \in DOMAIN n /\ "dismissed_until" \in DOMAIN n
      BY <3>1, <3>a
    <3> QED BY <3>2 DEF Complete
  <2> QED BY <2>1, <2>2
<1>3. CASE "dismiss_until" \notin DOMAIN p /\ "dismiss_mode" \notin DOMAIN p
  <2>1. n = p
    BY <1>3, Zenon DEF normalize_enrichments
  <2> QED BY <1>3, <2>1 DEF Complete
<1> QED BY <1>1, <1>2, <1>3

\* Without the legacy flag, normalisation leaves status_disposable as it is.
LEMMA DisposableStays ==
    ASSUME NEW p, "dismissed" \notin DOMAIN p, "status_disposable" \in DOMAIN p
    PROVE  /\ "status_disposable" \in DOMAIN normalize_enrichments(p)
           /\ normalize_enrichments(p)["status_disposable"] = p["status_disposable"]
<1> DEFINE k == "status_disposable"
           Same(n) == k \in DOMAIN n /\ n[k] = p[k]
<1>0. k \notin {"dismiss_until", "dismiss_mode", "dismissed_until"}
  OBVIOUS
<1>1. k \in DOMAIN p
  OBVIOUS
<1> HIDE DEF k
<1>2. Same(Without(p, "dismiss_until"))
  BY <1>0, <1>1, WithoutIs
<1>3. Same(DismissUntil(Without(p, "dismiss_until"), p["dismiss_until"]))
  <2> DEFINE w == Without(p, "dismiss_until")
             d == DismissUntil(w, p["dismiss_until"])
  <2>1. k \in DOMAIN w \ {"dismiss_mode", "dismissed_until"}
    BY <1>0, <1>2
  <2> HIDE DEF w
  <2>2. /\ DOMAIN d = DOMAIN w \cup {"dismiss_mode", "dismissed_until", "status"}
        /\ d[k] = w[k]
    BY <2>1, DismissUntilIs, Zenon
  <2> HIDE DEF d
  <2>3. k \in DOMAIN d
    BY <2>1, <2>2
  <2> QED BY <1>2, <2>2, <2>3 DEF w, d
<1>4. \A g : Same(Over(p, g))
  <2> SUFFICES ASSUME NEW g PROVE Same(Over(p, g))
    OBVIOUS
  <2>1. k \in DOMAIN Over(p, g)
    BY <1>1, OverDomain
  <2>2. Over(p, g)[k] = p[k]
    BY <1>1, OverLeft
  <2> QED BY <2>1, <2>2
<1>5. Same(p)
  BY <1>1
<1> HIDE DEF Same
<1>6. Same(normalize_enrichments(p))
  BY <1>2, <1>3, <1>4, <1>5, Zenon DEF normalize_enrichments
<1> QED BY <1>6 DEF Same, k

\* Where the flag goes: beside a status or a dismiss mode.
LEMMA DisposeIs ==
    ASSUME NEW p, NEW dispose, "dismissed" \notin DOMAIN p
    PROVE  LET q == _apply_dispose_on_new_alert(p, dispose) IN
           /\ "dismissed" \notin DOMAIN q
           /\ Mixed(q) => Mixed(p)
           /\ {"status", "dismiss_mode"} \cap DOMAIN p # {}
                => "status_disposable" \in DOMAIN q /\ q["status_disposable"] = dispose
<1> DEFINE q == _apply_dispose_on_new_alert(p, dispose)
           f == [status_disposable |-> dispose]
<1>0. DOMAIN f = {"status_disposable"} /\ f["status_disposable"] = dispose
  OBVIOUS
<1> HIDE DEF f
<1>1. DOMAIN Over(f, p) = {"status_disposable"} \cup DOMAIN p
  BY <1>0, OverDomain
<1>2. Over(f, p)["status_disposable"] = dispose
  BY <1>0, OverLeft
<1>3. CASE {"status", "dismiss_mode"} \cap DOMAIN p # {}
  <2>1. q = Over(f, p)
    BY <1>3 DEF _apply_dispose_on_new_alert, f
  <2> HIDE DEF q
  <2>2. DOMAIN q = {"status_disposable"} \cup DOMAIN p /\ q["status_disposable"] = dispose
    BY <1>1, <1>2, <2>1
  <2>3. "dismissed" \notin DOMAIN q /\ (Mixed(q) => Mixed(p)) /\ "status_disposable" \in DOMAIN q
    BY <2>2 DEF Mixed
  <2> QED BY <2>2, <2>3 DEF q
<1>4. CASE {"status", "dismiss_mode"} \cap DOMAIN p = {}
  <2>1. q = p
    BY <1>4 DEF _apply_dispose_on_new_alert
  <2> QED BY <1>4, <2>1
<1> QED BY <1>3, <1>4

\* Normalising what strict mode let through stays within the columns.
LEMMA StaysInColumns ==
    ASSUME NEW n, DOMAIN n \subseteq LASTALERT_ENRICHMENT_COLUMNS
    PROVE  DOMAIN normalize_enrichments(n) \subseteq LASTALERT_ENRICHMENT_COLUMNS
<1> DEFINE Cols == LASTALERT_ENRICHMENT_COLUMNS
           s == [status |-> "suppressed"]
           u == [status |-> Null, dismissed_until |-> Null]
<1>1. "dismissed" \notin DOMAIN n /\ "dismiss_until" \notin DOMAIN n
  BY DEF LASTALERT_ENRICHMENT_COLUMNS
<1>2. DOMAIN s \subseteq Cols /\ DOMAIN u \subseteq Cols
  BY DEF LASTALERT_ENRICHMENT_COLUMNS
<1>3. \/ normalize_enrichments(n) = n
      \/ normalize_enrichments(n) = Over(n, s)
      \/ normalize_enrichments(n) = Over(n, u)
  BY <1>1, Zenon DEF normalize_enrichments
<1> HIDE DEF Cols, s, u
<1>4. DOMAIN Over(n, s) \subseteq Cols /\ DOMAIN Over(n, u) \subseteq Cols
  <2>1. DOMAIN n \subseteq Cols
    BY DEF Cols
  <2>2. DOMAIN Over(n, s) = DOMAIN n \cup DOMAIN s /\ DOMAIN Over(n, u) = DOMAIN n \cup DOMAIN u
    BY OverDomain
  <2> QED BY <1>2, <2>1, <2>2
<1> QED BY <1>3, <1>4, Zenon DEF Cols

\* The columns the database layer writes of a request with enrichments e.
StoredOf(e, dispose) ==
    normalize_enrichments(normalize_enrichments(_apply_dispose_on_new_alert(e, dispose)))

\* They are typed columns; they are those of the event too, unless the payload was
\* mixed; and a status or a dismiss mode the user asked for brings its flag along.
LEMMA StoredIs ==
    ASSUME NEW e, NEW dispose \in BOOLEAN, IsPayload(e), "dismissed" \notin DOMAIN e,
           ~Unknown(_apply_dispose_on_new_alert(e, dispose))
    PROVE  /\ IsPayload(StoredOf(e, dispose))
           /\ DOMAIN StoredOf(e, dispose) \subseteq LASTALERT_ENRICHMENT_COLUMNS
           /\ ~Mixed(e) => StoredOf(e, dispose)
                             = normalize_enrichments(_apply_dispose_on_new_alert(e, dispose))
           /\ {"status", "dismiss_mode"} \cap DOMAIN e # {}
                => /\ "status_disposable" \in DOMAIN StoredOf(e, dispose)
                   /\ StoredOf(e, dispose)["status_disposable"] = dispose
<1> DEFINE q == _apply_dispose_on_new_alert(e, dispose)
           n == normalize_enrichments(q)
           m == normalize_enrichments(n)
           asked == {"status", "dismiss_mode"} \cap DOMAIN e # {}
<1>1. IsPayload(q) /\ "dismissed" \notin DOMAIN q /\ (Mixed(q) => Mixed(e))
      /\ (asked => "status_disposable" \in DOMAIN q /\ q["status_disposable"] = dispose)
  BY DisposeIsPayload, DisposeIs, Zenon
<1>2. DOMAIN n \subseteq LASTALERT_ENRICHMENT_COLUMNS
  BY Zenon DEF Unknown
<1> HIDE DEF q
<1>3. IsPayload(n)
  BY <1>1, NormalizeIsPayload
<1>4. ~Mixed(e) => Complete(n)
  BY <1>1, NormalizedIsComplete
<1>5. asked => "status_disposable" \in DOMAIN n /\ n["status_disposable"] = dispose
  BY <1>1, DisposableStays, Zenon
<1> HIDE DEF n, asked
<1>6. "dismissed" \notin DOMAIN n /\ "dismiss_until" \notin DOMAIN n
  BY <1>2 DEF LASTALERT_ENRICHMENT_COLUMNS
<1>7. IsPayload(m) /\ DOMAIN m \subseteq LASTALERT_ENRICHMENT_COLUMNS
  BY <1>2, <1>3, NormalizeIsPayload, StaysInColumns
<1>8. ~Mixed(e) => m = n
  BY <1>3, <1>4, <1>6, TypedIsFixed
<1>9. asked => "status_disposable" \in DOMAIN m /\ m["status_disposable"] = dispose
  BY <1>5, <1>6, DisposableStays, Zenon
<1> HIDE DEF m
<1>10. StoredOf(e, dispose) = m
  BY Zenon DEF StoredOf, m, n, q
<1> QED BY <1>7, <1>8, <1>9, <1>10, Zenon DEF asked, n, q

\* What _apply_enrichments_to_last_alert makes of a row: a row, of the same
\* occurrence, with the columns of the payload.
LEMMA AppliedIs ==
    ASSUME NEW la \in LastAlerts, NEW p, NEW force \in BOOLEAN,
           IsPayload(p), DOMAIN p \subseteq LASTALERT_ENRICHMENT_COLUMNS
    PROVE  LET new == _apply_enrichments_to_last_alert(la, p, force) IN
           /\ new \in LastAlerts
           /\ new.ts = la.ts /\ new.first = la.first /\ new.alert = la.alert
           /\ new.status = IF "status" \in DOMAIN p THEN p["status"] ELSE la.status
           /\ new.dismiss_mode = IF "dismiss_mode" \in DOMAIN p THEN p["dismiss_mode"] ELSE la.dismiss_mode
           /\ new.dismissed_until =
                IF "dismissed_until" \in DOMAIN p THEN p["dismissed_until"] ELSE la.dismissed_until
           /\ new.status_disposable =
                IF "status_disposable" \in DOMAIN p THEN p["status_disposable"] ELSE la.status_disposable
<1> DEFINE new == _apply_enrichments_to_last_alert(la, p, force)
           Names == {"ts", "first", "alert", "status", "status_disposable", "dismiss_mode",
                     "dismissed_until", "note", "deleted"}
           Val(c) == IF c \in DOMAIN p THEN p[c] ELSE la[c]
<1>1. DOMAIN la = Names /\ la = [c \in Names |-> la[c]]
  BY DEF LastAlerts
<1>2. /\ la.ts \in Nat /\ la.first \in Nat /\ la.alert \in Writers /\ la.status \in AlertStatus
      /\ la.dismiss_mode \in DismissMode
      /\ la.dismissed_until \in Until /\ la.note \in {Null, Blank, "note"}
  BY DEF LastAlerts
<1>3. la.status_disposable \in BOOLEAN /\ la.deleted \in BOOLEAN
  BY Zenon DEF LastAlerts
<1>4. "ts" \notin DOMAIN p /\ "first" \notin DOMAIN p /\ "alert" \notin DOMAIN p
  BY DEF LASTALERT_ENRICHMENT_COLUMNS
<1>5. new = [c \in Names |->
               IF c \in DOMAIN p /\ (c = "note" /\ ~force => p["note"] \notin {Null, Blank})
               THEN p[c] ELSE la[c]]
  BY <1>1, Zenon DEF _apply_enrichments_to_last_alert
<1> HIDE DEF new
<1>6. \A c \in Names : c # "note" => new[c] = Val(c)
  BY <1>5
<1>7. new["note"] \in {p["note"], la["note"]} /\ ("note" \notin DOMAIN p => new["note"] = la["note"])
  BY <1>5
<1>8. DOMAIN new = Names /\ new = [c \in Names |-> new[c]]
  BY <1>5
<1>9. /\ new.ts = la.ts /\ new.first = la.first /\ new.alert = la.alert
      /\ new.status = Val("status") /\ new.dismiss_mode = Val("dismiss_mode")
      /\ new.dismissed_until = Val("dismissed_until")
      /\ new.status_disposable = Val("status_disposable") /\ new.deleted = Val("deleted")
  BY <1>4, <1>6
<1>10. /\ Val("status") \in AlertStatus /\ Val("dismiss_mode") \in DismissMode
       /\ Val("dismissed_until") \in Until /\ Val("status_disposable") \in BOOLEAN
       /\ Val("deleted") \in BOOLEAN
  BY <1>2, <1>3, Zenon DEF IsPayload, Typed
<1>11. new.note \in {Null, Blank, "note"}
  <2>1. "note" \in DOMAIN p => p["note"] \in {Null, Blank, "note"}
    BY Zenon DEF IsPayload, Typed
  <2> QED BY <1>2, <1>7, <2>1
<1>12. new \in LastAlerts
  <2> DEFINE rec == [ts |-> new.ts, first |-> new.first, alert |-> new.alert,
                     status |-> new.status, status_disposable |-> new.status_disposable,
                     dismiss_mode |-> new.dismiss_mode, dismissed_until |-> new.dismissed_until,
                     note |-> new.note, deleted |-> new.deleted]
  <2>1. new = rec
    BY <1>8
  <2> HIDE DEF Val
  <2>2. rec \in LastAlerts
    BY <1>2, <1>9, <1>10, <1>11, Zenon DEF LastAlerts
  <2> QED BY <2>1, <2>2, Zenon
<1> QED BY <1>9, <1>12, Zenon DEF new

\* What a row shows that nobody enriched, and the row a newer occurrence leaves.
OwnStatus(st) == [status |-> st, mode |-> Null, until |-> Null]
Taken(la, ts, w, st) == apply_dismiss_lifecycle([la EXCEPT !.ts = ts, !.alert = w], st)

\* What a newer occurrence makes of a row: it takes the row over, with its own
\* status where it is resolved or the shown one was disposable.
LEMMA RepointedIs ==
    ASSUME NEW la \in LastAlerts, NEW ts \in Nat, NEW w \in Writers, NEW st \in Statuses
    PROVE  /\ Taken(la, ts, w, st) \in LastAlerts
           /\ Taken(la, ts, w, st).ts = ts
           /\ Taken(la, ts, w, st).alert = w
           /\ Taken(la, ts, w, st).first = la.first
           /\ st = "resolved" \/ la.status_disposable
                => /\ Shown(Taken(la, ts, w, st)) = OwnStatus(st)
                   /\ Taken(la, ts, w, st).status_disposable
           /\ ~(st = "resolved" \/ la.status_disposable)
                => /\ Shown(Taken(la, ts, w, st)) = Shown(la)
                   /\ ~Taken(la, ts, w, st).status_disposable
<1> DEFINE at == [la EXCEPT !.ts = ts, !.alert = w]
           own == [at EXCEPT !.status = st, !.status_disposable = TRUE,
                             !.dismiss_mode = Null, !.dismissed_until = Null]
<1>1. /\ at \in LastAlerts /\ at.ts = ts /\ at.alert = w /\ at.first = la.first
      /\ at.status = la.status /\ at.dismiss_mode = la.dismiss_mode
      /\ at.dismissed_until = la.dismissed_until
      /\ at.status_disposable = la.status_disposable
  BY DEF LastAlerts
<1>2. Shown(at) = Shown(la)
  BY <1>1 DEF Shown
<1> HIDE DEF at
<1>3. st \in AlertStatus /\ Null \in DismissMode /\ Null \in Until
  BY DEF AlertStatus, DismissMode, Until
<1>4. /\ own \in LastAlerts /\ own.ts = ts /\ own.alert = w /\ own.first = la.first
      /\ own.status = st /\ own.dismiss_mode = Null /\ own.dismissed_until = Null
      /\ own.status_disposable = TRUE
  BY <1>1, <1>3 DEF LastAlerts
<1>5. Shown(own) = OwnStatus(st)
  BY <1>4 DEF Shown, OwnStatus
<1> HIDE DEF own
<1>6. apply_dismiss_lifecycle(at, st) =
        IF st = "resolved" \/ la.status_disposable THEN own ELSE at
  BY <1>1, Zenon DEF apply_dismiss_lifecycle, own
<1> QED BY <1>1, <1>2, <1>4, <1>5, <1>6, Zenon DEF Taken, at

\* The routes take the legacy flag out of what they pass on.
LEMMA TranslatedHasNoFlag ==
    ASSUME NEW p
    PROVE  "dismissed" \notin DOMAIN _translate_dismiss_enrichments(p)
<1> DEFINE rest == Without(p, "dismissed")
           typed == Get(p, "dismissed_until")
           q == IF typed # Null THEN rest ELSE Without(rest, "dismiss_until")
           ts == IF typed # Null THEN typed ELSE Get(rest, "dismiss_until")
           f == [dismiss_mode |-> Null, dismissed_until |-> Null]
           g == [status |-> Null]
           h == [status |-> "suppressed", dismiss_mode |-> "permanent"]
<1>1. "dismissed" \notin DOMAIN rest
  BY WithoutIs
<1> HIDE DEF rest
<1>2. "dismissed" \notin DOMAIN Without(rest, "dismiss_until")
  BY ZenonT(30), <1>1, WithoutIs
<1>3. "dismissed" \notin DOMAIN q
  BY <1>1, <1>2
<1> HIDE DEF q, ts
<1>4. "dismissed" \notin DOMAIN f /\ "dismissed" \notin DOMAIN g /\ "dismissed" \notin DOMAIN h
  OBVIOUS
<1> HIDE DEF f, g, h
<1>5. DOMAIN Over(f, q) = DOMAIN f \cup DOMAIN q
      /\ DOMAIN Over(Over(f, q), g) = DOMAIN Over(f, q) \cup DOMAIN g
      /\ DOMAIN Over(q, h) = DOMAIN q \cup DOMAIN h
  BY OverDomain, Zenon
<1>6. "dismissed" \notin DOMAIN Over(Over(f, q), g)
  BY <1>3, <1>4, <1>5
<1>7. "dismissed" \notin DOMAIN Over(q, h)
  BY <1>3, <1>4, <1>5
<1>8. "dismissed" \notin DOMAIN DismissUntil(q, ts)
  <2>1. DOMAIN DismissUntil(q, ts) = DOMAIN q \cup {"dismiss_mode", "dismissed_until", "status"}
    BY DismissUntilIs, Zenon
  <2> QED BY <1>3, <2>1
<1>9. \/ TranslateDismissed(p) = Over(Over(f, q), g)
      \/ TranslateDismissed(p) = DismissUntil(q, ts)
      \/ TranslateDismissed(p) = Over(q, h)
  BY Zenon DEF TranslateDismissed, q, ts, rest, f, g, h
<1> QED BY <1>6, <1>7, <1>8, <1>9, Zenon DEF _translate_dismiss_enrichments

-----------------------------------------------------------------------------
\* A request that is being served: its payload has been translated.
Routes == {"enrich", "assign", "delete", "unenrich", "batch"}
Served(q) ==
    /\ q.route \in Routes
    /\ q.fps \in Seq(Fps) /\ q.fps # << >>
    /\ IsPayload(q.enrichments) /\ "dismissed" \notin DOMAIN q.enrichments
    /\ q.dispose \in BOOLEAN /\ q.force \in BOOLEAN

\* A route hands its request to the service, or answers at once.
Opens(r) ==
    /\ rpc[r] = "idle"
    /\ \E q : /\ Served(q)
              /\ req' = [req EXCEPT ![r] = q]
              /\ todo' = [todo EXCEPT ![r] = q.fps]
              /\ rpc' = [rpc EXCEPT ![r] = "store"]
    /\ UNCHANGED <<row, writerVars, audits, applied, event, sink, answer, claim>>

Declines(r) ==
    /\ rpc[r] = "idle"
    /\ \E a \in {"failed", "400", "ok"} : Respond(r, a)
    /\ UNCHANGED <<row, writerVars, audits, applied, event, sink, claim>>

\* What Accept does is what Opens says.
LEMMA AcceptOpens ==
    ASSUME NEW r, rpc[r] = "idle",
           NEW route \in Routes, NEW fps \in Seq(Fps), fps # << >>,
           NEW p, IsPayload(p), "dismissed" \notin DOMAIN p,
           NEW action, NEW dispose \in BOOLEAN, NEW force \in BOOLEAN,
           Accept(r, route, fps, p, action, dispose, force)
    PROVE  Opens(r)
<1> DEFINE q == [route |-> route, action |-> action, fps |-> fps, enrichments |-> p,
                 dispose |-> dispose, force |-> force]
<1>1. /\ q.route = route /\ q.fps = fps /\ q.enrichments = p
  BY Zenon
<1>2. q.dispose = dispose /\ q.force = force
  BY Zenon
<1>3. /\ req' = [req EXCEPT ![r] = q]
      /\ todo' = [todo EXCEPT ![r] = fps]
      /\ rpc' = [rpc EXCEPT ![r] = "store"]
      /\ UNCHANGED <<row, writerVars, audits, applied, event, sink, answer, claim>>
  BY Zenon DEF Accept
<1> HIDE DEF q
<1>4. Served(q)
  BY <1>1, <1>2, Zenon DEF Served
<1> QED BY <1>1, <1>3, <1>4, Zenon DEF Opens

\* What the routes build themselves are payloads.
LEMMA BuiltPayloads ==
    /\ \A n \in {Blank, "note"} :
          IsPayload([note |-> n]) /\ "dismissed" \notin DOMAIN [note |-> n]
    /\ \A p \in {[status |-> "acknowledged"], [status |-> "acknowledged", note |-> "note"]} :
          IsPayload(p) /\ "dismissed" \notin DOMAIN p
    /\ \A b \in BOOLEAN : IsPayload([deleted |-> b]) /\ "dismissed" \notin DOMAIN [deleted |-> b]
    /\ \A keys \in ClearLists : IsPayload(Cleared(keys)) /\ "dismissed" \notin DOMAIN Cleared(keys)
    /\ \A sent \in Payloads :
          LET p == _translate_dismiss_enrichments(sent)
          IN  IsPayload(p) /\ "dismissed" \notin DOMAIN p
<1>1. \A n \in {Blank, "note"} :
          IsPayload([note |-> n]) /\ "dismissed" \notin DOMAIN [note |-> n]
  BY DEF IsPayload, Typed
<1>2. \A p \in {[status |-> "acknowledged"], [status |-> "acknowledged", note |-> "note"]} :
          IsPayload(p) /\ "dismissed" \notin DOMAIN p
  BY DEF IsPayload, Typed, AlertStatus
<1>3. \A b \in BOOLEAN : IsPayload([deleted |-> b]) /\ "dismissed" \notin DOMAIN [deleted |-> b]
  BY DEF IsPayload, Typed
<1>4. \A keys \in ClearLists : "dismissed" \notin DOMAIN Cleared(keys)
  BY DEF Cleared
<1> QED BY <1>1, <1>2, <1>3, <1>4, ClearedIsPayload, RouteIsPayload, TranslatedHasNoFlag,
           PayloadAssumption, Zenon

\* Every route either opens a request or answers.
LEMMA Openings ==
    ASSUME NEW r,
           \/ enrich_alert(r) \/ enrich_alert_note(r) \/ assign_alert(r)
           \/ delete_alert(r) \/ unenrich_alert(r) \/ batch_enrich_alerts(r)
    PROVE  Opens(r) \/ Declines(r)
<1>r. {"enrich", "assign", "delete", "unenrich", "batch"} \subseteq Routes
  BY DEF Routes
<1>b. TRUE \in BOOLEAN /\ FALSE \in BOOLEAN
  OBVIOUS
<1>f. \A f \in Fps : <<f>> \in Seq(Fps) /\ <<f>> # << >>
  OBVIOUS
<1>1. CASE enrich_alert(r)
  <2>1. PICK f \in Fps, sent \in Payloads :
          LET p == _translate_dismiss_enrichments(sent)
          IN  \/ disposable_enrich_entity(r, f, p)
              \/ Accept(r, "enrich", <<f>>, p, get_enrichment_metadata(p), FALSE, FALSE)
    BY <1>1, Zenon DEF enrich_alert
  <2> DEFINE p == _translate_dismiss_enrichments(sent)
  <2>2. IsPayload(p) /\ "dismissed" \notin DOMAIN p
    BY BuiltPayloads, Zenon
  <2>3. \/ Accept(r, "enrich", <<f>>, p, get_enrichment_metadata(p), TRUE, FALSE)
        \/ Accept(r, "enrich", <<f>>, p, get_enrichment_metadata(p), FALSE, FALSE)
    BY <2>1, Zenon DEF disposable_enrich_entity
  <2> HIDE DEF p
  <2>4. rpc[r] = "idle"
    BY <1>1, Zenon DEF enrich_alert
  <2> QED BY <1>r, <1>b, <1>f, <2>2, <2>3, <2>4, AcceptOpens, Zenon
<1>2. CASE enrich_alert_note(r)
  <2>1. PICK f \in Fps, n \in {Blank, "note"} :
          LET p == [note |-> n]
          IN  Accept(r, "enrich", <<f>>, p, get_enrichment_metadata(p), FALSE, FALSE)
    BY <1>2, Zenon DEF enrich_alert_note
  <2> DEFINE p == [note |-> n]
  <2>2. IsPayload(p) /\ "dismissed" \notin DOMAIN p
    BY BuiltPayloads, Zenon
  <2>3. Accept(r, "enrich", <<f>>, p, get_enrichment_metadata(p), FALSE, FALSE)
    BY <2>1, Zenon
  <2> HIDE DEF p
  <2>4. rpc[r] = "idle"
    BY <1>2, Zenon DEF enrich_alert_note
  <2> QED BY <1>r, <1>b, <1>f, <2>2, <2>3, <2>4, AcceptOpens, Zenon
<1>3. CASE assign_alert(r)
  <2>1. PICK f \in Fps, dispose \in BOOLEAN,
             p \in {[status |-> "acknowledged"], [status |-> "acknowledged", note |-> "note"]} :
          Accept(r, "assign", <<f>>, p, "ACKNOWLEDGE", dispose, FALSE)
    BY <1>3, Zenon DEF assign_alert
  <2>2. IsPayload(p) /\ "dismissed" \notin DOMAIN p
    BY BuiltPayloads, Zenon
  <2>4. rpc[r] = "idle"
    BY <1>3, Zenon DEF assign_alert
  <2> QED BY <1>r, <1>b, <1>f, <2>1, <2>2, <2>4, AcceptOpens, Zenon
<1>4. CASE delete_alert(r)
  <2>1. PICK f \in Fps, deleted \in BOOLEAN :
          Accept(r, "delete", <<f>>, [deleted |-> deleted], "DELETE_ALERT", FALSE, FALSE)
    BY <1>4, Zenon DEF delete_alert
  <2> DEFINE p == [deleted |-> deleted]
  <2>2. IsPayload(p) /\ "dismissed" \notin DOMAIN p
    BY BuiltPayloads, Zenon
  <2>3. Accept(r, "delete", <<f>>, p, "DELETE_ALERT", FALSE, FALSE)
    BY <2>1, Zenon
  <2> HIDE DEF p
  <2>4. rpc[r] = "idle"
    BY <1>4, Zenon DEF delete_alert
  <2> QED BY <1>r, <1>b, <1>f, <2>2, <2>3, <2>4, AcceptOpens, Zenon
<1>5. CASE unenrich_alert(r)
  <2>1. PICK f \in Fps, keys \in ClearLists :
          \/ \E action : Accept(r, "unenrich", <<f>>, Cleared(keys), action, FALSE, TRUE)
          \/ /\ Respond(r, "failed")
             /\ UNCHANGED <<row, writerVars, audits, applied, event, sink, claim>>
    BY <1>5, Zenon DEF unenrich_alert
  <2>2. IsPayload(Cleared(keys)) /\ "dismissed" \notin DOMAIN Cleared(keys)
    BY BuiltPayloads, Zenon
  <2>4. rpc[r] = "idle"
    BY <1>5, Zenon DEF unenrich_alert
  <2>5. CASE \E action : Accept(r, "unenrich", <<f>>, Cleared(keys), action, FALSE, TRUE)
    BY <1>r, <1>b, <1>f, <2>2, <2>4, <2>5, AcceptOpens, Zenon
  <2>6. CASE Respond(r, "failed")
             /\ UNCHANGED <<row, writerVars, audits, applied, event, sink, claim>>
    BY <2>4, <2>6, Zenon DEF Declines
  <2> QED BY <2>1, <2>5, <2>6
<1>6. CASE batch_enrich_alerts(r)
  <2>1. PICK sent \in Payloads, dispose \in BOOLEAN :
          \/ \E fps \in {s \in UNION {[1..n -> Fps] : n \in 1..Cardinality(Fps)} :
                           \A i, j \in DOMAIN s : i # j => s[i] # s[j]} :
                Accept(r, "batch", fps, _translate_dismiss_enrichments(sent),
                       get_enrichment_metadata(_translate_dismiss_enrichments(sent)), dispose, FALSE)
          \/ \E a \in {"400", "ok"} :
                /\ Respond(r, a)
                /\ UNCHANGED <<row, writerVars, audits, applied, event, sink, claim>>
    BY <1>6, Zenon DEF batch_enrich_alerts
  <2> DEFINE p == _translate_dismiss_enrichments(sent)
  <2>2. IsPayload(p) /\ "dismissed" \notin DOMAIN p
    BY BuiltPayloads, Zenon
  <2>4. rpc[r] = "idle"
    BY <1>6, Zenon DEF batch_enrich_alerts
  <2>3. \A fps \in UNION {[1..n -> Fps] : n \in 1..Cardinality(Fps)} :
          fps \in Seq(Fps) /\ fps # << >>
    <3> SUFFICES ASSUME NEW n \in 1..Cardinality(Fps), NEW fps \in [1..n -> Fps]
                 PROVE  fps \in Seq(Fps) /\ fps # << >>
      OBVIOUS
    <3> QED OBVIOUS
  <2> DEFINE acts == get_enrichment_metadata(p)
             wide == "batch"
  <2>5. ASSUME NEW fps \in Seq(Fps), fps # << >>,
               Accept(r, "batch", fps, p, acts, dispose, FALSE)
        PROVE  Opens(r)
    <3>1. wide \in Routes
      BY <1>r
    <3>2. Accept(r, wide, fps, p, acts, dispose, FALSE)
      BY <2>5, Zenon
    <3> HIDE DEF p, acts, wide
    <3> QED BY <3>1, <3>2, <1>b, <2>2, <2>4, <2>5, AcceptOpens, Zenon
  <2>6. CASE \E a \in {"400", "ok"} :
                /\ Respond(r, a)
                /\ UNCHANGED <<row, writerVars, audits, applied, event, sink, claim>>
    BY <2>4, <2>6, Zenon DEF Declines
  <2> QED BY <2>1, <2>3, <2>5, <2>6, Zenon
<1> QED BY <1>1, <1>2, <1>3, <1>4, <1>5, <1>6

-----------------------------------------------------------------------------
(***************************************************************************)
(* Requests.                                                               *)
(***************************************************************************)

\* The request variables are functions on Requests, with values in range.
RequestShapes ==
    /\ DOMAIN req = Requests /\ DOMAIN todo = Requests /\ DOMAIN applied = Requests
    /\ DOMAIN event = Requests
    /\ rpc \in [Requests -> {"idle", "store", "publish", "done"}]
    /\ sink \in [Requests -> {"no", "main", "dlq"}]
    /\ answer \in [Requests -> {"none", "ok", "failed", "400", "422", "500"}]
    /\ \A a \in audits : a[1] \in Requests /\ a[2] \in Fps

\* A step that leaves request s alone.
Same(s) ==
    /\ rpc'[s] = rpc[s] /\ req'[s] = req[s] /\ todo'[s] = todo[s] /\ applied'[s] = applied[s]
    /\ event'[s] = event[s] /\ sink'[s] = sink[s] /\ answer'[s] = answer[s]
    /\ \A f : Audited(s, f)' <=> Audited(s, f)

\* What serving a request comes down to.
LEMMA ServeKinds ==
    ASSUME NEW r, Serve(r)
    PROVE  \/ Opens(r) \/ Declines(r) \/ RejectUnknown(r) \/ Store(r)
           \/ StoreFails(r) \/ Publish(r) \/ PublishRaises(r)
BY Openings, Zenon DEF Serve

\* Serving one request leaves the others alone.
LEMMA OtherRequests ==
    ASSUME RequestShapes, NEW r \in Requests, Serve(r), NEW s \in Requests, s # r
    PROVE  Same(s)
<1>s. /\ DOMAIN req = Requests /\ DOMAIN todo = Requests /\ DOMAIN applied = Requests
      /\ DOMAIN event = Requests /\ DOMAIN rpc = Requests /\ DOMAIN sink = Requests
      /\ DOMAIN answer = Requests
  BY Zenon DEF RequestShapes
<1>a. ASSUME NEW a, Respond(r, a)
      PROVE  rpc'[s] = rpc[s] /\ req'[s] = req[s] /\ todo'[s] = todo[s] /\ answer'[s] = answer[s]
  BY <1>a, <1>s, Zenon DEF Respond
<1>q. ASSUME audits' = audits
      PROVE  \A f : Audited(s, f)' <=> Audited(s, f)
  BY <1>q, Zenon DEF Audited
<1>1. CASE Opens(r)
  BY <1>1, <1>s, <1>q, Zenon DEF Opens, Same
<1>2. CASE Declines(r)
  BY <1>2, <1>a, <1>q, Zenon DEF Declines, Same
<1>3. CASE RejectUnknown(r)
  BY <1>3, <1>a, <1>q, Zenon DEF RejectUnknown, Same
<1>4. CASE Store(r)
  <2>1. PICK f, x : audits' = audits \cup {<<r, f, x>>}
    BY <1>4, Zenon DEF Store
  <2>2. \A g : Audited(s, g)' <=> Audited(s, g)
    BY <2>1 DEF Audited
  <2>3. /\ rpc'[s] = rpc[s] /\ req'[s] = req[s] /\ todo'[s] = todo[s] /\ applied'[s] = applied[s]
        /\ event'[s] = event[s] /\ sink'[s] = sink[s] /\ answer'[s] = answer[s]
    BY <1>4, <1>s, Zenon DEF Store
  <2> QED BY <2>2, <2>3, Zenon DEF Same
<1>5. CASE StoreFails(r)
  BY <1>5, <1>a, <1>q, Zenon DEF StoreFails, Same
<1>6. CASE Publish(r)
  BY <1>6, <1>a, <1>s, <1>q, Zenon DEF Publish, Same
<1>7. CASE PublishRaises(r)
  BY <1>7, <1>a, <1>q, Zenon DEF PublishRaises, Same
<1> QED BY <1>1, <1>2, <1>3, <1>4, <1>5, <1>6, <1>7, ServeKinds, Zenon

\* A request that was only written so far, written and not yet published, or at rest.
NothingOf(r) == \A f \in Fps : ~Audited(r, f)
Writing(r) ==
    rpc[r] = "store" =>
        /\ Served(req[r]) /\ todo[r] \in Seq(Fps) /\ todo[r] # << >>
        /\ Len(todo[r]) <= Len(req[r].fps)
        /\ \A i \in DOMAIN req[r].fps :
              Audited(r, req[r].fps[i]) \/ \E j \in DOMAIN todo[r] : todo[r][j] = req[r].fps[i]
        /\ todo[r] = req[r].fps => NothingOf(r)
        /\ sink[r] = "no"
Written(r) ==
    rpc[r] = "publish" =>
        /\ Served(req[r])
        /\ \A i \in DOMAIN req[r].fps : Audited(r, req[r].fps[i])
        /\ ~Unknown(_apply_dispose_on_new_alert(req[r].enrichments, req[r].dispose))
        /\ applied[r] = StoredOf(req[r].enrichments, req[r].dispose)
        /\ sink[r] = "no"
Finished(r) ==
    /\ rpc[r] = "idle" => sink[r] = "no" /\ NothingOf(r)
    /\ sink[r] # "no" =>
          /\ event[r].enrichments = applied[r] \/ event[r].mixed
          /\ \A i \in DOMAIN event[r].to : Audited(r, event[r].to[i])
    /\ rpc[r] = "done" =>
          /\ sink[r] = "no" /\ ~NothingOf(r) => answer[r] \in {"failed", "500"}
          /\ answer[r] = "422" => NothingOf(r)
Whole(r) == Writing(r) /\ Written(r) /\ Finished(r)

\* It reads nothing but the request's own variables.
LEMMA SameWhole ==
    ASSUME NEW s, Same(s), Whole(s)
    PROVE  Whole(s)'
<1>1. NothingOf(s)' <=> NothingOf(s)
  BY Zenon DEF NothingOf, Same
<1>2. Writing(s)'
  BY <1>1, Zenon DEF Same, Whole, Writing, Served
<1>3. Written(s)'
  BY Zenon DEF Same, Whole, Written, Served, Unknown, StoredOf
<1>4. Finished(s)'
  BY <1>1, Zenon DEF Same, Whole, Finished
<1> QED BY <1>2, <1>3, <1>4, Zenon DEF Whole

\* Serving keeps the variables in range.
LEMMA ShapesStep ==
    ASSUME RequestShapes, NEW r \in Requests, Serve(r), Whole(r)
    PROVE  RequestShapes'
<1>s. /\ DOMAIN req = Requests /\ DOMAIN todo = Requests /\ DOMAIN applied = Requests
      /\ DOMAIN event = Requests
      /\ rpc \in [Requests -> {"idle", "store", "publish", "done"}]
      /\ sink \in [Requests -> {"no", "main", "dlq"}]
      /\ answer \in [Requests -> {"none", "ok", "failed", "400", "422", "500"}]
      /\ \A a \in audits : a[1] \in Requests /\ a[2] \in Fps
  BY Zenon DEF RequestShapes
<1>d. \A g, v : DOMAIN [g EXCEPT ![r] = v] = DOMAIN g
  OBVIOUS
<1>a. ASSUME NEW a \in {"ok", "failed", "400", "422", "500"}, Respond(r, a)
      PROVE  /\ DOMAIN req' = Requests /\ DOMAIN todo' = Requests
             /\ rpc' \in [Requests -> {"idle", "store", "publish", "done"}]
             /\ answer' \in [Requests -> {"none", "ok", "failed", "400", "422", "500"}]
  <2>1. DOMAIN req' = Requests /\ DOMAIN todo' = Requests
    BY <1>a, <1>s, <1>d, Zenon DEF Respond
  <2>2. rpc' = [rpc EXCEPT ![r] = "done"] /\ answer' = [answer EXCEPT ![r] = a]
    BY <1>a, Zenon DEF Respond
  <2> QED BY <2>1, <2>2, <1>s
<1>f. Failure(r) \in {"ok", "failed", "400", "422", "500"}
  BY DEF Failure
<1>1. CASE Opens(r)
  <2>1. DOMAIN req' = Requests /\ DOMAIN todo' = Requests
    BY <1>1, <1>s, <1>d, Zenon DEF Opens
  <2>2. rpc' = [rpc EXCEPT ![r] = "store"]
    BY <1>1, Zenon DEF Opens
  <2>3. rpc' \in [Requests -> {"idle", "store", "publish", "done"}]
    BY <2>2, <1>s
  <2> QED BY <1>1, <2>1, <2>3, <1>s, Zenon DEF Opens, RequestShapes
<1>2. CASE Declines(r)
  BY <1>2, <1>s, <1>a, Zenon DEF Declines, RequestShapes
<1>3. CASE RejectUnknown(r)
  BY <1>3, <1>s, <1>a, Zenon DEF RejectUnknown, RequestShapes
<1>4. CASE Store(r)
  <2>1. DOMAIN req' = Requests /\ DOMAIN todo' = Requests /\ DOMAIN applied' = Requests
        /\ event' = event /\ sink' = sink /\ answer' = answer
    BY <1>4, <1>s, <1>d, Zenon DEF Store
  <2>2. rpc' = [rpc EXCEPT ![r] = IF Len(todo[r]) = 1 THEN "publish" ELSE "store"]
    BY <1>4, Zenon DEF Store
  <2>3. rpc' \in [Requests -> {"idle", "store", "publish", "done"}]
    BY <2>2, <1>s
  <2>4. audits' = audits \cup {<<r, Head(todo[r]), req[r].action>>} /\ rpc[r] = "store"
    BY <1>4, Zenon DEF Store
  <2>5. todo[r] \in Seq(Fps) /\ todo[r] # << >>
    BY <2>4, Zenon DEF Whole, Writing
  <2>6. Head(todo[r]) \in Fps
    BY <2>5
  <2>7. \A a \in audits' : a[1] \in Requests /\ a[2] \in Fps
    BY <2>4, <2>6, <1>s
  <2> QED BY <2>1, <2>3, <2>7, <1>s, Zenon DEF RequestShapes
<1>5. CASE StoreFails(r)
  BY <1>5, <1>s, <1>a, <1>f, Zenon DEF StoreFails, RequestShapes
<1>6. CASE Publish(r)
  <2>1. DOMAIN event' = Requests
    BY <1>6, <1>s, <1>d, Zenon DEF Publish
  <2>2. PICK t \in {"main", "dlq"} : sink' = [sink EXCEPT ![r] = t]
    BY <1>6, Zenon DEF Publish
  <2>3. sink' \in [Requests -> {"no", "main", "dlq"}]
    BY <2>2, <1>s
  <2>4. PICK a \in {"ok", "failed", "400", "422", "500"} : Respond(r, a)
    BY <1>6, <1>f, Zenon DEF Publish
  <2>5. applied' = applied /\ audits' = audits
    BY <1>6, Zenon DEF Publish
  <2> QED BY <2>1, <2>3, <2>4, <2>5, <1>a, <1>s, Zenon DEF RequestShapes
<1>7. CASE PublishRaises(r)
  BY <1>7, <1>s, <1>a, <1>f, Zenon DEF PublishRaises, RequestShapes
<1> QED BY <1>1, <1>2, <1>3, <1>4, <1>5, <1>6, <1>7, ServeKinds, Zenon

\* What Respond leaves of the request.
LEMMA RespondIs ==
    ASSUME RequestShapes, NEW r \in Requests, NEW a, Respond(r, a)
    PROVE  rpc'[r] = "done" /\ answer'[r] = a
BY Zenon DEF Respond, RequestShapes

\* A step that writes one more fingerprint.
LEMMA StoreWhole ==
    ASSUME RequestShapes, NEW r \in Requests, Store(r), Whole(r)
    PROVE  Whole(r)'
<1> DEFINE fps == req[r].fps
           todos == todo[r]
           f == Head(todos)
           Now(g) == \E a \in audits' : a[1] = r /\ a[2] = g
<1>1. /\ rpc[r] = "store" /\ req' = req /\ sink' = sink
      /\ audits' = audits \cup {<<r, f, req[r].action>>}
      /\ todo' = [todo EXCEPT ![r] = Tail(todos)]
      /\ rpc' = [rpc EXCEPT ![r] = IF Len(todos) = 1 THEN "publish" ELSE "store"]
      /\ applied' = [applied EXCEPT ![r] = normalize_enrichments(Prepared(r))]
      /\ ~Unknown(_apply_dispose_on_new_alert(req[r].enrichments, req[r].dispose))
  BY Zenon DEF Store
<1>2. /\ Served(req[r]) /\ todos \in Seq(Fps) /\ todos # << >>
      /\ Len(todos) <= Len(fps)
      /\ \A i \in DOMAIN fps :
            Audited(r, fps[i]) \/ \E j \in DOMAIN todos : todos[j] = fps[i]
      /\ sink[r] = "no"
  BY <1>1, Zenon DEF Whole, Writing
<1>3. fps \in Seq(Fps)
  BY <1>2, Zenon DEF Served
<1>4. todo'[r] = Tail(todos) /\ applied'[r] = normalize_enrichments(Prepared(r))
      /\ rpc'[r] = IF Len(todos) = 1 THEN "publish" ELSE "store"
  BY <1>1, Zenon DEF RequestShapes
<1>5. Now(f) /\ \A g : Audited(r, g) => Now(g)
  <2> DEFINE x == <<r, f, req[r].action>>
  <2>1. x[1] = r /\ x[2] = f
    OBVIOUS
  <2> HIDE DEF x
  <2>2. audits' = audits \cup {x}
    BY <1>1 DEF x
  <2> HIDE DEF f
  <2>3. x \in audits' /\ \A a \in audits : a \in audits'
    BY <2>2
  <2> QED BY <2>1, <2>3, Zenon DEF Audited
<1>6. Finished(r)'
  <2>1. rpc'[r] \in {"publish", "store"} /\ sink'[r] = "no"
    BY <1>1, <1>2, <1>4
  <2> QED BY <2>1 DEF Finished
<1>9. (\A i \in DOMAIN fps : Now(fps[i])) => \A i \in DOMAIN req'[r].fps : Audited(r, req[r].fps[i])'
  BY <1>1, Zenon DEF Audited
<1> HIDE DEF fps, todos, Now
<1>7. CASE Len(todos) = 1
  <2>1. \A j \in DOMAIN todos : todos[j] = f
    BY <1>2, <1>7
  <2> HIDE DEF f
  <2>2. \A i \in DOMAIN fps : Now(fps[i])
    BY <1>2, <1>5, <2>1, Zenon
  <2>3. applied'[r] = StoredOf(req[r].enrichments, req[r].dispose)
    BY <1>4, Zenon DEF StoredOf, Prepared
  <2>4. rpc'[r] = "publish"
    BY <1>4, <1>7, Zenon
  <2>5. Written(r)'
    BY <1>1, <1>2, <1>9, <2>2, <2>3, Zenon DEF Written, Served, Unknown, StoredOf, fps
  <2>6. Writing(r)'
    BY <2>4 DEF Writing
  <2> QED BY <1>6, <2>5, <2>6, Zenon DEF Whole
<1>8. CASE Len(todos) # 1
  <2>1. /\ Tail(todos) \in Seq(Fps) /\ Tail(todos) # << >>
        /\ Len(Tail(todos)) < Len(fps)
    <3>1. /\ Tail(todos) \in Seq(Fps) /\ Len(todos) \in Nat /\ Len(todos) # 0
          /\ Len(Tail(todos)) = Len(todos) - 1
      BY <1>2
    <3>2. Len(fps) \in Nat /\ Len(todos) <= Len(fps)
      BY <1>2, <1>3
    <3>3. Len(Tail(todos)) < Len(fps) /\ Len(Tail(todos)) # 0
      BY <3>1, <3>2, <1>8
    <3>4. Tail(todos) # << >>
      <4>1. Len(<< >>) = 0
        OBVIOUS
      <4> QED BY <3>3, <4>1, Zenon
    <3> QED BY <3>1, <3>3, <3>4
  <2>2. Tail(todos) # fps
    BY <2>1, <1>3
  <2>3. \A j \in DOMAIN todos : todos[j] = f \/ \E k \in DOMAIN Tail(todos) : Tail(todos)[k] = todos[j]
    <3> SUFFICES ASSUME NEW j \in DOMAIN todos, j # 1
                 PROVE  \E k \in DOMAIN Tail(todos) : Tail(todos)[k] = todos[j]
      BY <1>2
    <3>1. j - 1 \in DOMAIN Tail(todos) /\ Tail(todos)[j - 1] = todos[j]
      BY <1>2
    <3> QED BY <3>1
  <2> HIDE DEF f
  <2>4. \A i \in DOMAIN fps :
            Now(fps[i]) \/ \E k \in DOMAIN Tail(todos) : Tail(todos)[k] = fps[i]
    BY <1>2, <1>5, <2>3, Zenon
  <2>5. rpc'[r] = "store"
    BY <1>4, <1>8, Zenon
  <2>6. Len(Tail(todos)) <= Len(fps)
    BY <2>1, <1>3
  <2>10. todo'[r] # req'[r].fps /\ Len(todo'[r]) <= Len(req'[r].fps)
    BY <1>1, <1>4, <2>2, <2>6, Zenon DEF fps
  <2>11. \A i \in DOMAIN req'[r].fps :
            Audited(r, req[r].fps[i])' \/ \E k \in DOMAIN todo'[r] : todo'[r][k] = req'[r].fps[i]
    <3>1. req'[r].fps = fps
      BY <1>1, Zenon DEF fps
    <3>2. \A i : Now(fps[i]) => Audited(r, req[r].fps[i])'
      BY <3>1, Zenon DEF Audited, Now
    <3> QED BY <1>4, <2>4, <3>1, <3>2, Zenon
  <2>12. Served(req[r])' /\ todo'[r] \in Seq(Fps) /\ todo'[r] # << >> /\ sink'[r] = "no"
    BY <1>1, <1>2, <1>4, <2>1, Zenon DEF Served
  <2>7. Writing(r)'
    BY <2>10, <2>11, <2>12, Zenon DEF Writing
  <2>8. Written(r)'
    BY <2>5 DEF Written
  <2> QED BY <1>6, <2>7, <2>8, Zenon DEF Whole
<1> QED BY <1>7, <1>8

\* A route that hands its request on.
LEMMA OpensWhole ==
    ASSUME RequestShapes, NEW r \in Requests, Opens(r), Whole(r)
    PROVE  Whole(r)'
<1>1. PICK q : /\ Served(q)
               /\ req' = [req EXCEPT ![r] = q]
               /\ todo' = [todo EXCEPT ![r] = q.fps]
               /\ rpc' = [rpc EXCEPT ![r] = "store"]
  BY Zenon DEF Opens
<1>2. rpc[r] = "idle" /\ audits' = audits /\ sink' = sink
  BY Zenon DEF Opens
<1>3. rpc'[r] = "store" /\ req'[r] = q /\ todo'[r] = q.fps
  BY <1>1, Zenon DEF RequestShapes
<1>4. sink[r] = "no" /\ NothingOf(r)
  BY <1>2, Zenon DEF Whole, Finished
<1>5. NothingOf(r)'
  BY <1>2, <1>4, Zenon DEF NothingOf, Audited
<1>6. q.fps \in Seq(Fps) /\ q.fps # << >>
  BY <1>1, Zenon DEF Served
<1>7. Len(q.fps) <= Len(q.fps)
  BY <1>6
<1>8. Writing(r)'
  <2>1. Served(req[r])'
    BY <1>1, <1>3, Zenon DEF Served
  <2>2. \A i \in DOMAIN req'[r].fps : \E j \in DOMAIN todo'[r] : todo'[r][j] = req'[r].fps[i]
    BY <1>3, Zenon
  <2> QED BY <1>2, <1>3, <1>4, <1>5, <1>6, <1>7, <2>1, <2>2, Zenon DEF Writing
<1>9. Written(r)'
  BY <1>3 DEF Written
<1>10. Finished(r)'
  BY <1>2, <1>3, <1>4 DEF Finished
<1> QED BY <1>8, <1>9, <1>10, Zenon DEF Whole

\* An answer without an event: nothing was written, or the caller is told.
LEMMA AnswerWhole ==
    ASSUME RequestShapes, NEW r \in Requests, NEW a, Respond(r, a),
           audits' = audits, sink' = sink, sink[r] = "no",
           NothingOf(r) \/ a \in {"failed", "500"}
    PROVE  Whole(r)'
<1>1. rpc'[r] = "done" /\ answer'[r] = a
  BY RespondIs
<1>2. NothingOf(r)' <=> NothingOf(r)
  BY Zenon DEF NothingOf, Audited
<1>3. Writing(r)' /\ Written(r)'
  BY <1>1 DEF Writing, Written
<1>4. "422" \notin {"failed", "500"}
  OBVIOUS
<1>5. "done" # "idle"
  OBVIOUS
<1>6. Finished(r)'
  BY <1>1, <1>2, <1>4, <1>5, Zenon DEF Finished
<1> QED BY <1>3, <1>6, Zenon DEF Whole

\* An answer after the event.
LEMMA PublishWhole ==
    ASSUME RequestShapes, NEW r \in Requests, Publish(r), Whole(r)
    PROVE  Whole(r)'
<1> DEFINE e == [to |-> req[r].fps, enrichments |-> Prepared(r), mixed |-> Mixed(req[r].enrichments)]
<1>1. /\ rpc[r] = "publish" /\ audits' = audits /\ applied' = applied
      /\ event' = [event EXCEPT ![r] = e]
  BY Zenon DEF Publish
<1>2. PICK t \in {"main", "dlq"} : sink' = [sink EXCEPT ![r] = t]
  BY Zenon DEF Publish
<1>3. PICK a \in {"ok", "failed", "500"} : Respond(r, a)
  <2>1. Failure(r) \in {"ok", "failed", "500"}
    BY DEF Failure
  <2> QED BY <2>1, Zenon DEF Publish
<1>4. /\ Served(req[r])
      /\ \A i \in DOMAIN req[r].fps : Audited(r, req[r].fps[i])
      /\ ~Unknown(_apply_dispose_on_new_alert(req[r].enrichments, req[r].dispose))
      /\ applied[r] = StoredOf(req[r].enrichments, req[r].dispose)
  BY <1>1, Zenon DEF Whole, Written
<1>5. e.enrichments = applied[r] \/ e.mixed
  <2>1. ~Mixed(req[r].enrichments)
          => StoredOf(req[r].enrichments, req[r].dispose)
               = normalize_enrichments(_apply_dispose_on_new_alert(req[r].enrichments, req[r].dispose))
    BY <1>4, StoredIs, Zenon DEF Served
  <2>2. e.enrichments = Prepared(r) /\ e.mixed = Mixed(req[r].enrichments)
    BY Zenon
  <2> QED BY <1>4, <2>1, <2>2, Zenon DEF Prepared
<1>6. e.to = req[r].fps
  BY Zenon
<1> HIDE DEF e
<1>7. event'[r] = e /\ sink'[r] = t /\ rpc'[r] = "done" /\ answer'[r] = a
  BY <1>1, <1>2, <1>3, RespondIs, Zenon DEF RequestShapes
<1>8. \A i \in DOMAIN event'[r].to : Audited(r, event[r].to[i])'
  <2>1. event'[r].to = req[r].fps
    BY <1>6, <1>7, Zenon
  <2> DEFINE Now(g) == \E x \in audits' : x[1] = r /\ x[2] = g
  <2>2. \A i \in DOMAIN req[r].fps : Now(req[r].fps[i])
    BY <1>1, <1>4, Zenon DEF Audited
  <2>3. \A i : Now(event'[r].to[i]) => Audited(r, event[r].to[i])'
    BY Zenon DEF Audited
  <2> HIDE DEF Now
  <2> QED BY <2>1, <2>2, <2>3, Zenon
<1>9. "done" \notin {"idle", "store", "publish"} /\ "no" \notin {"main", "dlq"} /\ "422" \notin {"ok", "failed", "500"}
  OBVIOUS
<1>10. Writing(r)' /\ Written(r)'
  BY <1>7 DEF Writing, Written
<1>11. Finished(r)'
  <2>1. sink'[r] # "no" /\ answer'[r] # "422" /\ rpc'[r] # "idle"
    BY <1>2, <1>3, <1>7, <1>9
  <2>2. event'[r].enrichments = applied'[r] \/ event'[r].mixed
    BY <1>1, <1>5, <1>7
  <2> QED BY <1>8, <2>1, <2>2, Zenon DEF Finished
<1> QED BY <1>10, <1>11, Zenon DEF Whole

\* Whatever is done for the request.
LEMMA OwnWhole ==
    ASSUME RequestShapes, NEW r \in Requests, Serve(r), Whole(r)
    PROVE  Whole(r)'
<1>f. Failure(r) \in {"failed", "500"}
  BY DEF Failure
<1>1. CASE Opens(r)
  BY <1>1, OpensWhole
<1>2. CASE Declines(r)
  <2>1. sink[r] = "no" /\ NothingOf(r)
    BY <1>2, Zenon DEF Declines, Whole, Finished
  <2> QED BY <1>2, <2>1, AnswerWhole, Zenon DEF Declines
<1>3. CASE RejectUnknown(r)
  <2>1. sink[r] = "no" /\ NothingOf(r)
    BY <1>3, Zenon DEF RejectUnknown, Whole, Writing
  <2> QED BY <1>3, <2>1, AnswerWhole, Zenon DEF RejectUnknown
<1>4. CASE Store(r)
  BY <1>4, StoreWhole
<1>5. CASE StoreFails(r)
  <2>1. sink[r] = "no"
    BY <1>5, Zenon DEF StoreFails, Whole, Writing
  <2> QED BY <1>5, <1>f, <2>1, AnswerWhole, Zenon DEF StoreFails
<1>6. CASE Publish(r)
  BY <1>6, PublishWhole
<1>7. CASE PublishRaises(r)
  <2>1. sink[r] = "no"
    BY <1>7, Zenon DEF PublishRaises, Whole, Written
  <2> QED BY <1>7, <1>f, <2>1, AnswerWhole, Zenon DEF PublishRaises
<1> QED BY <1>1, <1>2, <1>3, <1>4, <1>5, <1>6, <1>7, ServeKinds, Zenon

\* The invariant of the requests.
RequestInv == RequestShapes /\ \A r \in Requests : Whole(r)

\* It holds at first, when nothing was asked.
LEMMA RequestInit == Init => RequestInv
<1> SUFFICES ASSUME Init PROVE RequestInv
  OBVIOUS
<1>1. /\ rpc = [r \in Requests |-> "idle"]
      /\ sink = [r \in Requests |-> "no"]
      /\ answer = [r \in Requests |-> "none"]
      /\ audits = {}
      /\ DOMAIN req = Requests /\ DOMAIN todo = Requests /\ DOMAIN applied = Requests
      /\ DOMAIN event = Requests
  BY DEF Init
<1>2. RequestShapes
  BY <1>1 DEF RequestShapes
<1>3. \A r, f : ~Audited(r, f)
  BY <1>1 DEF Audited
<1>4. ASSUME NEW r \in Requests PROVE Whole(r)
  BY <1>1, <1>3 DEF Whole, Writing, Written, Finished, NothingOf
<1> QED BY <1>2, <1>4 DEF RequestInv

\* It is kept by the requests' steps and untouched by the occurrences'.
LEMMA RequestStep == RequestInv /\ [Next]_vars => RequestInv'
<1> SUFFICES ASSUME RequestInv, [Next]_vars PROVE RequestInv'
  OBVIOUS
<1>1. ASSUME requestVars' = requestVars
      PROVE  RequestInv'
  <2>1. \A s : Same(s)
    BY <1>1, Zenon DEF requestVars, Same, Audited
  <2>2. \A s \in Requests : Whole(s)'
    BY <2>1, SameWhole, Zenon DEF RequestInv
  <2>3. RequestShapes'
    BY <1>1, Zenon DEF RequestInv, RequestShapes, requestVars
  <2> QED BY <2>2, <2>3, Zenon DEF RequestInv
<1>2. CASE UNCHANGED vars
  BY <1>1, <1>2, Zenon DEF vars, requestVars
<1>3. ASSUME NEW w \in Writers, SetLastAlert(w) PROVE RequestInv'
  <2>1. requestVars' = requestVars
    BY <1>3, Zenon DEF SetLastAlert, Begin, Repoint, SeeNoRow, Insert, InsertCollides, DatabaseFault
  <2> QED BY <1>1, <2>1
<1>4. ASSUME NEW r \in Requests, Serve(r) PROVE RequestInv'
  <2>1. RequestShapes'
    BY <1>4, ShapesStep, Zenon DEF RequestInv
  <2>2. ASSUME NEW s \in Requests PROVE Whole(s)'
    BY <1>4, OwnWhole, OtherRequests, SameWhole, Zenon DEF RequestInv
  <2> QED BY <2>1, <2>2, Zenon DEF RequestInv
<1> QED BY <1>2, <1>3, <1>4, Zenon DEF Next

\* The event of a request repeats what the database layer wrote, after every
\* fingerprint was written and audited, and what was written without an event is
\* reported to the caller (RequestIsWhole), whatever the occurrences do meanwhile.
THEOREM RequestTheorem == Spec => []RequestIsWhole
<1>1. RequestInv => RequestIsWhole
  BY Zenon DEF RequestInv, Whole, Finished, NothingOf, RequestIsWhole, EventRepeatsTheStore,
               UnpublishedIsReported
<1> QED BY <1>1, RequestInit, RequestStep, PTL DEF Spec

-----------------------------------------------------------------------------
(***************************************************************************)
(* Rows, occurrences and the users' choices.                               *)
(***************************************************************************)

\* What the history of a row and an occurrence are.
Claims == [shown : [status : AlertStatus, mode : DismissMode, until : Until],
           keep : BOOLEAN, explicit : BOOLEAN, since : SUBSET Statuses]
Occs == [fp : Fps, ts : 1..MaxTs, status : Statuses]

\* A row's own types, and what it shows of the user's choice: the choice with its
\* flag while it lasts, the newest occurrence's status and the flag set afterwards.
RowTyped(la) ==
    la \in LastAlerts /\ la.ts \in 1..MaxTs /\ la.first \in 0..MaxTs /\ la.first <= la.ts
Spent(c) == "resolved" \in c.since \/ (~c.keep /\ c.since # {})
Chosen(la, c, own) ==
    c.explicit =>
        IF Spent(c)
        THEN Shown(la) = OwnStatus(own) /\ la.status_disposable
        ELSE Shown(la) = c.shown /\ (la.status_disposable <=> ~c.keep)

\* A newer occurrence takes a row over.
LEMMA TakenRow ==
    ASSUME NEW la, NEW c \in Claims, NEW o \in Occs, NEW w \in Writers, NEW own,
           RowTyped(la), Chosen(la, c, own), la.ts < o.ts
    PROVE  LET new == Taken(la, o.ts, w, o.status)
               d == [c EXCEPT !.since = @ \cup {o.status}]
           IN  /\ RowTyped(new) /\ d \in Claims /\ Chosen(new, d, o.status)
               /\ new.ts = o.ts /\ new.alert = w
<1> DEFINE new == Taken(la, o.ts, w, o.status)
           d == [c EXCEPT !.since = @ \cup {o.status}]
<1>1. o.ts \in 1..MaxTs /\ o.status \in Statuses /\ MaxTs \in Nat
  BY LastAlertAssumption DEF Occs
<1>2. la \in LastAlerts /\ la.ts \in 1..MaxTs /\ la.first \in 0..MaxTs /\ la.first <= la.ts
  BY Zenon DEF RowTyped
<1>3. o.ts \in Nat
  BY <1>1
<1>4. /\ new \in LastAlerts
      /\ new.ts = o.ts /\ new.alert = w /\ new.first = la.first
      /\ o.status = "resolved" \/ la.status_disposable
           => Shown(new) = OwnStatus(o.status) /\ new.status_disposable
      /\ ~(o.status = "resolved" \/ la.status_disposable)
           => Shown(new) = Shown(la) /\ ~new.status_disposable
  <2>1. la \in LastAlerts
    BY <1>2
  <2>2. o.status \in Statuses
    BY <1>1
  <2> QED BY <1>3, <2>1, <2>2, RepointedIs
<1> HIDE DEF new
<1>5. RowTyped(new)
  <2>1. la.first <= o.ts /\ new.ts \in 1..MaxTs
    BY <1>1, <1>2, <1>4
  <2> QED BY <1>2, <1>4, <2>1, Zenon DEF RowTyped
<1>6. /\ d.since = c.since \cup {o.status} /\ d.shown = c.shown
      /\ d \in Claims
  BY <1>1 DEF Claims
<1>7. d.keep = c.keep /\ d.explicit = c.explicit
  BY Zenon DEF Claims
<1>8. c.since \subseteq {"firing", "resolved"} /\ o.status \in {"firing", "resolved"}
  BY <1>1 DEF Claims, Statuses
<1>8a. c.keep \in BOOLEAN
  BY Zenon DEF Claims
<1> HIDE DEF d
<1>9. CASE o.status = "resolved"
  <2>1. Spent(d)
    BY <1>6, <1>9, Zenon DEF Spent
  <2> QED BY <1>4, <1>5, <1>6, <1>9, <2>1, Zenon DEF Chosen, d, new
<1>10. CASE o.status = "firing" /\ ~c.keep
  <2>1. Spent(d)
    BY <1>6, <1>7, <1>10, Zenon DEF Spent
  <2>2. c.explicit => la.status_disposable
    BY <1>10, Zenon DEF Chosen
  <2> QED BY <1>4, <1>5, <1>6, <1>7, <2>1, <2>2, Zenon DEF Chosen, d, new
<1>11. CASE o.status = "firing" /\ c.keep
  <2>0. o.status # "resolved"
    BY <1>11
  <2>1. Spent(d) <=> Spent(c)
    BY <2>0, <1>6, <1>7, <1>11, Zenon DEF Spent
  <2>2. CASE Spent(c)
    <3>1. c.explicit => la.status_disposable
      BY <2>2, Zenon DEF Chosen
    <3> QED BY <1>4, <1>5, <1>6, <1>7, <2>1, <2>2, <3>1, Zenon DEF Chosen, d, new
  <2>3. CASE ~Spent(c)
    <3>1. c.explicit => Shown(la) = c.shown /\ ~la.status_disposable
      BY <1>11, <2>3, Zenon DEF Chosen
    <3>2. c.explicit => Shown(new) = c.shown /\ ~new.status_disposable
      BY <1>4, <2>0, <3>1, Zenon
    <3>3. Chosen(new, d, o.status)
      BY <1>6, <1>7, <1>11, <2>1, <2>3, <3>2, Zenon DEF Chosen
    <3> QED BY <1>4, <1>5, <1>6, <3>3, Zenon DEF d, new
  <2> QED BY <2>2, <2>3
<1> QED BY <1>8, <1>9, <1>10, <1>11, Zenon

\* What a row shows is typed.
LEMMA ShownTyped ==
    ASSUME NEW la \in LastAlerts
    PROVE  Shown(la) \in [status : AlertStatus, mode : DismissMode, until : Until]
<1>1. la.status \in AlertStatus /\ la.dismiss_mode \in DismissMode /\ la.dismissed_until \in Until
  BY DEF LastAlerts
<1> QED BY <1>1, Zenon DEF Shown

\* A new claim lasts, with the flag it asked for.
LEMMA ClaimIs ==
    ASSUME NEW la \in LastAlerts, NEW keep \in BOOLEAN, NEW explicit \in BOOLEAN
    PROVE  /\ Claim(la, keep, explicit) \in Claims
           /\ ~Spent(Claim(la, keep, explicit))
           /\ Claim(la, keep, explicit).shown = Shown(la)
           /\ Claim(la, keep, explicit).keep <=> keep
           /\ Claim(la, keep, explicit).explicit <=> explicit
<1> DEFINE c == Claim(la, keep, explicit)
<1>0. c = [shown |-> Shown(la), keep |-> keep, explicit |-> explicit, since |-> {}]
  BY DEF Claim
<1>1. c.since = {} /\ c.shown = Shown(la) /\ (c.keep <=> keep) /\ (c.explicit <=> explicit)
  <2> HIDE DEF c
  <2>1. c.since = {} /\ c.shown = Shown(la)
    BY <1>0
  <2>2. c.keep = keep /\ c.explicit = explicit
    BY <1>0, Zenon
  <2> QED BY <2>1, <2>2
<1>2. c \in Claims
  <2>1. {} \in SUBSET Statuses
    OBVIOUS
  <2> DEFINE shows == [status : AlertStatus, mode : DismissMode, until : Until]
  <2>2. Shown(la) \in shows
    BY ShownTyped, Zenon
  <2>3. Claims = [shown : shows, keep : BOOLEAN, explicit : BOOLEAN, since : SUBSET Statuses]
    BY Zenon DEF Claims
  <2> HIDE DEF shows, c
  <2> QED BY <1>0, <2>1, <2>2, <2>3, Zenon
<1> HIDE DEF c
<1>3. ~Spent(c)
  BY <1>1 DEF Spent
<1> QED BY <1>1, <1>2, <1>3 DEF c

\* The first occurrence creates the row.
LEMMA CreatedRow ==
    ASSUME NEW w \in Writers, occ[w] \in Occs, NEW own
    PROVE  LET new == NewLastAlert(w)
               d == Claim(NewLastAlert(w), TRUE, TRUE)
           IN  /\ RowTyped(new) /\ d \in Claims /\ Chosen(new, d, own)
               /\ new.ts = occ[w].ts /\ new.alert = w
<1> DEFINE new == NewLastAlert(w)
           d == Claim(new, TRUE, TRUE)
<1>1. occ[w].ts \in 1..MaxTs /\ MaxTs \in Nat
  BY LastAlertAssumption DEF Occs
<1>2. occ[w].ts \in Nat /\ occ[w].ts \in 0..MaxTs /\ occ[w].ts <= occ[w].ts
  BY <1>1
<1>3. Null \in AlertStatus /\ Null \in DismissMode /\ Null \in Until
  BY DEF AlertStatus, DismissMode, Until
<1>4. FALSE \in BOOLEAN /\ Null \in {Null, Blank, "note"}
  OBVIOUS
<1>5. new \in LastAlerts
  BY <1>2, <1>3, <1>4, Zenon DEF NewLastAlert, LastAlerts
<1>6. new.ts = occ[w].ts /\ new.first = occ[w].ts /\ new.alert = w /\ ~new.status_disposable
  BY Zenon DEF NewLastAlert
<1> HIDE DEF new
<1>7. RowTyped(new)
  BY <1>1, <1>2, <1>5, <1>6, Zenon DEF RowTyped
<1>8. d \in Claims /\ ~Spent(d) /\ d.shown = Shown(new) /\ d.keep
  BY <1>5, ClaimIs, Zenon
<1> HIDE DEF d
<1>9. Chosen(new, d, own)
  BY <1>6, <1>8, Zenon DEF Chosen
<1> QED BY <1>6, <1>7, <1>8, <1>9, Zenon DEF new, d

\* A request writes the row: a status or dismiss mode it asks for is a new choice,
\* other columns leave the choice as it is.
LEMMA StoredRow ==
    ASSUME NEW la, NEW c \in Claims, NEW own, NEW q,
           RowTyped(la), Chosen(la, c, own), Served(q),
           ~Unknown(_apply_dispose_on_new_alert(q.enrichments, q.dispose))
    PROVE  LET p == StoredOf(q.enrichments, q.dispose)
               new == _apply_enrichments_to_last_alert(la, p, q.force)
               asked == {"status", "dismiss_mode"} \cap DOMAIN q.enrichments # {}
           IN  /\ RowTyped(new) /\ new.ts = la.ts /\ new.alert = la.alert
               /\ Chooses(p) => /\ Claim(new, ~q.dispose, asked) \in Claims
                                /\ Chosen(new, Claim(new, ~q.dispose, asked), own)
               /\ ~Chooses(p) => Chosen(new, c, own)
<1> DEFINE e == q.enrichments
           p == StoredOf(e, q.dispose)
           new == _apply_enrichments_to_last_alert(la, p, q.force)
           asked == {"status", "dismiss_mode"} \cap DOMAIN e # {}
           d == Claim(new, ~q.dispose, asked)
<1>1. IsPayload(e) /\ "dismissed" \notin DOMAIN e /\ q.dispose \in BOOLEAN /\ q.force \in BOOLEAN
  BY Zenon DEF Served
<1>2. la \in LastAlerts /\ la.ts \in 1..MaxTs /\ la.first \in 0..MaxTs /\ la.first <= la.ts
  BY Zenon DEF RowTyped
<1>3. /\ IsPayload(p) /\ DOMAIN p \subseteq LASTALERT_ENRICHMENT_COLUMNS
      /\ asked => "status_disposable" \in DOMAIN p /\ p["status_disposable"] = q.dispose
  BY <1>1, StoredIs, Zenon
<1> HIDE DEF p
<1>4. /\ new \in LastAlerts
      /\ new.ts = la.ts /\ new.first = la.first /\ new.alert = la.alert
      /\ new.status = IF "status" \in DOMAIN p THEN p["status"] ELSE la.status
      /\ new.dismiss_mode = IF "dismiss_mode" \in DOMAIN p THEN p["dismiss_mode"] ELSE la.dismiss_mode
      /\ new.dismissed_until =
           IF "dismissed_until" \in DOMAIN p THEN p["dismissed_until"] ELSE la.dismissed_until
      /\ new.status_disposable =
           IF "status_disposable" \in DOMAIN p THEN p["status_disposable"] ELSE la.status_disposable
  BY <1>1, <1>2, <1>3, AppliedIs, Zenon
<1> HIDE DEF new
<1>5. RowTyped(new)
  BY <1>2, <1>4, Zenon DEF RowTyped
<1>6. asked \in BOOLEAN /\ (~q.dispose) \in BOOLEAN
  OBVIOUS
<1> HIDE DEF asked
<1>7. /\ d \in Claims /\ ~Spent(d) /\ d.shown = Shown(new)
      /\ d.keep <=> ~q.dispose
      /\ d.explicit <=> asked
  BY <1>4, <1>6, ClaimIs, Zenon
<1> HIDE DEF d
<1>8. Chosen(new, d, own)
  <2>1. asked => new.status_disposable = q.dispose
    BY <1>3, <1>4, Zenon
  <2>2. d.explicit => Shown(new) = d.shown /\ (new.status_disposable <=> ~d.keep)
    BY <1>1, <1>7, <2>1, Zenon
  <2> QED BY <1>7, <2>2, Zenon DEF Chosen
<1>9. ASSUME ~Chooses(p) PROVE Chosen(new, c, own)
  <2>1. DOMAIN p \cap {"status", "dismiss_mode", "dismissed_until", "status_disposable"} = {}
    BY <1>9, Zenon DEF Chooses
  <2>2. "status" \notin DOMAIN p /\ "dismiss_mode" \notin DOMAIN p
        /\ "dismissed_until" \notin DOMAIN p /\ "status_disposable" \notin DOMAIN p
    BY <2>1
  <2>3. Shown(new) = Shown(la)
    BY <1>4, <2>2, Zenon DEF Shown
  <2>4. new.status_disposable = la.status_disposable
    BY <1>4, <2>2, Zenon
  <2> QED BY <2>3, <2>4, Zenon DEF Chosen
<1> QED BY <1>4, <1>5, <1>7, <1>8, <1>9, Zenon DEF p, new, d, asked

-----------------------------------------------------------------------------
\* The row variables are functions, with values in range.
RowShapes ==
    /\ DOMAIN row = Fps /\ DOMAIN claim = Fps /\ DOMAIN occ = Writers
    /\ wpc \in [Writers -> {"idle", "read", "insert", "done", "raised"}]
    /\ attempt \in [Writers -> 1..MaxAttempts]
    /\ faults \in [Writers -> 0..MaxFaults]

\* A row is an occurrence's that was set, and shows the user's choice.
RowOk(f) ==
    row[f] # NoRow =>
        /\ RowTyped(row[f]) /\ claim[f] \in Claims
        /\ wpc[row[f].alert] = "done"
        /\ row[f].ts = occ[row[f].alert].ts
        /\ Chosen(row[f], claim[f], occ[row[f].alert].status)

\* An occurrence that was set is not newer than the row; one that was given up, or
\* tried again before it saw the row, met a fault.
WriterOk(w) ==
    /\ wpc[w] # "idle" => occ[w] \in Occs
    /\ wpc[w] = "done" => row[occ[w].fp] # NoRow /\ row[occ[w].fp].ts >= occ[w].ts
    /\ wpc[w] = "raised" => faults[w] > 0
    /\ attempt[w] > 1 =>
          faults[w] > 0 \/ (wpc[w] \in {"read", "done"} /\ row[occ[w].fp] # NoRow)

RowInv ==
    /\ RowShapes
    /\ \A f \in Fps : RowOk(f)
    /\ \A w \in Writers : WriterOk(w)

\* A step that leaves a call alone, and one that makes a row no older.
Stays(w) ==
    wpc'[w] = wpc[w] /\ occ'[w] = occ[w] /\ attempt'[w] = attempt[w] /\ faults'[w] = faults[w]
Newer(f) == row[f] # NoRow => row'[f] # NoRow /\ row'[f].ts >= row[f].ts
Settled == \A w \in Writers : wpc[w] = "done" => wpc'[w] = "done" /\ occ'[w] = occ[w]

\* A row nobody touches.
LEMMA KeptRow ==
    ASSUME NEW f \in Fps, RowOk(f), Settled, row'[f] = row[f], claim'[f] = claim[f]
    PROVE  RowOk(f)' /\ Newer(f)
<1>1. CASE row[f] = NoRow
  BY <1>1, Zenon DEF RowOk, Newer
<1>2. CASE row[f] # NoRow
  <2>1. row[f].alert \in Writers /\ row[f].ts \in Nat
    BY <1>2 DEF RowOk, RowTyped, LastAlerts
  <2>2. row[f].ts >= row[f].ts
    BY <2>1
  <2>3. wpc'[row[f].alert] = "done" /\ occ'[row[f].alert] = occ[row[f].alert]
    BY <1>2, <2>1, Zenon DEF RowOk, Settled
  <2>4. Newer(f)
    BY <1>2, <2>2, Zenon DEF Newer
  <2>5. RowOk(f)'
    BY <1>2, <2>3, Zenon DEF RowOk, RowTyped, Chosen, Shown
  <2> QED BY <2>4, <2>5
<1> QED BY <1>1, <1>2

\* A call nobody takes a step of.
LEMMA KeptWriter ==
    ASSUME NEW w \in Writers, WriterOk(w), Stays(w),
           \A f \in Fps : RowOk(f) /\ RowOk(f)' /\ Newer(f)
    PROVE  WriterOk(w)'
<1>1. CASE wpc[w] = "idle"
  <2>1. attempt[w] > 1 => faults[w] > 0
    BY <1>1 DEF WriterOk
  <2> QED BY <1>1, <2>1, Zenon DEF WriterOk, Stays
<1>2. CASE wpc[w] # "idle"
  <2> DEFINE f == occ[w].fp
  <2>1. f \in Fps /\ occ[w].ts \in Nat
    BY <1>2, LastAlertAssumption DEF WriterOk, Occs
  <2>2. row[f] # NoRow => row'[f] # NoRow /\ row'[f].ts >= row[f].ts
                          /\ row[f].ts \in Nat /\ row'[f].ts \in Nat
    <3>1. Newer(f) /\ (row[f] # NoRow => RowTyped(row[f]))
      BY <2>1, Zenon DEF RowOk
    <3>2. row'[f] # NoRow => RowTyped(row'[f])
      <4>1. \A g \in Fps : row'[g] # NoRow => RowTyped(row'[g])
        BY Zenon DEF RowOk, RowTyped
      <4> QED BY <2>1, <4>1, Zenon
    <3> QED BY <3>1, <3>2 DEF RowTyped, LastAlerts, Newer
  <2>3. wpc[w] = "done" => row'[f] # NoRow /\ row'[f].ts >= occ[w].ts
    <3>1. wpc[w] = "done" => row[f] # NoRow /\ row[f].ts >= occ[w].ts
      BY Zenon DEF WriterOk
    <3> HIDE DEF f
    <3> QED BY <2>1, <2>2, <3>1
  <2>4. f = occ'[w].fp /\ occ'[w].ts = occ[w].ts
    BY Zenon DEF Stays
  <2>5. attempt'[w] > 1 =>
          faults'[w] > 0 \/ (wpc'[w] \in {"read", "done"} /\ row'[f] # NoRow)
    BY <2>2, Zenon DEF WriterOk, Stays
  <2> HIDE DEF f
  <2> QED BY <2>3, <2>4, <2>5, Zenon DEF WriterOk, Stays, Occs
<1> QED BY <1>1, <1>2

\* A step of set_last_alert is a step of one call that was not done.
LEMMA WriterFrame ==
    ASSUME RowShapes, NEW w \in Writers, SetLastAlert(w), NEW v \in Writers, v # w
    PROVE  Stays(v)
<1>1. DOMAIN wpc = Writers /\ DOMAIN occ = Writers /\ DOMAIN attempt = Writers /\ DOMAIN faults = Writers
  BY Zenon DEF RowShapes
<1>2. ASSUME Retry(w) PROVE wpc'[v] = wpc[v] /\ attempt'[v] = attempt[v]
  BY <1>1, <1>2, Zenon DEF Retry
<1>3. CASE Begin(w)
  BY <1>1, <1>3, Zenon DEF Begin, Stays
<1>4. CASE Repoint(w)
  BY <1>1, <1>4, Zenon DEF Repoint, Stays
<1>5. CASE SeeNoRow(w)
  BY <1>1, <1>5, Zenon DEF SeeNoRow, Stays
<1>6. CASE Insert(w)
  BY <1>1, <1>6, Zenon DEF Insert, Stays
<1>7. CASE InsertCollides(w)
  BY <1>1, <1>2, <1>7, Zenon DEF InsertCollides, Stays
<1>8. CASE DatabaseFault(w)
  BY <1>1, <1>2, <1>8, Zenon DEF DatabaseFault, Stays
<1> QED BY <1>3, <1>4, <1>5, <1>6, <1>7, <1>8, Zenon DEF SetLastAlert

\* What is done stays done.
LEMMA WriterSettled ==
    ASSUME RowShapes, NEW w \in Writers, SetLastAlert(w)
    PROVE  Settled
<1>1. wpc[w] \in {"idle", "read", "insert"}
  BY DEF SetLastAlert, Begin, Repoint, SeeNoRow, Insert, InsertCollides, DatabaseFault
<1>2. wpc[w] # "done"
  BY <1>1
<1> QED BY <1>2, WriterFrame, Zenon DEF Settled, Stays

\* Retrying, from the first attempt on.
LEMMA RetryIs ==
    ASSUME RowShapes, NEW w \in Writers, Retry(w)
    PROVE  /\ wpc' = [wpc EXCEPT ![w] = wpc'[w]] /\ wpc'[w] \in {"read", "raised"}
           /\ attempt' \in [Writers -> 1..MaxAttempts]
           /\ wpc'[w] = "raised" => attempt[w] > 1 /\ attempt'[w] = attempt[w]
<1>0. /\ wpc \in [Writers -> {"idle", "read", "insert", "done", "raised"}]
      /\ attempt \in [Writers -> 1..MaxAttempts]
      /\ MaxAttempts \in Nat \ {0, 1}
  BY LastAlertAssumption, Zenon DEF RowShapes
<1>1. CASE attempt[w] = MaxAttempts
  <2>1. wpc' = [wpc EXCEPT ![w] = "raised"] /\ attempt' = attempt
    BY <1>1, Zenon DEF Retry
  <2>2. wpc'[w] = "raised"
    BY <1>0, <2>1
  <2>3. attempt[w] > 1
    BY <1>0, <1>1
  <2> QED BY <1>0, <2>1, <2>2, <2>3
<1>2. CASE attempt[w] # MaxAttempts
  <2>1. wpc' = [wpc EXCEPT ![w] = "read"] /\ attempt' = [attempt EXCEPT ![w] = @ + 1]
    BY <1>2, Zenon DEF Retry
  <2>2. wpc'[w] = "read"
    BY <1>0, <2>1
  <2>3. attempt[w] \in 1..MaxAttempts
    BY <1>0
  <2>4. attempt[w] + 1 \in 1..MaxAttempts
    BY <1>0, <1>2, <2>3
  <2>5. attempt' \in [Writers -> 1..MaxAttempts]
    BY <1>0, <2>1, <2>4
  <2> QED BY <2>1, <2>2, <2>5
<1> QED BY <1>1, <1>2

\* The variables stay in range.
LEMMA WriterShapes ==
    ASSUME RowShapes, NEW w \in Writers, SetLastAlert(w)
    PROVE  RowShapes'
<1>0. /\ DOMAIN row = Fps /\ DOMAIN claim = Fps /\ DOMAIN occ = Writers
      /\ wpc \in [Writers -> {"idle", "read", "insert", "done", "raised"}]
      /\ attempt \in [Writers -> 1..MaxAttempts]
      /\ faults \in [Writers -> 0..MaxFaults]
  BY Zenon DEF RowShapes
<1>d. \A g, k, v : DOMAIN [g EXCEPT ![k] = v] = DOMAIN g
  OBVIOUS
<1>w. ASSUME NEW v \in {"read", "insert", "done", "raised"}, wpc' = [wpc EXCEPT ![w] = v]
      PROVE  wpc' \in [Writers -> {"idle", "read", "insert", "done", "raised"}]
  BY <1>0, <1>w
<1>r. ASSUME Retry(w)
      PROVE  /\ wpc' \in [Writers -> {"idle", "read", "insert", "done", "raised"}]
             /\ attempt' \in [Writers -> 1..MaxAttempts]
  <2>1. wpc' = [wpc EXCEPT ![w] = wpc'[w]] /\ wpc'[w] \in {"read", "insert", "done", "raised"}
        /\ attempt' \in [Writers -> 1..MaxAttempts]
    BY <1>r, RetryIs
  <2> QED BY <2>1, <1>w
<1>3. CASE Begin(w)
  <2>1. DOMAIN occ' = Writers
    BY <1>0, <1>3, <1>d, Zenon DEF Begin
  <2> QED BY <1>0, <1>3, <1>w, <2>1, Zenon DEF Begin, RowShapes
<1>4. CASE Repoint(w)
  <2>1. DOMAIN row' = Fps /\ DOMAIN claim' = Fps
    <3>1. \/ (\E x : row' = [row EXCEPT ![occ[w].fp] = x])
             /\ (\E y : claim' = [claim EXCEPT ![occ[w].fp] = y])
          \/ UNCHANGED <<row, claim>>
      BY <1>4, Zenon DEF Repoint
    <3> QED BY <1>0, <1>d, <3>1, Zenon
  <2> QED BY <1>0, <1>4, <1>w, <2>1, Zenon DEF Repoint, RowShapes
<1>5. CASE SeeNoRow(w)
  BY <1>0, <1>5, <1>w, Zenon DEF SeeNoRow, RowShapes
<1>6. CASE Insert(w)
  <2>1. DOMAIN row' = Fps /\ DOMAIN claim' = Fps
    BY <1>0, <1>6, <1>d, Zenon DEF Insert
  <2> QED BY <1>0, <1>6, <1>w, <2>1, Zenon DEF Insert, RowShapes
<1>7. CASE InsertCollides(w)
  BY <1>0, <1>7, <1>r, Zenon DEF InsertCollides, RowShapes
<1>8. CASE DatabaseFault(w)
  <2>1. faults' = [faults EXCEPT ![w] = @ + 1] /\ faults[w] < MaxFaults
    BY <1>8, Zenon DEF DatabaseFault
  <2>2. faults[w] \in 0..MaxFaults /\ MaxFaults \in Nat
    BY <1>0, LastAlertAssumption
  <2>3. faults[w] + 1 \in 0..MaxFaults
    BY <2>1, <2>2
  <2>4. faults' \in [Writers -> 0..MaxFaults]
    BY <1>0, <2>1, <2>3
  <2> QED BY <1>0, <1>8, <1>w, <1>r, <2>4, Zenon DEF DatabaseFault, RowShapes
<1> QED BY <1>3, <1>4, <1>5, <1>6, <1>7, <1>8, Zenon DEF SetLastAlert

\* The row a newer occurrence takes over.
LEMMA RepointRow ==
    ASSUME RowInv, NEW w \in Writers, Repoint(w), row[occ[w].fp].ts < occ[w].ts
    PROVE  RowOk(occ[w].fp)' /\ Newer(occ[w].fp) /\ row'[occ[w].fp].ts = occ[w].ts
           /\ row'[occ[w].fp] # NoRow
           /\ \A f \in Fps : f # occ[w].fp => row'[f] = row[f] /\ claim'[f] = claim[f]
<1> DEFINE o == occ[w]
           la == row[o.fp]
           c == claim[o.fp]
           d == [c EXCEPT !.since = @ \cup {o.status}]
           new == Taken(la, o.ts, w, o.status)
<1>1. wpc[w] = "read" /\ la # NoRow /\ occ' = occ /\ wpc' = [wpc EXCEPT ![w] = "done"]
  BY Zenon DEF Repoint
<1>2. o \in Occs /\ o.fp \in Fps /\ o.ts \in Nat
  <2>1. o \in Occs
    BY <1>1 DEF RowInv, WriterOk
  <2> QED BY <2>1, LastAlertAssumption DEF Occs
<1>3. RowTyped(la) /\ c \in Claims /\ Chosen(la, c, occ[la.alert].status)
  BY <1>1, <1>2, Zenon DEF RowInv, RowOk
<1>4. row' = [row EXCEPT ![o.fp] = new] /\ claim' = [claim EXCEPT ![o.fp] = d]
  <2>1. /\ row' = [row EXCEPT ![o.fp] =
                         apply_dismiss_lifecycle([@ EXCEPT !.ts = o.ts, !.alert = w],
                                                 o.status)]
        /\ claim' = [claim EXCEPT ![o.fp].since = @ \cup {o.status}]
    BY Zenon DEF Repoint
  <2> QED BY <2>1 DEF Taken
<1>5. DOMAIN row = Fps /\ DOMAIN claim = Fps /\ DOMAIN wpc = Writers
  BY Zenon DEF RowInv, RowShapes
<1>6. /\ RowTyped(new) /\ d \in Claims /\ Chosen(new, d, o.status)
      /\ new.ts = o.ts /\ new.alert = w
  BY ZenonT(30), <1>2, <1>3, TakenRow
<1>7. new \in LastAlerts /\ new # NoRow
  BY <1>6, LastAlertAssumption, Zenon DEF RowTyped
<1>8. la.ts \in Nat
  BY <1>3 DEF RowTyped, LastAlerts
<1>9. new.ts >= la.ts
  BY <1>2, <1>6, <1>8
<1> HIDE DEF new, d
<1>10. row'[o.fp] = new /\ claim'[o.fp] = d /\ wpc'[w] = "done"
  BY <1>1, <1>2, <1>4, <1>5, Zenon
<1>11. \A f \in Fps : f # o.fp => row'[f] = row[f] /\ claim'[f] = claim[f]
  BY <1>4, <1>5, Zenon
<1>12. Newer(o.fp)
  BY <1>7, <1>9, <1>10, Zenon DEF Newer
<1>13. RowOk(occ[w].fp)'
  <2>1. occ'[w].fp = o.fp
    BY <1>1
  <2> QED BY <1>1, <1>6, <1>10, <2>1, Zenon DEF RowOk, RowTyped, Chosen, Shown
<1> QED BY <1>6, <1>7, <1>10, <1>11, <1>12, <1>13, Zenon

\* The row a first occurrence creates.
LEMMA InsertRow ==
    ASSUME RowInv, NEW w \in Writers, Insert(w)
    PROVE  RowOk(occ[w].fp)' /\ Newer(occ[w].fp) /\ row'[occ[w].fp].ts = occ[w].ts
           /\ row'[occ[w].fp] # NoRow
           /\ \A f \in Fps : f # occ[w].fp => row'[f] = row[f] /\ claim'[f] = claim[f]
<1> DEFINE f == occ[w].fp
           new == NewLastAlert(w)
           d == Claim(new, TRUE, TRUE)
<1>1. /\ wpc[w] = "insert" /\ row[f] = NoRow /\ occ' = occ /\ wpc' = [wpc EXCEPT ![w] = "done"]
      /\ row' = [row EXCEPT ![f] = new] /\ claim' = [claim EXCEPT ![f] = d]
  BY Zenon DEF Insert
<1>2. occ[w] \in Occs
  BY <1>1 DEF RowInv, WriterOk
<1>3. f \in Fps
  BY <1>2 DEF Occs
<1>4. /\ RowTyped(new) /\ d \in Claims /\ Chosen(new, d, occ[w].status)
      /\ new.ts = occ[w].ts /\ new.alert = w
  BY <1>2, CreatedRow, Zenon
<1>5. new \in LastAlerts /\ new # NoRow
  BY <1>4, LastAlertAssumption, Zenon DEF RowTyped
<1>6. DOMAIN row = Fps /\ DOMAIN claim = Fps /\ DOMAIN wpc = Writers
  BY Zenon DEF RowInv, RowShapes
<1> HIDE DEF new, d
<1>7. row'[f] = new /\ claim'[f] = d /\ wpc'[w] = "done"
  BY <1>1, <1>3, <1>6, Zenon
<1>8. \A g \in Fps : g # f => row'[g] = row[g] /\ claim'[g] = claim[g]
  BY <1>1, <1>6, Zenon
<1>9. Newer(f)
  BY <1>1, Zenon DEF Newer
<1>10. RowOk(occ[w].fp)'
  <2>1. occ'[w].fp = f
    BY <1>1
  <2> QED BY <1>1, <1>4, <1>7, <2>1, Zenon DEF RowOk, RowTyped, Chosen, Shown
<1> QED BY <1>4, <1>5, <1>7, <1>8, <1>9, <1>10, Zenon

\* What a step of set_last_alert leaves of the rows.
LEMMA RowsOfWriter ==
    ASSUME RowInv, NEW w \in Writers, SetLastAlert(w)
    PROVE  \A f \in Fps : RowOk(f)' /\ Newer(f)
<1>1. Settled
  BY WriterSettled DEF RowInv
<1>2. ASSUME UNCHANGED <<row, claim>> PROVE \A f \in Fps : RowOk(f)' /\ Newer(f)
  BY <1>1, <1>2, KeptRow, Zenon DEF RowInv
<1>3. ASSUME NEW g, RowOk(g)', Newer(g),
             \A f \in Fps : f # g => row'[f] = row[f] /\ claim'[f] = claim[f]
      PROVE  \A f \in Fps : RowOk(f)' /\ Newer(f)
  BY <1>1, <1>3, KeptRow, Zenon DEF RowInv
<1>4. CASE Repoint(w) /\ row[occ[w].fp].ts < occ[w].ts
  <2>1. PICK g : g = occ[w].fp
    OBVIOUS
  <2>2. occ'[w].fp = g
    BY <1>4, <2>1, Zenon DEF Repoint
  <2>3. RowOk(g)'
    BY <1>4, <2>2, RepointRow, Zenon DEF RowOk, RowTyped, Chosen, Shown
  <2> QED BY <1>3, <1>4, <2>1, <2>3, RepointRow, Zenon
<1>5. CASE Repoint(w) /\ ~(row[occ[w].fp].ts < occ[w].ts)
  BY <1>2, <1>5, Zenon DEF Repoint
<1>6. CASE Insert(w)
  <2>1. PICK g : g = occ[w].fp
    OBVIOUS
  <2>2. occ'[w].fp = g
    BY <1>6, <2>1, Zenon DEF Insert
  <2>3. RowOk(g)'
    BY <1>6, <2>2, InsertRow, Zenon DEF RowOk, RowTyped, Chosen, Shown
  <2> QED BY <1>3, <1>6, <2>1, <2>3, InsertRow, Zenon
<1>7. CASE Begin(w) \/ SeeNoRow(w) \/ InsertCollides(w) \/ DatabaseFault(w)
  BY <1>2, <1>7, Zenon DEF Begin, SeeNoRow, InsertCollides, DatabaseFault
<1> QED BY <1>4, <1>5, <1>6, <1>7, Zenon DEF SetLastAlert

\* The call that takes the step: it is done when the row is at least as new, raised
\* when it met a fault, and on its second attempt only with a fault or a row to see.
LEMMA OwnWriter ==
    ASSUME RowInv, NEW w \in Writers, SetLastAlert(w)
    PROVE  WriterOk(w)'
<1>0. /\ DOMAIN occ = Writers /\ DOMAIN wpc = Writers
      /\ faults \in [Writers -> 0..MaxFaults] /\ MaxFaults \in Nat
  BY LastAlertAssumption, Zenon DEF RowInv, RowShapes
<1>1. /\ wpc[w] # "idle" => occ[w] \in Occs
      /\ attempt[w] > 1 =>
            faults[w] > 0 \/ (wpc[w] \in {"read", "done"} /\ row[occ[w].fp] # NoRow)
  BY Zenon DEF RowInv, WriterOk
<1>2. CASE Begin(w)
  <2>1. /\ wpc[w] = "idle" /\ wpc' = [wpc EXCEPT ![w] = "read"]
        /\ attempt' = attempt /\ faults' = faults
    BY <1>2, Zenon DEF Begin
  <2>2. PICK o \in Occs : occ' = [occ EXCEPT ![w] = o]
    BY <1>2, Zenon DEF Begin, Occs
  <2>3. wpc'[w] = "read" /\ occ'[w] = o
    BY <1>0, <2>1, <2>2, Zenon
  <2>4. attempt[w] > 1 => faults[w] > 0
    BY <1>1, <2>1
  <2>5. "read" \notin {"done", "raised"}
    OBVIOUS
  <2> QED BY <2>1, <2>3, <2>4, <2>5, Zenon DEF WriterOk, Occs
<1>3. CASE Repoint(w)
  <2> DEFINE f == occ[w].fp
  <2>1. /\ wpc[w] = "read" /\ row[f] # NoRow /\ occ' = occ /\ wpc' = [wpc EXCEPT ![w] = "done"]
        /\ attempt' = attempt /\ faults' = faults
    BY <1>3, Zenon DEF Repoint
  <2>2. wpc'[w] = "done"
    BY <1>0, <2>1
  <2>3. occ[w] \in Occs /\ f \in Fps /\ occ[w].ts \in Nat
    <3>1. occ[w] \in Occs
      BY <1>1, <2>1
    <3> QED BY <3>1, LastAlertAssumption DEF Occs
  <2>4. row'[f] # NoRow /\ row'[f].ts >= occ[w].ts
    <3>1. CASE row[f].ts < occ[w].ts
      <4>1. row'[f] # NoRow /\ row'[f].ts = occ[w].ts
        BY <1>3, <3>1, RepointRow, Zenon
      <4> QED BY <2>3, <4>1
    <3>2. CASE ~(row[f].ts < occ[w].ts)
      <4>1. row' = row
        BY <1>3, <3>2, Zenon DEF Repoint
      <4>2. row[f].ts \in Nat
        BY <2>1, <2>3 DEF RowInv, RowOk, RowTyped, LastAlerts
      <4> QED BY <2>1, <2>3, <3>2, <4>1, <4>2
    <3> QED BY <3>1, <3>2
  <2>5. occ'[w].fp = f /\ occ'[w].ts = occ[w].ts /\ occ'[w] \in Occs
    BY <2>1, <2>3
  <2>6. "done" \notin {"idle", "raised"} /\ "done" \in {"read", "done"}
    OBVIOUS
  <2> HIDE DEF f
  <2> QED BY <2>2, <2>4, <2>5, <2>6, Zenon DEF WriterOk, Occs
<1>4. CASE SeeNoRow(w)
  <2>1. /\ wpc[w] = "read" /\ row[occ[w].fp] = NoRow /\ occ' = occ /\ row' = row
        /\ wpc' = [wpc EXCEPT ![w] = "insert"] /\ attempt' = attempt /\ faults' = faults
    BY <1>4, Zenon DEF SeeNoRow
  <2>2. wpc'[w] = "insert"
    BY <1>0, <2>1
  <2>3. attempt[w] > 1 => faults[w] > 0
    BY <1>1, <2>1
  <2>4. occ[w] \in Occs
    BY <1>1, <2>1
  <2>5. "insert" \notin {"done", "raised"}
    OBVIOUS
  <2> QED BY <2>1, <2>2, <2>3, <2>4, <2>5, Zenon DEF WriterOk, Occs
<1>5. CASE Insert(w)
  <2> DEFINE f == occ[w].fp
  <2>1. /\ wpc[w] = "insert" /\ occ' = occ /\ wpc' = [wpc EXCEPT ![w] = "done"]
        /\ attempt' = attempt /\ faults' = faults
    BY <1>5, Zenon DEF Insert
  <2>2. wpc'[w] = "done"
    BY <1>0, <2>1
  <2>3. occ[w] \in Occs /\ occ[w].ts \in Nat
    <3>1. occ[w] \in Occs
      BY <1>1, <2>1
    <3> QED BY <3>1, LastAlertAssumption DEF Occs
  <2>4. row'[f] # NoRow /\ row'[f].ts = occ[w].ts
    BY <1>5, InsertRow, Zenon
  <2>5. row'[f].ts >= occ[w].ts
    BY <2>3, <2>4
  <2>6. occ'[w].fp = f /\ occ'[w].ts = occ[w].ts
    BY <2>1
  <2>7. "done" \notin {"idle", "raised"} /\ "done" \in {"read", "done"}
    OBVIOUS
  <2> HIDE DEF f
  <2> QED BY <2>1, <2>2, <2>3, <2>4, <2>5, <2>6, <2>7, Zenon DEF WriterOk, Occs
<1>6. CASE InsertCollides(w)
  <2>1. /\ wpc[w] = "insert" /\ row[occ[w].fp] # NoRow /\ occ' = occ /\ row' = row
        /\ faults' = faults /\ Retry(w)
    BY <1>6, Zenon DEF InsertCollides
  <2>2. wpc'[w] \in {"read", "raised"}
        /\ (wpc'[w] = "raised" => attempt[w] > 1 /\ attempt'[w] = attempt[w])
    BY <2>1, RetryIs, Zenon DEF RowInv
  <2>3. attempt[w] > 1 => faults[w] > 0
    BY <1>1, <2>1
  <2>4. occ[w] \in Occs
    BY <1>1, <2>1
  <2>5. wpc'[w] # "done" /\ "read" \in {"read", "done"}
    BY <2>2
  <2> QED BY <2>1, <2>2, <2>3, <2>4, <2>5, Zenon DEF WriterOk, Occs
<1>7. CASE DatabaseFault(w)
  <2>1. /\ wpc[w] \in {"read", "insert"} /\ occ' = occ
        /\ faults' = [faults EXCEPT ![w] = @ + 1]
        /\ Retry(w) \/ wpc' = [wpc EXCEPT ![w] = "raised"]
    BY <1>7, Zenon DEF DatabaseFault
  <2>2. faults'[w] > 0
    BY <1>0, <2>1
  <2>3. wpc'[w] \in {"read", "raised"}
    <3>1. ASSUME Retry(w) PROVE wpc'[w] \in {"read", "raised"}
      BY <3>1, RetryIs, Zenon DEF RowInv
    <3>2. ASSUME wpc' = [wpc EXCEPT ![w] = "raised"] PROVE wpc'[w] \in {"read", "raised"}
      BY <1>0, <3>2
    <3> QED BY <2>1, <3>1, <3>2
  <2>4. occ[w] \in Occs
    BY <1>1, <2>1
  <2>5. wpc'[w] # "done"
    BY <2>3
  <2> QED BY <2>1, <2>2, <2>4, <2>5, Zenon DEF WriterOk, Occs
<1> QED BY <1>2, <1>3, <1>4, <1>5, <1>6, <1>7, Zenon DEF SetLastAlert

\* An occurrence's step keeps the invariant of the rows.
LEMMA WriterRowInv ==
    ASSUME RowInv, NEW w \in Writers, SetLastAlert(w)
    PROVE  RowInv'
<1>1. RowShapes'
  BY WriterShapes DEF RowInv
<1>2. \A f \in Fps : RowOk(f)' /\ Newer(f)
  BY RowsOfWriter
<1>3. ASSUME NEW v \in Writers, v # w PROVE WriterOk(v)'
  <2>1. Stays(v)
    BY <1>3, WriterFrame DEF RowInv
  <2> QED BY <1>2, <2>1, KeptWriter, Zenon DEF RowInv
<1> QED BY <1>1, <1>2, <1>3, OwnWriter, Zenon DEF RowInv

\* A request's write keeps it too.
LEMMA StoreRowInv ==
    ASSUME RowInv, RequestInv, NEW r \in Requests, Store(r)
    PROVE  RowInv'
<1> DEFINE q == req[r]
           p == normalize_enrichments(Prepared(r))
           asked == {"status", "dismiss_mode"} \cap DOMAIN q.enrichments # {}
<1>0. rpc[r] = "store"
  BY Zenon DEF Store
<1>1. Served(q) /\ todo[r] \in Seq(Fps) /\ todo[r] # << >>
  BY <1>0, Zenon DEF RequestInv, Whole, Writing
<1>2. PICK f : f = Head(todo[r])
  OBVIOUS
<1>3. f \in Fps
  BY <1>1, <1>2
<1>4. p = StoredOf(q.enrichments, q.dispose)
  BY Zenon DEF StoredOf, Prepared
<1>5. ~Unknown(_apply_dispose_on_new_alert(q.enrichments, q.dispose)) /\ UNCHANGED writerVars
  BY Zenon DEF Store
<1> DEFINE la == _apply_enrichments_to_last_alert(row[f], p, q.force)
           d == Claim(la, ~q.dispose, asked)
<1>6. IF row[f] = NoRow
      THEN UNCHANGED <<row, claim>>
      ELSE /\ row' = [row EXCEPT ![f] = la]
           /\ claim' = IF Chooses(p) THEN [claim EXCEPT ![f] = d] ELSE claim
  BY <1>2, Zenon DEF Store
<1>7. UNCHANGED <<wpc, occ, attempt, faults>>
  BY <1>5, Zenon DEF writerVars
<1>8. Settled /\ \A w : Stays(w)
  BY <1>7, Zenon DEF Settled, Stays
<1>9. DOMAIN row = Fps /\ DOMAIN claim = Fps
  BY Zenon DEF RowInv, RowShapes
<1>10. ASSUME NEW g \in Fps, row'[g] = row[g], claim'[g] = claim[g] PROVE RowOk(g)' /\ Newer(g)
  BY <1>8, <1>10, KeptRow, Zenon DEF RowInv
<1>11. ASSUME row[f] # NoRow PROVE RowOk(f)' /\ Newer(f)
  <2>1. RowTyped(row[f]) /\ claim[f] \in Claims /\ wpc[row[f].alert] = "done"
        /\ row[f].ts = occ[row[f].alert].ts
        /\ Chosen(row[f], claim[f], occ[row[f].alert].status)
    BY <1>3, <1>11, Zenon DEF RowInv, RowOk
  <2> HIDE DEF p
  <2>2. /\ RowTyped(la) /\ la.ts = row[f].ts /\ la.alert = row[f].alert
        /\ Chooses(p) => d \in Claims /\ Chosen(la, d, occ[row[f].alert].status)
        /\ ~Chooses(p) => Chosen(la, claim[f], occ[row[f].alert].status)
    <3> DEFINE s == StoredOf(q.enrichments, q.dispose)
               lb == _apply_enrichments_to_last_alert(row[f], s, q.force)
               db == Claim(lb, ~q.dispose, asked)
    <3>1. /\ RowTyped(lb) /\ lb.ts = row[f].ts /\ lb.alert = row[f].alert
          /\ Chooses(s) => db \in Claims /\ Chosen(lb, db, occ[row[f].alert].status)
          /\ ~Chooses(s) => Chosen(lb, claim[f], occ[row[f].alert].status)
      BY <1>1, <1>5, <2>1, StoredRow
    <3>2. p = s
      BY <1>4
    <3> HIDE DEF s, q, asked
    <3>3. la = lb /\ d = db
      BY <3>2
    <3> HIDE DEF la, lb, d, db
    <3> QED BY <3>1, <3>2, <3>3
  <2> HIDE DEF la, d
  <2>3. row'[f] = la /\ claim'[f] = IF Chooses(p) THEN d ELSE claim[f]
    BY <1>3, <1>6, <1>9, <1>11, Zenon
  <2>4. la \in LastAlerts /\ la # NoRow
    BY <2>2, LastAlertAssumption, Zenon DEF RowTyped
  <2>5. la.ts \in Nat /\ row[f].ts \in Nat
    BY <2>2, <2>4 DEF LastAlerts
  <2>6. la.ts >= row[f].ts
    BY <2>2, <2>5
  <2>7. Newer(f)
    BY <2>3, <2>4, <2>6, Zenon DEF Newer
  <2>8. claim'[f] \in Claims /\ Chosen(la, claim'[f], occ[row[f].alert].status)
    BY <2>1, <2>2, <2>3, Zenon
  <2>9. RowOk(f)'
    BY <1>7, <2>1, <2>2, <2>3, <2>8, Zenon DEF RowOk, RowTyped, Chosen, Shown
  <2> QED BY <2>7, <2>9
<1>12. ASSUME NEW g \in Fps PROVE RowOk(g)' /\ Newer(g)
  <2>1. CASE row[f] = NoRow
    BY <1>6, <1>10, <2>1, Zenon
  <2>2. CASE row[f] # NoRow /\ g = f
    BY <1>11, <2>2, Zenon DEF RowOk, RowTyped, Chosen, Shown, Newer
  <2>3. CASE row[f] # NoRow /\ g # f
    <3>1. row'[g] = row[g] /\ claim'[g] = claim[g]
      BY <1>6, <1>9, <2>3, Zenon
    <3> QED BY <1>10, <3>1
  <2> QED BY <2>1, <2>2, <2>3
<1>13. \A w \in Writers : WriterOk(w)'
  BY <1>8, <1>12, KeptWriter, Zenon DEF RowInv
<1>14. RowShapes'
  <2>1. DOMAIN row' = Fps /\ DOMAIN claim' = Fps
    <3>1. \/ UNCHANGED <<row, claim>>
          \/ row' = [row EXCEPT ![f] = la] /\ claim' = [claim EXCEPT ![f] = d]
          \/ row' = [row EXCEPT ![f] = la] /\ claim' = claim
      BY <1>6, Zenon
    <3> HIDE DEF la, d
    <3> QED BY <1>9, <3>1
  <2> QED BY <1>7, <2>1, Zenon DEF RowInv, RowShapes
<1> QED BY <1>12, <1>13, <1>14, Zenon DEF RowInv

\* It holds at first: the rows that were there were resolved before.
LEMMA RowInit == Init => RowInv
<1> SUFFICES ASSUME Init PROVE RowInv
  OBVIOUS
<1>1. PICK old \in [Fps -> Writers \cup {NoRow}] :
          /\ \A f, g \in Fps : f # g /\ old[f] # NoRow => old[f] # old[g]
          /\ row = [f \in Fps |-> IF old[f] = NoRow THEN NoRow ELSE ResolvedBefore(old[f])]
          /\ wpc = [w \in Writers |-> IF w \in Range(old) THEN "done" ELSE "idle"]
          /\ occ = [w \in Writers |->
                       IF w \in Range(old)
                       THEN [fp |-> CHOOSE f \in Fps : old[f] = w, ts |-> 1, status |-> "resolved"]
                       ELSE NoRow]
          /\ claim = [f \in Fps |->
                         IF old[f] = NoRow THEN NoRow
                         ELSE [shown |-> [status |-> "resolved", mode |-> Null, until |-> Null],
                               keep |-> TRUE, explicit |-> TRUE, since |-> {"resolved"}]]
  BY Zenon DEF Init
<1>2. attempt = [w \in Writers |-> 1] /\ faults = [w \in Writers |-> 0]
  BY Zenon DEF Init
<1> DEFINE before(f) == [fp |-> f, ts |-> 1, status |-> "resolved"]
           chosen == [shown |-> [status |-> "resolved", mode |-> Null, until |-> Null],
                      keep |-> TRUE, explicit |-> TRUE, since |-> {"resolved"}]
<1>3. 1 \in 1..MaxTs /\ 0 \in 0..MaxTs /\ 0 <= 1 /\ 1 \in 1..MaxAttempts /\ 0 \in 0..MaxFaults /\ 1 >= 1
      /\ ~(1 > 1) /\ 0 \in Nat /\ 1 \in Nat
  BY LastAlertAssumption
<1>4. RowShapes
  <2>1. DOMAIN row = Fps /\ DOMAIN claim = Fps /\ DOMAIN occ = Writers
    BY <1>1, Zenon
  <2>2. wpc \in [Writers -> {"idle", "read", "insert", "done", "raised"}]
    BY <1>1
  <2>3. attempt \in [Writers -> 1..MaxAttempts] /\ faults \in [Writers -> 0..MaxFaults]
    BY <1>2, <1>3
  <2> QED BY <2>1, <2>2, <2>3, Zenon DEF RowShapes
<1>5. ASSUME NEW w \in Range(old), w \in Writers
      PROVE  \E f \in Fps : old[f] = w /\ occ[w] = before(f) /\ wpc[w] = "done"
  <2>1. \E f \in Fps : old[f] = w
    BY <1>5 DEF Range
  <2>2. (CHOOSE f \in Fps : old[f] = w) \in Fps /\ old[CHOOSE f \in Fps : old[f] = w] = w
    BY <2>1, Zenon
  <2> QED BY <1>1, <1>5, <2>2, Zenon
<1>6. ASSUME NEW w \in Writers, NEW f \in Fps PROVE ResolvedBefore(w) \in LastAlerts
  <2>1. "resolved" \in AlertStatus /\ Null \in DismissMode /\ Null \in Until
    BY DEF AlertStatus, Statuses, DismissMode, Until
  <2>2. TRUE \in BOOLEAN /\ FALSE \in BOOLEAN /\ Null \in {Null, Blank, "note"}
    OBVIOUS
  <2> QED BY <1>3, <2>1, <2>2, Zenon DEF ResolvedBefore, LastAlerts
<1>7. \A w : /\ ResolvedBefore(w).ts = 1 /\ ResolvedBefore(w).first = 0 /\ ResolvedBefore(w).alert = w
             /\ ResolvedBefore(w).status_disposable
             /\ Shown(ResolvedBefore(w)) = OwnStatus("resolved")
  BY Zenon DEF ResolvedBefore, Shown, OwnStatus
<1>8. chosen \in Claims
  <2>1. {"resolved"} \in SUBSET Statuses
    BY DEF Statuses
  <2>2. "resolved" \in AlertStatus /\ Null \in DismissMode /\ Null \in Until
    BY DEF AlertStatus, Statuses, DismissMode, Until
  <2> QED BY <2>1, <2>2, Zenon DEF Claims
<1>9. Spent(chosen)
  BY DEF Spent
<1>13. \A f \in Fps : before(f).fp = f /\ before(f).ts = 1 /\ before(f).status = "resolved"
  OBVIOUS
<1>14. \A f \in Fps : before(f) \in Occs
  <2>1. "resolved" \in Statuses
    BY DEF Statuses
  <2> QED BY <1>3, <2>1, Zenon DEF Occs
<1> HIDE DEF chosen, before
<1>10. ASSUME NEW f \in Fps, row[f] # NoRow
       PROVE  /\ old[f] \in Writers /\ old[f] \in Range(old)
              /\ row[f] = ResolvedBefore(old[f]) /\ claim[f] = chosen
  <2>1. row[f] = IF old[f] = NoRow THEN NoRow ELSE ResolvedBefore(old[f])
    BY <1>1, Zenon
  <2>2. old[f] # NoRow
    BY <1>10, <2>1, Zenon
  <2>3. old[f] \in Range(old)
    BY DEF Range
  <2>4. claim[f] = chosen
    BY <1>1, <2>2, Zenon DEF chosen
  <2> QED BY <2>1, <2>2, <2>3, <2>4
<1>11. ASSUME NEW f \in Fps PROVE RowOk(f)
  <2> SUFFICES ASSUME row[f] # NoRow
               PROVE  /\ RowTyped(row[f]) /\ claim[f] \in Claims
                      /\ wpc[row[f].alert] = "done"
                      /\ row[f].ts = occ[row[f].alert].ts
                      /\ Chosen(row[f], claim[f], occ[row[f].alert].status)
    BY Zenon DEF RowOk
  <2> DEFINE w == old[f]
  <2>1. w \in Writers /\ w \in Range(old) /\ row[f] = ResolvedBefore(w) /\ claim[f] = chosen
    BY <1>10
  <2>2. PICK g \in Fps : occ[w] = before(g) /\ wpc[w] = "done"
    BY <1>5, <2>1, Zenon
  <2>3. occ[w].ts = 1 /\ occ[w].status = "resolved"
    BY <1>13, <2>2, Zenon
  <2> HIDE DEF w
  <2>4. RowTyped(row[f])
    BY <1>3, <1>6, <1>7, <2>1, Zenon DEF RowTyped
  <2>5. row[f].alert = w /\ row[f].ts = 1
    BY <1>7, <2>1, Zenon
  <2>6. Chosen(row[f], claim[f], occ[w].status)
    BY <1>7, <1>9, <2>1, <2>3, Zenon DEF Chosen
  <2> QED BY <1>8, <2>1, <2>2, <2>3, <2>4, <2>5, <2>6, Zenon
<1>12. ASSUME NEW w \in Writers PROVE WriterOk(w)
  <2>1. ~(attempt[w] > 1)
    BY <1>2
  <2>2. CASE w \notin Range(old)
    <3>1. wpc[w] = "idle"
      BY <1>1, <2>2, Zenon
    <3> QED BY <2>1, <3>1 DEF WriterOk
  <2>3. CASE w \in Range(old)
    <3>1. PICK f \in Fps : old[f] = w /\ occ[w] = before(f) /\ wpc[w] = "done"
      BY <1>5, <2>3, Zenon
    <3>2. w # NoRow
      BY LastAlertAssumption
    <3>3. row[f] = ResolvedBefore(w)
      BY <1>1, <3>1, <3>2, Zenon
    <3>4. row[f] # NoRow
      BY <1>6, <3>3, LastAlertAssumption, Zenon
    <3>5. occ[w].fp = f /\ occ[w].ts = 1
      BY <1>13, <3>1, Zenon
    <3>6. row[f].ts = 1
      BY <1>7, <3>3, Zenon
    <3>7. occ[w] \in Occs
      BY <1>14, <3>1, Zenon
    <3>8. row[f].ts >= occ[w].ts
      BY <1>3, <3>5, <3>6
    <3>9. "done" # "raised"
      OBVIOUS
    <3> QED BY <2>1, <3>1, <3>4, <3>5, <3>7, <3>8, <3>9, Zenon DEF WriterOk
  <2> QED BY <2>2, <2>3
<1> QED BY <1>4, <1>11, <1>12, Zenon DEF RowInv

\* The invariant of the module, and every step's keeping of it.
Inv == RequestInv /\ RowInv

\* The invariant holds at first.
LEMMA InvInit == Init => Inv
BY RequestInit, RowInit DEF Inv

\* Every step keeps it: the requests need nothing of the rows, the rows need
\* what the requests that write them were served with.
LEMMA InvStep == Inv /\ [Next]_vars => Inv'
<1> SUFFICES ASSUME Inv, [Next]_vars PROVE Inv'
  OBVIOUS
<1>1. RequestInv'
  BY RequestStep, Zenon DEF Inv
<1>2. ASSUME UNCHANGED <<row, wpc, occ, attempt, faults, claim>> PROVE RowInv'
  <2>1. RowShapes'
    BY <1>2, Zenon DEF Inv, RowInv, RowShapes
  <2>2. ASSUME NEW f \in Fps PROVE RowOk(f)'
    BY <1>2, Zenon DEF Inv, RowInv, RowOk, RowTyped, Chosen, Shown
  <2>3. ASSUME NEW w \in Writers PROVE WriterOk(w)'
    BY <1>2, Zenon DEF Inv, RowInv, WriterOk, Occs
  <2> QED BY <2>1, <2>2, <2>3, Zenon DEF RowInv
<1>3. ASSUME UNCHANGED vars PROVE RowInv'
  <2>1. UNCHANGED <<row, wpc, occ, attempt, faults, claim>>
    BY <1>3 DEF vars
  <2> QED BY <1>2, <2>1
<1>4. ASSUME NEW w \in Writers, SetLastAlert(w) PROVE RowInv'
  BY <1>4, WriterRowInv DEF Inv
<1>5. ASSUME NEW r \in Requests, Serve(r) PROVE RowInv'
  <2>1. CASE Store(r)
    BY <2>1, StoreRowInv DEF Inv
  <2>2. CASE ~Store(r)
    <3>1. UNCHANGED <<row, wpc, occ, attempt, faults, claim>>
      BY <1>5, <2>2, ServeKinds, Zenon DEF Opens, Declines, RejectUnknown, StoreFails, Publish,
         PublishRaises, writerVars
    <3> QED BY <1>2, <3>1
  <2> QED BY <2>1, <2>2
<1>6. RowInv'
  BY <1>3, <1>4, <1>5 DEF Next
<1> QED BY <1>1, <1>6 DEF Inv

\* So it always holds.
LEMMA InvAlways == Spec => []Inv
BY InvInit, InvStep, PTL DEF Spec

\* The rows, the occurrences and the requests keep their types, whatever the payloads.
THEOREM TypeCorrect == Spec => []TypeOK
<1>1. Inv => TypeOK
  BY Zenon DEF Inv, RequestInv, RequestShapes, RowInv, RowShapes, RowOk, RowTyped, TypeOK
<1> QED BY <1>1, InvAlways, PTL

\* However many occurrences race and retry, the row ends with one that none of the
\* others is newer than, and none is given up without a fault (OccurrencesSettle).
THEOREM OccurrencesTheorem == Spec => []OccurrencesSettle
<1>1. Inv => OccurrencesSettle
  <2> SUFFICES ASSUME Inv PROVE OccurrencesSettle
    OBVIOUS
  <2>1. ASSUME NEW f \in Fps, row[f] # NoRow
        PROVE  /\ wpc[row[f].alert] = "done"
               /\ row[f].ts = occ[row[f].alert].ts
               /\ row[f].first <= row[f].ts
    BY <2>1, Zenon DEF Inv, RowInv, RowOk, RowTyped
  <2>2. NewestOccurrenceWins
    BY <2>1, Zenon DEF Inv, RowInv, WriterOk, NewestOccurrenceWins
  <2>3. CreationRaceSettles
    BY Zenon DEF Inv, RowInv, WriterOk, CreationRaceSettles
  <2> QED BY <2>2, <2>3 DEF OccurrencesSettle
<1> QED BY <1>1, InvAlways, PTL

\* What a user asked for by name is shown until an occurrence that may end it, and
\* nothing of it is left afterwards, whatever else is written (ChoiceLasts).
THEOREM ChoiceTheorem == Spec => []ChoiceLasts
<1>1. Inv => ChoiceLasts
  <2> SUFFICES ASSUME Inv PROVE ChoiceLasts
    OBVIOUS
  <2>1. ASSUME NEW f \in Fps, row[f] # NoRow
        PROVE  Chosen(row[f], claim[f], occ[row[f].alert].status)
    BY <2>1, Zenon DEF Inv, RowInv, RowOk
  <2>2. \A f \in Fps : Ended(f) <=> Spent(claim[f])
    BY Zenon DEF Ended, Spent
  <2>3. UserChoiceStands
    BY <2>1, <2>2, Zenon DEF UserChoiceStands, Chosen
  <2>4. EndedChoiceLeavesNothing
    BY <2>1, <2>2, Zenon DEF EndedChoiceLeavesNothing, Chosen, OwnStatus
  <2> QED BY <2>3, <2>4 DEF ChoiceLasts
<1> QED BY <1>1, InvAlways, PTL
=============================================================================
