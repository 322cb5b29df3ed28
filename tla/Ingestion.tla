------------------------------ MODULE Ingestion ------------------------------
(***************************************************************************)
(* What alert ingestion promises to a sender, whatever the brokers do: one *)
(* answer; "accepted" only with the event written, to the topic that is    *)
(* consumed or, where the operator chose to count that, to the dead-letter *)
(* topic; and a bound on the copies.  An event that is not accepted may    *)
(* still have been written, or be written later.  Its sender is told to    *)
(* send it again, except that a route without an answer of its own for an  *)
(* outage gives only an error, and then nothing it waited for was written. *)
(* KafkaProducer implements this.                                          *)
(***************************************************************************)
EXTENDS Integers

CONSTANTS Senders,
          MaxCopies   \* copies of one event in the main topic, at most

VARIABLES
    accept,    \* the dead-letter topic counts as stored
    told,      \* senders whose route answers an outage with "send it again"
    answer,    \* "none", "accepted", "retry" or "error"
    main,      \* copies in the topic that is consumed
    dlq,       \* copies in the dead-letter topic
    lateMain,  \* writes under way to either that nobody waits for any more
    lateDlq

vars == <<accept, told, answer, main, dlq, lateMain, lateDlq>>

Init ==
    /\ accept \in BOOLEAN /\ told \subseteq Senders
    /\ answer = [s \in Senders |-> "none"]
    /\ main = [s \in Senders |-> 0] /\ dlq = [s \in Senders |-> 0]
    /\ lateMain = [s \in Senders |-> 0] /\ lateDlq = [s \in Senders |-> 0]

Plus(f, s, n) == [f EXCEPT ![s] = @ + n]
Room(s) == main[s] + lateMain[s] < MaxCopies
NoDlqCopy(s) == dlq[s] + lateDlq[s] = 0

\* A write to the main topic is given up unanswered.
GiveUp(s) ==
    /\ answer[s] = "none" /\ Room(s)
    /\ lateMain' = Plus(lateMain, s, 1)
    /\ UNCHANGED <<accept, told, answer, main, dlq, lateDlq>>

\* The sender is told the event was accepted when a copy has just been written.
Accept(s) ==
    /\ answer[s] = "none"
    /\ answer' = [answer EXCEPT ![s] = "accepted"]
    /\ \/ Room(s) /\ main' = Plus(main, s, 1) /\ UNCHANGED dlq
       \/ accept /\ NoDlqCopy(s) /\ dlq' = Plus(dlq, s, 1) /\ UNCHANGED main
    /\ UNCHANGED <<accept, told, lateMain, lateDlq>>

\* It is told to send the event again; a copy may be kept in the dead-letter topic.
Refuse(s) ==
    /\ answer[s] = "none"
    /\ answer' = [answer EXCEPT ![s] = "retry"]
    /\ \/ s \in told /\ UNCHANGED <<dlq, lateDlq>>
       \/ s \in told /\ NoDlqCopy(s) /\ lateDlq' = Plus(lateDlq, s, 1) /\ UNCHANGED dlq
       \/ ~accept /\ NoDlqCopy(s) /\ dlq' = Plus(dlq, s, 1) /\ UNCHANGED lateDlq
    /\ UNCHANGED <<accept, told, main, lateMain>>

\* It is given an error that does not say so: no copy is known to be written.
Fail(s) ==
    /\ answer[s] = "none" /\ s \notin told
    /\ answer' = [answer EXCEPT ![s] = "error"]
    /\ \/ UNCHANGED lateDlq
       \/ NoDlqCopy(s) /\ lateDlq' = Plus(lateDlq, s, 1)
    /\ UNCHANGED <<accept, told, main, lateMain, dlq>>

\* A write that nobody waits for any more lands.
Land(s) ==
    /\ \/ /\ lateMain[s] > 0
          /\ main' = Plus(main, s, 1) /\ lateMain' = Plus(lateMain, s, -1)
          /\ UNCHANGED <<dlq, lateDlq>>
       \/ /\ lateDlq[s] > 0
          /\ dlq' = Plus(dlq, s, 1) /\ lateDlq' = Plus(lateDlq, s, -1)
          /\ UNCHANGED <<main, lateMain>>
    /\ UNCHANGED <<accept, told, answer>>

Next == \E s \in Senders : GiveUp(s) \/ Accept(s) \/ Refuse(s) \/ Fail(s) \/ Land(s)

Spec == Init /\ [][Next]_vars
=============================================================================
