----------------------------- MODULE MCKafkaLost -----------------------------
(* Instance of KafkaProducer for the answer to an event that reached no topic. *)
EXTENDS KafkaProducer

=============================================================================
