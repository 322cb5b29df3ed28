--------------------------- MODULE MCKafkaProducer ---------------------------
(* Model-checking instance of KafkaProducer. *)
EXTENDS KafkaProducer

=============================================================================
