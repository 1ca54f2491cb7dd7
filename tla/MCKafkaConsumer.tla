---------------------------- MODULE MCKafkaConsumer ----------------------------
(* KafkaConsumer with two executors. *)
EXTENDS KafkaConsumer

CONSTANTS e1, e2
===============================================================================
