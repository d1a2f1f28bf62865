--------------------------- MODULE MCKafkaJourney ---------------------------
(* Small instances of KafkaJourney: up to MaxAddr addresses per host, and  *)
(* Metadata responses of up to two brokers, each kind at most once.        *)
EXTENDS KafkaRules

CONSTANT MaxAddr

MCAddr == 1..MaxAddr

MCResponses ==
    {<<>>} \cup {<<b>> : b \in Kinds}
           \cup {<<p[1], p[2]>> : p \in {q \in Kinds \X Kinds : q[1] # q[2]}}
=============================================================================
