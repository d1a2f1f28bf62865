-------------------------- MODULE MCExchangeDeadline --------------------------
(* Small instances of ExchangeDeadline: a few exchanges on one connection, *)
(* with the waiting release and with Kafka's.                              *)
EXTENDS ExchangeDeadline
=============================================================================
