-------------------------- MODULE MCPostgresJourney --------------------------
(* Small instances of PostgresJourney: a host with up to MaxAddr addresses. *)
EXTENDS PostgresRules

CONSTANT MaxAddr

MCAddr == 1..MaxAddr
=============================================================================
