---------------------------- MODULE MCRedisJourney ----------------------------
(* Small instances of RedisJourney: a host with up to MaxAddr addresses.   *)
EXTENDS RedisRules

CONSTANT MaxAddr

MCAddr == 1..MaxAddr
=============================================================================
