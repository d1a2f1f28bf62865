----------------------------- MODULE MCFleetRun -----------------------------
(* Small instances of FleetRun: three targets, two workers, one target     *)
(* without a credential reference.                                         *)
EXTENDS FleetRun, TLC

CONSTANTS w1, w2

MCWorkers == {w1, w2}
MCWithReference == {1, 2}
MCFirstOnly == {1}
MCCallerEndings == {"canceled", "deadline"}
WorkerSymmetry == Permutations(MCWorkers)
=============================================================================
