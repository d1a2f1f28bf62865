------------------------------ MODULE MCProcess ------------------------------
(* Small instances of Process: two targets, one with a credential          *)
(* reference, and up to three signals.                                     *)
EXTENDS Process, TLC

CONSTANTS w1, w2

MCWorkers == {w1, w2}
MCOneWorker == {w1}
MCWithReference == {1}
MCCallerEndings == {"canceled"}
WorkerSymmetry == Permutations(MCWorkers)
=============================================================================
