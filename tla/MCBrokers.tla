------------------------------ MODULE MCBrokers ------------------------------
(* Small instances of two journeys, each with the other at rest.            *)
(*                                                                          *)
(* RabbitMQ: a host with up to MaxAddr addresses.                           *)
(*                                                                          *)
(* Kubernetes: two pages of up to two objects for each list, so that the    *)
(* page, object and endpoint ceilings are all met; a Pod that two slices    *)
(* publish with different readiness, a slice nobody owns and one of another *)
(* generation of the Service.                                               *)
EXTENDS RabbitMQRules, Kubernetes

CONSTANT MaxAddr

MCAddr == 1..MaxAddr

Endpoint(key, ready) == [key |-> key, ready |-> ready]

MCSlices ==
    { [name |-> 1, owner |-> "mine", endpoints |-> <<Endpoint(1, FALSE), Endpoint(2, FALSE)>>],
      [name |-> 2, owner |-> "mine", endpoints |-> <<Endpoint(1, TRUE)>>],
      [name |-> 3, owner |-> "none", endpoints |-> <<>>],
      [name |-> 4, owner |-> "other", endpoints |-> <<Endpoint(3, TRUE)>>] }

RabbitAtRest ==
    /\ RabbitInit
    /\ params = CHOOSE p \in Params : ~p.collides /\ p.parentKnown
    /\ ctx = "live" /\ credential = "none" /\ plain = {}

K8sAtRest ==
    /\ K8sIdle /\ kstage = "rest"
    /\ kdecl = [inCluster |-> TRUE, supplied |-> FALSE]
    /\ kfile \in ContextsOf(kdecl)

JourneysInit == (RabbitInit /\ K8sAtRest) \/ (RabbitAtRest /\ K8sInit)

JourneysNext ==
    \/ kstage = "rest" /\ RabbitNext /\ UNCHANGED k8sVars
    \/ kstage # "rest" /\ K8sNext /\ UNCHANGED rabbitRunVars

JourneysSpec == JourneysInit /\ [][JourneysNext]_<<rabbitRunVars, k8sVars>>
=============================================================================
