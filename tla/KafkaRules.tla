----------------------------- MODULE KafkaRules -----------------------------
(***************************************************************************)
(* The diagnosis of a Kafka run: the rules DiagnoseKafka registers, over   *)
(* the graph the journey leaves behind. A run that obtained Metadata is    *)
(* read from that exchange on: the bootstrap nodes before it are let go.   *)
(***************************************************************************)
EXTENDS KafkaJourney, TransportRules

Endpoint(b) == <<"endpoint", b>>

\* The bootstrap part of the graph, and the exchange that described the cluster.
versionsEv(a)  == Ev(4, 1, "kafka.api_versions", Address(a), apiVersions[a])
handshakeOf(a) == Ev(5, 1, "kafka.sasl_handshake", Address(a), handshake[a])
authEv         == Ev(5, 2, "kafka.sasl_authenticate", Address(at), auth)
metadataEv     == Ev(6, 1, "kafka.metadata", Address(at), metadata)

\* One advertisement, and the sweep beneath it.
advertisedEv(b) ==
    Ev(6, 2, "kafka.broker_advertised", Endpoint(b),
       IF b = "unusable" THEN Node("FAIL", "UNEXPECTED") ELSE Node("PASS", "NONE"))
rootEv(b)       == Ev(1, 1, "dns.lookup", <<"host", b>>, swept[b].dns)
pathEv(b, a)    == Ev(2, 1, "tcp.connect", <<"path", b, a>>, swept[b].tcp[a])
terminalEv(b, a) == Ev(3, 1, "tls.handshake", <<"path", b, a>>, swept[b].tls[a])

SweptEvidence(b) ==
    RecordedIn({rootEv(b)} \cup {pathEv(b, a) : a \in Addr} \cup {terminalEv(b, a) : a \in Addr})

KafkaEvidence ==
    IF metadata.state = "PASS"
    THEN {metadataEv} \cup UNION {{advertisedEv(b)} \cup SweptEvidence(b) : b \in advertised}
    ELSE SweepEvidence \cup RecordedIn({versionsEv(a) : a \in Addr}
            \cup {handshakeOf(a) : a \in Addr} \cup {authEv, metadataEv})

-----------------------------------------------------------------------------
(* Protocol: one claim per outcome of a step it owns.                      *)

\* What the adapter's classify gives a failed node of each step.
answerFailures == {"UNSUPPORTED_VERSION", "UNEXPECTED", "MALFORMED", "PEER_CLOSED"}
stepFailures ==
    [v \in {"kafka.api_versions", "kafka.sasl_handshake", "kafka.sasl_authenticate",
            "kafka.metadata"} |->
       CASE v = "kafka.api_versions"      -> answerFailures
         [] v = "kafka.sasl_handshake"    -> answerFailures \cup {"MECHANISM_NOT_OFFERED"}
         [] v = "kafka.sasl_authenticate" -> answerFailures \cup
                {"MECHANISM_NOT_OFFERED", "REJECTED", "PEER_VERIFICATION"}
         [] v = "kafka.metadata"          -> answerFailures \ {"UNSUPPORTED_VERSION"}]

\* protocolClaims, of failed nodes.
failClaims ==
    [v \in DOMAIN stepFailures |->
       CASE v = "kafka.api_versions" ->
              [UNSUPPORTED_VERSION |-> "KAFKA_API_VERSIONS_VERSION_REJECTED",
               UNEXPECTED          |-> "KAFKA_API_VERSIONS_NOT_COMPLETED",
               MALFORMED           |-> "KAFKA_API_VERSIONS_NOT_COMPLETED",
               PEER_CLOSED         |-> "KAFKA_API_VERSIONS_NOT_COMPLETED"]
         [] v = "kafka.sasl_handshake" ->
              [MECHANISM_NOT_OFFERED |-> "KAFKA_AUTH_MECHANISM_NOT_OFFERED",
               UNSUPPORTED_VERSION   |-> "KAFKA_SASL_HANDSHAKE_NOT_COMPLETED",
               UNEXPECTED            |-> "KAFKA_SASL_HANDSHAKE_NOT_COMPLETED",
               MALFORMED             |-> "KAFKA_SASL_HANDSHAKE_NOT_COMPLETED",
               PEER_CLOSED           |-> "KAFKA_SASL_HANDSHAKE_NOT_COMPLETED"]
         [] v = "kafka.sasl_authenticate" ->
              [REJECTED              |-> "KAFKA_CREDENTIALS_REJECTED",
               PEER_VERIFICATION     |-> "KAFKA_PEER_VERIFICATION_FAILED",
               MECHANISM_NOT_OFFERED |-> "KAFKA_AUTH_MECHANISM_NOT_OFFERED",
               UNSUPPORTED_VERSION   |-> "KAFKA_AUTHENTICATION_NOT_COMPLETED",
               UNEXPECTED            |-> "KAFKA_AUTHENTICATION_NOT_COMPLETED",
               MALFORMED             |-> "KAFKA_AUTHENTICATION_NOT_COMPLETED",
               PEER_CLOSED           |-> "KAFKA_AUTHENTICATION_NOT_COMPLETED"]
         [] v = "kafka.metadata" ->
              [UNEXPECTED  |-> "KAFKA_METADATA_NOT_COMPLETED",
               MALFORMED   |-> "KAFKA_METADATA_NOT_COMPLETED",
               PEER_CLOSED |-> "KAFKA_METADATA_NOT_COMPLETED"]]

\* protocolClaims, of authentications that were not performed.
notPerformedClaims ==
    [UNSUPPORTED           |-> <<"KAFKA_AUTHENTICATION_UNSUPPORTED_BY_SVCDOCTOR", "INFO">>,
     MECHANISM_UNSUPPORTED |-> <<"KAFKA_AUTHENTICATION_UNSUPPORTED_BY_SVCDOCTOR", "INFO">>,
     POLICY                |-> <<"KAFKA_CREDENTIAL_WITHHELD", "WARN">>,
     INPUT_MISSING         |-> <<"KAFKA_CREDENTIAL_NOT_CONFIGURED", "WARN">>]

\* evaluateProtocol. A withheld credential also cites the handshake that
\* classified the channel.
evaluateProtocol(e) ==
    CASE e.state = "FAIL" /\ stepFailures[e.step] \subseteq DOMAIN failClaims[e.step] ->
           {Finding(e.step, "ERROR", e.layer, e.subject, {e})}
      [] e.step = "kafka.sasl_authenticate" /\ e.class \in DOMAIN notPerformedClaims ->
           {Finding(notPerformedClaims[e.class][1], notPerformedClaims[e.class][2], e.layer,
                    e.subject, {e} \cup (IF e.class = "POLICY" THEN RecordedIn({handshakeEv(at)})
                                         ELSE {}))}
      [] OTHER -> {}

Protocol ==
    UNION {evaluateProtocol(e) : e \in {n \in KafkaEvidence : n.step \in DOMAIN stepFailures}}

-----------------------------------------------------------------------------
(* The advertised endpoints, one at a time.                                *)

\* collectSweep: the lookup, unless an address was advertised, and the paths.
failedLookups(b) == {e \in RecordedIn({rootEv(b)}) : e.state # "PASS"}
pathsOf(b) == {a \in Addr : swept[b].tcp[a] # NoNode}

terminalIsTLS(b) == pathsOf(b) # {} /\ \A a \in pathsOf(b) : swept[b].tls[a] # NoNode

reachedTerminal(b, a) ==
    IF terminalIsTLS(b) THEN swept[b].tls[a].state = "PASS" ELSE swept[b].tcp[a].state = "PASS"

\* The earliest node of a path that did not pass.
owner(b, a) ==
    IF swept[b].tcp[a].state # "PASS" THEN pathEv(b, a) ELSE terminalEv(b, a)

owners(b) ==
    failedLookups(b) \cup {owner(b, a) : a \in {c \in pathsOf(b) : ~reachedTerminal(b, c)}}

failedOwners(b) == {e \in owners(b) : e.state = "FAIL"}

isIncomplete(e) ==
    e.state = "UNKNOWN" \/ (e.state = "SKIPPED" /\ e.class \in BudgetClasses)

\* Mutant: one failed path is enough.
evaluateOnAnyFailure(b) ==
    IF b = "unusable" \/ failedOwners(b) = {} THEN {}
    ELSE {Finding("KAFKA_ADVERTISED_ENDPOINT_UNREACHABLE", "ERROR", 6, Endpoint(b),
                  {metadataEv, advertisedEv(b)} \cup owners(b))}

\* AdvertisedEndpointUnreachable. What the budget left open makes the claim a
\* possibility; and withholds it where no owner is among what was left open.
evaluate(b) ==
    IF \/ b = "unusable"
       \/ \E a \in pathsOf(b) : reachedTerminal(b, a)
       \/ failedOwners(b) = {}
       \/ /\ \E e \in SweptEvidence(b) : isIncomplete(e)
          /\ \A e \in owners(b) : ~isIncomplete(e)
    THEN {}
    ELSE {Finding("KAFKA_ADVERTISED_ENDPOINT_UNREACHABLE",
                  IF \E e \in SweptEvidence(b) : isIncomplete(e) THEN "WARN" ELSE "ERROR",
                  6, Endpoint(b), {metadataEv, advertisedEv(b)} \cup owners(b))}

\* UnusableAdvertisement.
evaluateUsability(b) ==
    IF advertisedEv(b).state # "FAIL" THEN {}
    ELSE {Finding("KAFKA_ADVERTISED_ENDPOINT_UNUSABLE", "ERROR", 6, Endpoint(b),
                  {metadataEv, advertisedEv(b)})}

-----------------------------------------------------------------------------
(* The advertised set.                                                     *)

unknownLocal(e) == CutShort(e)

classifyAdvertised(b) ==
    IF advertisedEv(b).state # "PASS" THEN "notReached"
    ELSE IF \E e \in failedLookups(b) : unknownLocal(e) THEN "notMeasured"
    ELSE IF \E e \in failedLookups(b) : e.state = "FAIL" THEN "notReached"
    ELSE IF pathsOf(b) = {} THEN "notMeasured"
    ELSE IF \E a \in pathsOf(b) : reachedTerminal(b, a) THEN "reached"
    ELSE IF \E a \in pathsOf(b) : \E e \in {pathEv(b, a), terminalEv(b, a)} : unknownLocal(e)
         THEN "notMeasured"
    ELSE "notReached"

\* topologies: what became of the set one Metadata response named.
Verdict(v) == {b \in advertised : classifyAdvertised(b) = v}
topologyComplete == Verdict("notMeasured") = {} /\ ~incomplete

reachingNodes(b) ==
    {IF terminalIsTLS(b) THEN terminalEv(b, a) ELSE pathEv(b, a)
        : a \in {c \in pathsOf(b) : reachedTerminal(b, c)}}
failureRefs == UNION {failedOwners(b) : b \in Verdict("notReached")}

\* AdvertisedTopologyReachability: the three counts, called a total or not.
TopologyReachability ==
    IF Verdict("notReached") = {} THEN {}
    ELSE {Finding(IF topologyComplete THEN "KAFKA_ADVERTISED_TOPOLOGY_REACHABILITY"
                  ELSE "KAFKA_ADVERTISED_TOPOLOGY_REACHABILITY_PARTIAL",
                  "INFO", 6, Address(at),
                  {metadataEv} \cup {advertisedEv(b) : b \in advertised} \cup failureRefs
                     \cup UNION {reachingNodes(b) : b \in Verdict("reached")})}

\* AdvertisedTopologyUnsuitable: a hypothesis about the whole set.
TopologyUnsuitable ==
    IF topologyComplete /\ Verdict("reached") = {} /\ Verdict("notReached") # {}
    THEN {Finding("KAFKA_ADVERTISED_TOPOLOGY_UNSUITABLE", "WARN", 6, Address(at),
                  {metadataEv} \cup {advertisedEv(b) : b \in Verdict("notReached")}
                     \cup failureRefs)}
    ELSE {}

\* The registry of DiagnoseKafka.
KafkaFindings ==
    FailureBoundary(KafkaEvidence) \cup Protocol \cup
    IF metadata.state = "PASS"
    THEN TopologyReachability \cup TopologyUnsuitable
            \cup UNION {evaluate(b) \cup evaluateUsability(b) : b \in advertised}
    ELSE TransportFindings

-----------------------------------------------------------------------------
(* Properties.                                                             *)

\* Whether the peer settled the fate of an advertised endpoint: it has no
\* address a client could use, its name failed, or each of its addresses did.
ObservedNegative(b) ==
    \/ b = "unusable"
    \/ swept[b].dns.state = "FAIL"
    \/ /\ swept[b].located # {}
       /\ \A a \in swept[b].located :
            swept[b].tcp[a].state = "FAIL" \/ swept[b].tls[a].state = "FAIL"

\* ADR 0034 and 0084: an ERROR rests on a failed node and on nothing the budget
\* left open; an endpoint is called unreachable, and the advertised set
\* unsuitable, only if the network decided so of every address in question.
KafkaFindingsGrounded ==
    stage = "done" =>
        /\ RefsResolve(KafkaEvidence, KafkaFindings)
        /\ \A f \in KafkaFindings :
            /\ Problem(f) => /\ \E e \in f.refs : e.state = "FAIL"
                             /\ \A e \in f.refs : ~isIncomplete(e)
            /\ \A b \in advertised : f.subject = Endpoint(b) /\ Problem(f) => ObservedNegative(b)
            /\ f.code \in {"KAFKA_ADVERTISED_TOPOLOGY_UNSUITABLE",
                           "KAFKA_ADVERTISED_TOPOLOGY_REACHABILITY"} =>
                 \A b \in Verdict("notReached") : ObservedNegative(b)

\* A complete run says what it measured: before Metadata a finding above INFO,
\* or the authentication svcdoctor does not perform; after it, each advertised
\* endpoint was reached or has an ERROR of its own, never both, and the rules,
\* the completeness predicate and the counts agree.
KafkaExplained ==
    stage = "done" /\ ~incomplete =>
        /\ metadata.state # "PASS" =>
             \/ \E f \in KafkaFindings : Notable(f)
             \/ auth.class \in {"UNSUPPORTED", "MECHANISM_UNSUPPORTED"}
        /\ metadata.state = "PASS" =>
             \A b \in advertised :
                 /\ classifyAdvertised(b) # "notMeasured"
                 /\ (classifyAdvertised(b) = "reached") =
                    (\A f \in KafkaFindings : ~(Problem(f) /\ f.subject = Endpoint(b)))

\* The findings of a finished run are grounded and leave nothing unexplained.
KafkaRunFaithful == KafkaFindingsGrounded /\ KafkaExplained
=============================================================================
