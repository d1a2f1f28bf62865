---------------------------- MODULE RabbitMQRules ----------------------------
(***************************************************************************)
(* The diagnosis of a RabbitMQ run: the rules DiagnoseRabbitMQ registers,  *)
(* over the graph the journey leaves behind.                               *)
(***************************************************************************)
EXTENDS RabbitMQJourney, TransportRules

startEv(a) == Ev(4, 1, "rabbitmq.connection_start", Address(a), start[a])
authEv     == Ev(5, 1, "rabbitmq.authentication", Address(at), auth)
openEv     == Ev(5, 2, "rabbitmq.connection_open", Address(at), opened)
RabbitEvidence ==
    SweepEvidence \cup RecordedIn({startEv(a) : a \in Addr} \cup {authEv, openEv})

ConnectionStart ==
    ClaimsOf(nodesAt(RabbitEvidence, "rabbitmq.connection_start"),
             LAMBDA e : IF e.state = "FAIL"
                        THEN {<<"RABBITMQ_CONNECTION_START_NOT_COMPLETED", "ERROR">>} ELSE {})

\* authenticationFinding: what was withheld, what the endpoint does not offer,
\* what svcdoctor cannot negotiate, and what was refused.
authenticationFinding(e) ==
    CASE e.state = "SKIPPED" /\ e.class = "INPUT_MISSING" ->
            {<<"RABBITMQ_CREDENTIAL_NOT_CONFIGURED", "WARN">>}
      [] e.state = "SKIPPED" /\ e.class = "POLICY" ->
            {<<"RABBITMQ_CREDENTIAL_WITHHELD", "WARN">>}
      [] e.state = "UNKNOWN" /\ e.class = "MECHANISM_NOT_OFFERED" ->
            {<<"RABBITMQ_AUTH_MECHANISM_NOT_OFFERED", "ERROR">>}
      [] e.state = "UNKNOWN" /\ e.class = "UNSUPPORTED_CAPABILITY" ->
            {<<"RABBITMQ_AUTHENTICATION_UNSUPPORTED_BY_SVCDOCTOR", "WARN">>}
      [] e.state = "FAIL" /\ e.class = "REJECTED" ->
            {<<"RABBITMQ_CREDENTIALS_REJECTED", "ERROR">>}
      [] e.state = "FAIL" /\ e.class # "REJECTED" ->
            {<<"RABBITMQ_AUTHENTICATION_NOT_COMPLETED", "ERROR">>}
      [] OTHER -> {}

connectionOpenFinding(e) ==
    IF e.state # "FAIL" THEN {}
    ELSE CASE e.class = "NOT_FOUND"    -> {<<"RABBITMQ_VHOST_NOT_FOUND", "ERROR">>}
           [] e.class = "AUTHZ_DENIED" -> {<<"RABBITMQ_VHOST_ACCESS_REFUSED", "ERROR">>}
           [] e.class \in {"LIMIT_REACHED", "NOT_PERMITTED"} ->
                {<<"RABBITMQ_CONNECTION_NOT_PERMITTED", "ERROR">>}
           [] OTHER -> {<<"RABBITMQ_CONNECTION_NOT_ESTABLISHED", "ERROR">>}

\* The registry of DiagnoseRabbitMQ.
RabbitFindings ==
    FailureBoundary(RabbitEvidence) \cup TransportFindings \cup ConnectionStart
        \cup ClaimsOf(nodesAt(RabbitEvidence, "rabbitmq.authentication"), authenticationFinding)
        \cup ClaimsOf(nodesAt(RabbitEvidence, "rabbitmq.connection_open"), connectionOpenFinding)

-----------------------------------------------------------------------------
(* Properties.                                                             *)

\* Nothing the report claims rests on svcdoctor's own budget, an ERROR rests
\* on a failure or on the mechanisms the endpoint listed, and no broker that
\* opened the virtual host is called broken.
RabbitFindingsGrounded ==
    stage = "done" =>
        /\ RefsResolve(RabbitEvidence, RabbitFindings)
        /\ \A f \in RabbitFindings :
            /\ Notable(f) => \A e \in f.refs : ~CutShort(e)
            /\ Problem(f) => \E e \in f.refs :
                 e.state = "FAIL" \/ e.class = "MECHANISM_NOT_OFFERED"
            /\ Problem(f) /\ f.subject = Address(at) => opened.state # "PASS"

\* A complete run that did not see the virtual host opened says why: a finding
\* above INFO, or a credential that PLAIN cannot carry.
RabbitExplained ==
    stage = "done" /\ ~incomplete /\ opened.state # "PASS" =>
        \/ \E f \in RabbitFindings : Notable(f)
        \/ credential = "unusable"

\* A finished run is faithful and leaves nothing behind: its sockets are closed
\* and its findings are grounded and leave nothing unexplained.
RabbitRunFaithful == RabbitSocketsClosed /\ RabbitFindingsGrounded /\ RabbitExplained
=============================================================================
