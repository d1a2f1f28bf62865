---------------------------- MODULE PostgresRules ----------------------------
(***************************************************************************)
(* The diagnosis of a PostgreSQL run: the rules DiagnosePostgres registers, *)
(* over the graph the journey leaves behind. TLS is in band, so its rule   *)
(* is PostgreSQL's own and the transport one is not registered.            *)
(***************************************************************************)
EXTENDS PostgresJourney, TransportRules

sslEv(a)     == Ev(3, 0, "postgres.ssl_request", Address(a), sslRequest[a])
startupEv(a) == Ev(4, 1, "postgres.startup", Address(a), startup[a])
authEv       == Ev(5, 1, "postgres.authentication", Address(at), auth)
sessionEv    == Ev(5, 2, "postgres.session", Address(at), ready)
targetEv     == Ev(0, 0, "target.requested", Target, Node("PASS", "NONE"))
PostgresEvidence ==
    SweepEvidence \cup RecordedIn({sslEv(a) : a \in Addr} \cup {startupEv(a) : a \in Addr}
                                    \cup {authEv, sessionEv, targetEv})

Claim(code, e, refs) == Finding(code, "ERROR", e.layer, e.subject, refs \cup {e})

\* evaluateSSLRequest.
SSLRequest ==
    {Claim(IF e.class = "UNSUPPORTED_CAPABILITY" THEN "POSTGRES_TLS_DECLINED"
           ELSE "POSTGRES_SSL_NEGOTIATION_FAILED", e, {})
        : e \in {n \in nodesAt(PostgresEvidence, "postgres.ssl_request") : n.state = "FAIL"}}

\* evaluateTLS: a failed handshake whose negotiation had been accepted.
PostgresTLS ==
    {Claim("POSTGRES_TLS", handshakeEv(a), {sslEv(a)})
        : a \in {b \in Addr : /\ tls[b].state = "FAIL"
                              /\ sslRequest[b].state = "PASS"
                              /\ handshakeFailures \subseteq DOMAIN tlsClaims}}

\* evaluateStartup.
Startup ==
    {Claim(IF e.class = "NOT_PERMITTED" THEN "POSTGRES_CONNECTION_NOT_PERMITTED"
           ELSE "POSTGRES_STARTUP_FAILED", e, {})
        : e \in {n \in nodesAt(PostgresEvidence, "postgres.startup") : n.state = "FAIL"}}

\* failedAuthentication, unknownAuthentication and skippedAuthentication.
AuthenticationClaims ==
    [REJECTED |-> <<"POSTGRES_CREDENTIALS_REJECTED", "ERROR">>,
     PEER_VERIFICATION |-> <<"POSTGRES_PEER_VERIFICATION_FAILED", "ERROR">>,
     NOT_PERMITTED |-> <<"POSTGRES_CONNECTION_NOT_PERMITTED", "ERROR">>,
     MECHANISM_NOT_OFFERED |-> <<"POSTGRES_MECHANISM_UNAVAILABLE", "WARN">>,
     TARGET |-> <<"POSTGRES_AUTHENTICATION_FAILED", "ERROR">>,
     MECHANISM_UNSUPPORTED |-> <<"POSTGRES_MECHANISM_UNAVAILABLE", "INFO">>,
     UNSUPPORTED |-> <<"POSTGRES_UNSUPPORTED_BY_SVCDOCTOR", "INFO">>,
     POLICY |-> <<"POSTGRES_CREDENTIAL_WITHHELD", "WARN">>,
     INPUT_MISSING |-> <<"POSTGRES_CREDENTIAL_NOT_CONFIGURED", "WARN">>]

evaluateAuthentication ==
    {Finding(AuthenticationClaims[e.class][1], AuthenticationClaims[e.class][2], 5, e.subject,
             {e, startupEv(at)})
        : e \in {n \in nodesAt(PostgresEvidence, "postgres.authentication") :
                   n.state # "PASS" /\ n.class \in DOMAIN AuthenticationClaims}}

SessionClaims ==
    [NOT_FOUND |-> "POSTGRES_DATABASE_NOT_FOUND",
     LIMIT_REACHED |-> "POSTGRES_CONNECTION_LIMIT_REACHED",
     AUTHZ_DENIED |-> "POSTGRES_DATABASE_CONNECT_DENIED",
     TARGET |-> "POSTGRES_SESSION_ESTABLISHMENT_FAILED"]

\* Mutant: only an authentication node proves that the role was admitted.
authenticationProofOfNode == {e \in {authEv} : e.state = "PASS"}

\* authenticationProof: a passed authentication, or a startup that asked for
\* none. Without it the rule says nothing of a failed session.
authenticationProof ==
    {e \in {authEv} : e.state = "PASS"}
        \cup {e \in {startupEv(at)} : auth = NoNode /\ e.state = "PASS" /\ method[at] = "ok"}

evaluateSession ==
    {Claim(SessionClaims[e.class], e, authenticationProof \cup {startupEv(at)})
        : e \in {n \in nodesAt(PostgresEvidence, "postgres.session") :
                   n.state = "FAIL" /\ authenticationProof # {}}}

classifyAdmission(e) ==
    CASE e.state = "PASS" -> "accepted"
      [] e.state = "FAIL" /\ e.class = "NOT_PERMITTED" -> "refused"
      [] OTHER -> "undetermined"

\* AdmissionScope: how the addresses of one target differ, said of all of them
\* only when every one was decided and the run was not cut short.
AdmissionScope ==
    LET startups == nodesAt(PostgresEvidence, "postgres.startup")
        Scope(v) == {e \in startups : classifyAdmission(e) = v}
        complete == Scope("undetermined") = {} /\ ~incomplete
    IN IF Scope("refused") = {} \/ \A d, e \in startups : d = e THEN {}
       ELSE {Finding(IF complete THEN "POSTGRES_ADMISSION_SCOPE"
                     ELSE "POSTGRES_ADMISSION_SCOPE_INCOMPLETE",
                     "INFO", 4, Target, startups \cup {targetEv})}

\* The registry of DiagnosePostgres.
PostgresFindings ==
    FailureBoundary(PostgresEvidence) \cup evaluateDNS \cup evaluateTCP \cup SSLRequest
        \cup PostgresTLS \cup Startup \cup evaluateAuthentication \cup evaluateSession
        \cup AdmissionScope

-----------------------------------------------------------------------------
(* Properties.                                                             *)

\* Nothing the report claims rests on svcdoctor's own budget; an ERROR rests
\* on a failed node at or below the layer the summary calls broken; an endpoint
\* that reached ReadyForQuery is not called broken; and "all" or "some of N
\* addresses refused" is said only of startups the server itself decided.
PostgresFindingsGrounded ==
    stage = "done" =>
        LET E == PostgresEvidence
            F == PostgresFindings
            broken == FirstBrokenLayer(E)
        IN /\ RefsResolve(E, F)
           /\ \A f \in F :
                /\ Notable(f) => \A e \in f.refs : ~CutShort(e)
                /\ Problem(f) => (\E e \in f.refs : e.state = "FAIL") /\ broken <= f.layer
                /\ Problem(f) /\ f.subject = Address(at) => ~established
                /\ f.code = "POSTGRES_ADMISSION_SCOPE" =>
                     \A e \in f.refs : e.state = "PASS" \/ e.class = "NOT_PERMITTED"

\* A complete run that did not reach ReadyForQuery says why: a finding above
\* INFO, or an authentication node that names what svcdoctor does not perform.
PostgresExplained ==
    stage = "done" /\ ~incomplete /\ ~established =>
        \/ \E f \in PostgresFindings : Notable(f)
        \/ auth.class \in {"UNSUPPORTED", "MECHANISM_UNSUPPORTED"}

\* The report of a finished run is faithful: it is incomplete if anything was
\* left unmeasured, each startup skipped names what stood in its way, and its
\* findings are grounded and leave nothing unexplained.
PostgresRunFaithful ==
    /\ CompleteIsMeasured /\ StartupExplained
    /\ PostgresFindingsGrounded /\ PostgresExplained
=============================================================================
