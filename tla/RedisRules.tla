------------------------------ MODULE RedisRules ------------------------------
(***************************************************************************)
(* The diagnosis of a Redis run: the rules DiagnoseRedis registers, over   *)
(* the graph the journey leaves behind.                                    *)
(***************************************************************************)
EXTENDS RedisJourney, TransportRules

helloEv(a)  == Ev(4, 1, "redis.hello", Address(a), hello[a])
identityEv  == Ev(4, 2, "redis.hello", Address(at), identity)
authEv      == Ev(5, 1, "redis.authentication", Address(at), auth)
pingEv      == Ev(5, 2, "redis.ping", Address(at), ping)
RedisEvidence ==
    SweepEvidence \cup RecordedIn({helloEv(a) : a \in Addr} \cup {identityEv, authEv, pingEv})

\* The mode attribute an answered HELLO records.
SaysSentinel(e) ==
    e.step = "redis.hello" /\ e.state = "PASS" /\ peer[e.subject[2]] = "sentinel"

HelloRule ==
    {Finding("REDIS_PROTOCOL_NOT_ESTABLISHED", "ERROR", 4, e.subject, {e})
        : e \in {n \in nodesAt(RedisEvidence, "redis.hello") : n.state = "FAIL"}}

SentinelRule ==
    {Finding("REDIS_ENDPOINT_IS_SENTINEL", "ERROR", 4, e.subject, {e})
        : e \in {n \in nodesAt(RedisEvidence, "redis.hello") : SaysSentinel(n)}}

\* Mutant: a skipped authentication is nobody's problem.
evaluateAuthenticationOfAttempts(e) ==
    CASE e.state = "FAIL" /\ e.class = "REJECTED" -> {<<"REDIS_CREDENTIALS_REJECTED", "ERROR">>}
      [] e.state = "FAIL" /\ e.class # "REJECTED" ->
            {<<"REDIS_AUTHENTICATION_NOT_COMPLETED", "ERROR">>}
      [] OTHER -> {}

\* evaluateAuthentication: svcdoctor's own decision not to send is a warning.
evaluateAuthentication(e) ==
    CASE e.state = "SKIPPED" /\ e.class = "POLICY" -> {<<"REDIS_CREDENTIAL_WITHHELD", "WARN">>}
      [] e.state = "SKIPPED" /\ e.class = "INPUT_MISSING" ->
            {<<"REDIS_CREDENTIAL_NOT_CONFIGURED", "WARN">>}
      [] e.state = "FAIL" /\ e.class = "REJECTED" -> {<<"REDIS_CREDENTIALS_REJECTED", "ERROR">>}
      [] e.state = "FAIL" /\ e.class # "REJECTED" ->
            {<<"REDIS_AUTHENTICATION_NOT_COMPLETED", "ERROR">>}
      [] OTHER -> {}

\* evaluatePing: a refusal the endpoint named is a warning.
evaluatePing(e) ==
    CASE e.state = "UNKNOWN" /\ e.class = "AUTHZ_DENIED" -> {<<"REDIS_COMMAND_NOT_PERMITTED", "WARN">>}
      [] e.state = "UNKNOWN" /\ e.class = "UNEXPECTED" -> {<<"REDIS_ENDPOINT_NOT_SERVING", "WARN">>}
      [] e.state = "FAIL" -> {<<"REDIS_PING_NOT_COMPLETED", "ERROR">>}
      [] OTHER -> {}

\* The registry of DiagnoseRedis.
RedisFindings ==
    FailureBoundary(RedisEvidence) \cup TransportFindings
        \cup HelloRule \cup SentinelRule
        \cup ClaimsOf(nodesAt(RedisEvidence, "redis.authentication"), evaluateAuthentication)
        \cup ClaimsOf(nodesAt(RedisEvidence, "redis.ping"), evaluatePing)

-----------------------------------------------------------------------------
(* Properties.                                                             *)

\* Nothing the report claims rests on svcdoctor's own budget: a finding above
\* INFO cites no node that the budget cut short, an ERROR cites a failure at
\* or below the layer the summary calls broken, or the Sentinel's own word, and
\* of an address that answered PING only the HELLO it refused is called an
\* ERROR.
RedisFindingsGrounded ==
    stage = "done" =>
        LET E == RedisEvidence
            F == RedisFindings
            broken == FirstBrokenLayer(E)
        IN /\ RefsResolve(E, F)
           /\ \A f \in F :
                /\ Notable(f) => \A e \in f.refs : ~CutShort(e)
                /\ Problem(f) => \E e \in f.refs :
                     (e.state = "FAIL" /\ broken <= f.layer) \/ SaysSentinel(e)
                /\ Problem(f) /\ f.subject = Address(at) /\ ping.state = "PASS" =>
                     f.code = "REDIS_PROTOCOL_NOT_ESTABLISHED"

\* A complete run that did not see PING answered says why: a finding above
\* INFO, or a node that names svcdoctor's own limit.
RedisExplained ==
    stage = "done" /\ ~incomplete /\ ping.state # "PASS" =>
        \/ \E f \in RedisFindings : Notable(f)
        \/ \E e \in RedisEvidence : e.class = "UNSUPPORTED"

\* The report of a finished run is faithful: it is incomplete if anything was
\* left unmeasured, its PING follows its authentication, and its findings are
\* grounded and leave nothing unexplained.
RedisRunFaithful ==
    /\ UnmeasuredIsIncomplete /\ PingAfterAuthentication
    /\ RedisFindingsGrounded /\ RedisExplained
=============================================================================
