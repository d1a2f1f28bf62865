--------------------------- MODULE PostgresJourney ---------------------------
(***************************************************************************)
(* DiagnosePostgres over a plaintext transport sweep. Every completed path *)
(* negotiates encryption in band (SSLRequest, then the handshake on the    *)
(* same socket) and sends the startup packet; one path is selected and     *)
(* taken through at most one SCRAM exchange and to ReadyForQuery. A read   *)
(* returns the first message that is not a notice: skipping more notices   *)
(* than the step allows is one of the ways the peer breaks it ("closed").  *)
(***************************************************************************)
EXTENDS Journey

VARIABLES
    plan,        \* TLSPlan: "required" or "disabled"
    roleUsable,  \* the role and the database are printable
    credential,  \* "none", or whether SCRAM can prepare its password
    verifiers,   \* addresses whose peer holds the verifier of this password
    stage,       \* where measurePostgres is
    todo,        \* paths discover has not come to yet
    at,          \* the path in hand, then the selected one
    reply,       \* how the exchange in flight ended
    sslRequest,  \* the postgres.ssl_request node of each path
    startup,     \* the postgres.startup node of each path
    startupBlocker, \* the blocked-by edge of that node
    method,      \* the authentication the StartupResult of a path names
    auth,        \* the postgres.authentication node
    ready,       \* the postgres.session node
    proofs,      \* client proofs written to a connection
    incomplete   \* what the Result says

postgresInput == <<plan, roleUsable, credential, verifiers>>
postgresGraph == <<sslRequest, startup, startupBlocker, method, auth, ready>>
postgresVars  == <<postgresInput, stage, todo, at, reply, postgresGraph, proofs, incomplete>>
journeyVars   == <<transportVars, postgresVars>>
sweepDone     == <<params, clockVars, pc, heard, sweepVars, dns, tcp, conn, session>>

\* What a startup is answered with: no authentication, SASL with the mechanism
\* svcdoctor performs, SASL with only its channel-binding form, SASL with
\* neither, or a method it does not perform.
Methods == {"ok", "scram", "plus", "foreign", "legacy"}

Candidates == {a \in Addr : method[a] # "none"}
Demanding  == {a \in Candidates : method[a] # "ok"}

-----------------------------------------------------------------------------
(* discover: the credential-free stages on every path.                     *)

BeginPaths ==
    /\ pc = "returned"
    /\ stage = "sweep"
    /\ todo' = {a \in Addr : Connected(paths[a])}
    /\ stage' = "paths"
    /\ UNCHANGED <<transportVars, postgresInput, at, reply, postgresGraph, proofs, incomplete>>

\* Negotiate takes the connection of the next path. Without TLS in the plan
\* the request is skipped by policy and the channel is plaintext.
Negotiate(a) ==
    /\ stage = "paths"
    /\ a \in todo /\ \A b \in todo : a <= b
    /\ ctx = "live"
    /\ todo' = todo \ {a}
    /\ at' = a
    /\ paths' = [paths EXCEPT ![a] = TakeConn(@)]
    /\ held' = held \cup {a}
    /\ IF plan = "disabled"
       THEN /\ sslRequest' = [sslRequest EXCEPT ![a] = Node("SKIPPED", "NONE")]
            /\ stage' = "startup"
       ELSE /\ stage' = "ssl"
            /\ UNCHANGED sslRequest
    /\ UNCHANGED <<sweepDone, tls, blocked, channel, open, postgresInput, reply, startup,
                   startupBlocker, method, auth, ready, proofs, incomplete>>

\* A blocking exchange comes back in stage `from`.
Comes(from, to, r) ==
    /\ stage = from
    /\ MayReturn(r)
    /\ reply' = r
    /\ stage' = to
    /\ UNCHANGED <<transportVars, postgresInput, todo, at, postgresGraph, proofs, incomplete>>

\* The handshake and Startup validate what they were given before they begin.
SSLReturns(r)     == Comes("ssl", "sslRead", r)
UpgradeReturns(r) == params.usableName /\ Comes("upgrade", "upgraded", r)
StartupReturns(r) == roleUsable /\ Comes("startup", "started", r)

\* The byte the peer answered is an answer, whatever the context says now:
\* 'S', 'N', or any other, 'E' among them.
SSLAnswers == {"accepted", "declined", "unexpected"}

classifySSLResponse(r, ended) ==
    CASE r = "accepted"   -> Node("PASS", "NONE")
      [] r = "declined"   -> Node("FAIL", "UNSUPPORTED_CAPABILITY")
      [] r = "unexpected" -> Node("FAIL", "TARGET")
      [] OTHER -> classifyBroken(r, ended)

SSLAccepted ==
    /\ stage = "sslRead"
    /\ reply = "accepted"
    /\ sslRequest' = [sslRequest EXCEPT ![at] = classifySSLResponse(reply, ctx)]
    /\ stage' = "upgrade"
    /\ UNCHANGED <<transportVars, postgresInput, todo, at, reply, startup, startupBlocker,
                   method, auth, ready, proofs, incomplete>>

\* Close the connection of the path in hand.
CloseAt == open' = open \ {at} /\ held' = held \ {at}

\* A session without a connection: Startup records why it did not happen, or
\* refuses a role it cannot spell before it looks.
SkipStartup(blocker) ==
    /\ roleUsable
    /\ startup' = [startup EXCEPT ![at] = Node("SKIPPED", "PREREQUISITE")]
    /\ startupBlocker' = [startupBlocker EXCEPT ![at] = blocker]
    /\ stage' = "paths"

\* No upgrade: the connection is closed, and TLS and startup are skipped with
\* the request as what blocked them. There is no plaintext fallback.
SSLRefused ==
    /\ stage = "sslRead"
    /\ reply # "accepted"
    /\ sslRequest' = [sslRequest EXCEPT ![at] = classifySSLResponse(reply, ctx)]
    /\ tls' = [tls EXCEPT ![at] = Node("SKIPPED", "PREREQUISITE")]
    /\ blocked' = blocked \cup {at}
    /\ CloseAt
    /\ SkipStartup("ssl_request")
    /\ UNCHANGED <<sweepDone, paths, channel, postgresInput, todo, at, reply, method, auth,
                   ready, proofs, incomplete>>

\* upgrade: a completed handshake wraps the connection, and its channel is
\* what verification the plan asked for.
Upgraded ==
    /\ stage = "upgraded"
    /\ reply = "ok"
    /\ tls' = [tls EXCEPT ![at] = classify("ok", ctx)]
    /\ channel' = [channel EXCEPT ![at] =
                     IF params.insecure THEN "tls_unverified" ELSE "tls_verified"]
    /\ stage' = "startup"
    /\ UNCHANGED <<sweepDone, blocked, paths, open, held, postgresInput, todo, at, reply,
                   postgresGraph, proofs, incomplete>>

UpgradeFailed ==
    /\ stage = "upgraded"
    /\ reply # "ok"
    /\ tls' = [tls EXCEPT ![at] = classify(reply, ctx)]
    /\ CloseAt
    /\ SkipStartup("tls")
    /\ UNCHANGED <<sweepDone, blocked, paths, channel, postgresInput, todo, at, reply,
                   sslRequest, method, auth, ready, proofs, incomplete>>

\* discover fails with the run: the handshake refuses its server name, or
\* Startup the role. The connection in hand is closed, then the sweep's.
Fail ==
    /\ \/ stage = "upgrade" /\ ~params.usableName
       \/ stage = "startup" /\ ~roleUsable
       \/ stage = "sslRead" /\ reply # "accepted" /\ ~roleUsable
       \/ stage = "upgraded" /\ reply # "ok" /\ ~roleUsable
    /\ stage' = "failed"
    /\ pc' = "closed"
    /\ paths' = [a \in Addr |-> CloseConn(paths[a])]
    /\ open' = (open \ {a \in Addr : Connected(paths[a])}) \ {at}
    /\ held' = held \ {at}
    /\ UNCHANGED <<params, clockVars, heard, sweepVars, graphVars, conn, session, channel,
                   postgresInput, todo, at, reply, postgresGraph, proofs, incomplete>>

\* The refusals an ErrorResponse names by its SQLSTATE, in the three exchanges
\* that may meet one; any other SQLSTATE is "error" and names nothing.
NamedRefusals ==
    [notPermitted |-> "NOT_PERMITTED", rejected |-> "REJECTED",
     mismatch |-> "PEER_VERIFICATION", notFound |-> "NOT_FOUND",
     denied |-> "AUTHZ_DENIED", limitReached |-> "LIMIT_REACHED"]

\* The ErrorResponses of the authentication step: 28000, 28P01 and any other.
Rejections == {"notPermitted", "rejected", "error"}

\* The caller's limits come before whatever the peer named.
classifyAnswer(r, ended) ==
    IF ended = "live" /\ r \in DOMAIN NamedRefusals THEN Node("FAIL", NamedRefusals[r])
    ELSE classifyBroken(r, ended)

\* An Authentication message passes the step, whichever it is.
classifyStartup(r, ended) ==
    IF r \in Methods THEN Node("PASS", "NONE") ELSE classifyAnswer(r, ended)

methodOf(r) == IF r \in Methods THEN r ELSE "none"

RecordStartup ==
    /\ stage = "started"
    /\ startup' = [startup EXCEPT ![at] = classifyStartup(reply, ctx)]
    /\ method' = [method EXCEPT ![at] = methodOf(reply)]
    /\ IF reply \in Methods THEN UNCHANGED <<open, held>> ELSE CloseAt
    /\ stage' = "paths"
    /\ UNCHANGED <<sweepDone, tls, blocked, paths, channel, postgresInput, todo, at, reply,
                   sslRequest, startupBlocker, auth, ready, proofs, incomplete>>

PathsDone ==
    /\ stage = "paths"
    /\ todo = {} \/ ctx # "live"
    /\ stage' = "select"
    /\ UNCHANGED <<transportVars, postgresInput, todo, at, reply, postgresGraph, proofs,
                   incomplete>>

-----------------------------------------------------------------------------
(* One path past the credential boundary.                                  *)

\* The results of the other paths are closed; an ended budget stops here.
Select(a) ==
    /\ stage = "select"
    /\ IsChosen(a, Candidates, Demanding, credential # "none")
    /\ at' = a
    /\ open' = open \ (Candidates \ (IF ctx = "live" THEN {a} ELSE {}))
    /\ held' = held \ (Candidates \ (IF ctx = "live" THEN {a} ELSE {}))
    /\ stage' = IF ctx = "live" THEN "authenticate" ELSE "leave"
    /\ UNCHANGED <<sweepDone, tls, blocked, paths, channel, postgresInput, todo, reply,
                   postgresGraph, proofs, incomplete>>

NothingToSelect ==
    /\ stage = "select"
    /\ Candidates = {}
    /\ stage' = "leave"
    /\ UNCHANGED <<transportVars, postgresInput, todo, at, reply, postgresGraph, proofs,
                   incomplete>>

\* An endpoint that wants no authentication is never offered any.
Trusted ==
    /\ stage = "authenticate"
    /\ method[at] = "ok"
    /\ stage' = "session"
    /\ UNCHANGED <<transportVars, postgresInput, todo, at, reply, postgresGraph, proofs,
                   incomplete>>

\* admissibleMechanism, then the credential, then the policy: what is recorded
\* when one of them stands in the way.
Refusal ==
    CASE method[at] \in {"legacy", "plus"} -> Node("UNKNOWN", "MECHANISM_UNSUPPORTED")
      [] method[at] = "foreign" -> Node("FAIL", "MECHANISM_NOT_OFFERED")
      [] method[at] = "scram" ->
            Node("SKIPPED", IF credential = "none" THEN "INPUT_MISSING" ELSE "POLICY")

Admissible == method[at] = "scram"
MayPresent == Admissible /\ credential # "none" /\ PermitsCredentials(channel[at])

Withhold ==
    /\ stage = "authenticate"
    /\ method[at] # "ok"
    /\ ~MayPresent
    /\ auth' = Refusal
    /\ CloseAt
    /\ stage' = "leave"
    /\ UNCHANGED <<sweepDone, tls, blocked, paths, channel, postgresInput, todo, at, reply,
                   sslRequest, startup, startupBlocker, method, ready, proofs, incomplete>>

\* authenticateSCRAM refuses a password it cannot prepare before it writes;
\* otherwise client-first goes out, which says nothing of the password.
BeginSCRAM ==
    /\ stage = "authenticate"
    /\ MayPresent
    /\ IF credential = "unprepared"
       THEN reply' = "limit" /\ stage' = "authRead"
       ELSE stage' = "serverFirst" /\ UNCHANGED reply
    /\ UNCHANGED <<transportVars, postgresInput, todo, at, postgresGraph, proofs, incomplete>>

\* Continue: the proof is written only in answer to a server-first whose nonce
\* extends the client's and whose parameters are within bounds.
ServerFirst(r) ==
    /\ stage = "serverFirst"
    /\ MayReturn(r)
    /\ IF r = "challenge"
       THEN proofs' = proofs + 1 /\ stage' = "serverFinal" /\ UNCHANGED reply
       ELSE reply' = r /\ stage' = "authRead" /\ UNCHANGED proofs
    /\ UNCHANGED <<transportVars, postgresInput, todo, at, postgresGraph, incomplete>>

\* Only a peer that holds the verifier can sign.
CanSend(r) == r = "signature" => at \in verifiers

\* Mutant: AuthenticationOk is awaited whatever the signature.
VerifyNothing(r) == r \in {"signature", "mismatch"}

\* Verify: the signature is the expected one.
Verify(r) == r = "signature"

ServerFinal(r) ==
    /\ stage = "serverFinal"
    /\ MayReturn(r) /\ CanSend(r)
    /\ IF Verify(r)
       THEN stage' = "authenticationOk" /\ UNCHANGED reply
       ELSE reply' = r /\ stage' = "authRead"
    /\ UNCHANGED <<transportVars, postgresInput, todo, at, postgresGraph, proofs, incomplete>>

AuthenticationOk(r) == Comes("authenticationOk", "authRead", r)

\* authObservation.classify: passed is a verified signature and the Ok.
classifyAuth(r, ended) ==
    IF r = "complete" THEN Node("PASS", "NONE") ELSE classifyAnswer(r, ended)

\* Mutant: the connection of a failed attempt stays open.
RecordAuthLeaks ==
    /\ stage = "authRead"
    /\ auth' = classifyAuth(reply, ctx)
    /\ stage' = IF reply = "complete" THEN "session" ELSE "leave"
    /\ UNCHANGED <<transportVars, postgresInput, todo, at, reply, sslRequest, startup,
                   startupBlocker, method, ready, proofs, incomplete>>

\* The attempt is recorded; only a passed one keeps its connection.
RecordAuth ==
    /\ stage = "authRead"
    /\ auth' = classifyAuth(reply, ctx)
    /\ IF reply = "complete"
       THEN stage' = "session" /\ UNCHANGED <<open, held>>
       ELSE stage' = "leave" /\ CloseAt
    /\ UNCHANGED <<sweepDone, tls, blocked, paths, channel, postgresInput, todo, at, reply,
                   sslRequest, startup, startupBlocker, method, ready, proofs, incomplete>>

SessionReturns(r) == Comes("session", "sessionRead", r)

classifySession(r, ended) ==
    IF r = "ready" THEN Node("PASS", "NONE") ELSE classifyAnswer(r, ended)

\* EstablishSession is terminal: every outcome closes the connection.
RecordSession ==
    /\ stage = "sessionRead"
    /\ ready' = classifySession(reply, ctx)
    /\ CloseAt
    /\ stage' = "leave"
    /\ UNCHANGED <<sweepDone, tls, blocked, paths, channel, postgresInput, todo, at, reply,
                   sslRequest, startup, startupBlocker, method, auth, proofs, incomplete>>

-----------------------------------------------------------------------------
Recorded ==
    SweepNodes \cup {auth, ready} \cup {sslRequest[a] : a \in Addr} \cup {startup[a] : a \in Addr}

established == ready.state = "PASS"

\* The sweep is closed, and the Result derived from what was recorded.
Leave ==
    /\ stage = "leave"
    /\ stage' = "done"
    /\ pc' = "closed"
    /\ paths' = [a \in Addr |-> CloseConn(paths[a])]
    /\ open' = open \ {a \in Addr : Connected(paths[a])}
    /\ incomplete' = incompleteRun(Recorded, established)
    /\ UNCHANGED <<params, clockVars, heard, sweepVars, graphVars, conn, session, channel, held,
                   postgresInput, todo, at, reply, postgresGraph, proofs>>

\* TLS is never asked of the sweep: the server has to agree to it first.
PostgresInit ==
    /\ TransportInit
    /\ ~params.collides /\ params.parentKnown /\ ~params.tls
    /\ plan \in {"required", "disabled"}
    /\ plan = "disabled" => ~params.insecure /\ params.usableName
    /\ roleUsable \in BOOLEAN
    /\ credential \in {"none", "unprepared", "usable"}
    /\ verifiers \in SUBSET Addr
    /\ stage = "sweep"
    /\ todo = {}
    /\ at = CHOOSE a \in Addr : TRUE
    /\ reply = "ok"
    /\ sslRequest = [a \in Addr |-> NoNode]
    /\ startup = [a \in Addr |-> NoNode]
    /\ startupBlocker = [a \in Addr |-> "none"]
    /\ method = [a \in Addr |-> "none"]
    /\ auth = NoNode
    /\ ready = NoNode
    /\ proofs = 0
    /\ incomplete = FALSE

Discovering ==
    \/ BeginPaths \/ SSLAccepted \/ SSLRefused \/ Upgraded \/ UpgradeFailed
    \/ RecordStartup \/ PathsDone \/ Fail
    \/ \E a \in Addr : Negotiate(a)
    \/ \E r \in SSLAnswers \cup Broken : SSLReturns(r)
    \/ \E r \in Outcomes : UpgradeReturns(r)
    \/ \E r \in Methods \cup {"notPermitted", "error"} \cup Broken : StartupReturns(r)

Authenticating ==
    \/ NothingToSelect \/ Trusted \/ Withhold \/ BeginSCRAM \/ RecordAuth
    \/ \E a \in Addr : Select(a)
    \/ \E r \in {"challenge", "limit"} \cup Rejections \cup Broken : ServerFirst(r)
    \/ \E r \in {"signature", "mismatch", "limit"} \cup Rejections \cup Broken : ServerFinal(r)
    \/ \E r \in {"complete"} \cup Rejections \cup Broken : AuthenticationOk(r)

Establishing ==
    \/ RecordSession
    \/ \E r \in {"ready", "notFound", "denied", "limitReached", "error"} \cup Broken : SessionReturns(r)

\* Once the run has returned, nothing reads its context.
Transporting == stage \notin {"done", "failed"} /\ RunStep /\ UNCHANGED postgresVars

PostgresOver ==
    (stage \in {"done", "failed"} \/ pc = "failed") /\ UNCHANGED journeyVars

PostgresNext ==
    Transporting \/ Discovering \/ Authenticating \/ Establishing \/ Leave \/ PostgresOver

PostgresSpec == PostgresInit /\ [][PostgresNext]_journeyVars

-----------------------------------------------------------------------------
(* Properties.                                                             *)

\* ADR 0038 and ADR 0041: a run writes at most one client proof, on one path,
\* over a channel whose peer that same connection's handshake verified, and
\* only to an endpoint that asked for this mechanism.
ProofDiscipline ==
    /\ proofs <= 1
    /\ proofs = 1 => /\ credential = "usable"
                     /\ tls[at].state = "PASS" /\ ~params.insecure
                     /\ startup[at].state = "PASS" /\ method[at] = "scram"

\* "Success is a conjunction": a session was begun only where the endpoint
\* asked for nothing, or after it proved that it holds this password's
\* verifier; AuthenticationOk alone never passes.
SessionIsMutual ==
    ready # NoNode =>
        \/ method[at] = "ok" /\ proofs = 0 /\ auth = NoNode
        \/ method[at] = "scram" /\ auth.state = "PASS" /\ at \in verifiers

\* Every socket has one owner until the run leaves, and none is open when it
\* has left, by whichever way: the error returns of discover included.
SocketsClosed ==
    /\ stage \in {"done", "failed"} => open = {}
    /\ stage \notin {"sweep", "done", "failed"} =>
         \A a \in open : (a \in held) # Connected(paths[a])

\* A path that was negotiated has a startup node, and a startup that was
\* skipped names the deepest step before it that did not pass. Startup is
\* never sent in the clear where the plan requires TLS.
StartupExplained ==
    stage \in {"select", "authenticate", "leave", "done"} =>
        \A a \in Addr :
            /\ (sslRequest[a] # NoNode) = (startup[a] # NoNode)
            /\ startupBlocker[a] = "ssl_request" => sslRequest[a].state \in {"FAIL", "UNKNOWN"}
            /\ startupBlocker[a] = "tls" => tls[a].state \in {"FAIL", "UNKNOWN"}
            /\ (startup[a].state = "SKIPPED") = (startupBlocker[a] # "none")
            /\ method[a] # "none" /\ plan = "required" => tls[a].state = "PASS"

\* incompleteRun's promise: a run that calls itself complete dialled every
\* address, started up on every path, and either reached ReadyForQuery or was
\* cut short nowhere; if some path could be continued, one was, to a verdict.
CompleteIsMeasured ==
    stage = "done" /\ ~incomplete =>
        /\ \A a \in located : tcp[a].state # "SKIPPED"
        /\ \A a \in Addr : paths[a].conn => startup[a] # NoNode
        /\ established \/ \A n \in Recorded : ~CutShort(n)
        /\ Candidates # {} => auth # NoNode \/ ready # NoNode
=============================================================================
