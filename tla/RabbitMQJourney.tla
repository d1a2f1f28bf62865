--------------------------- MODULE RabbitMQJourney ---------------------------
(***************************************************************************)
(* DiagnoseRabbitMQ over a transport sweep: the protocol header on every   *)
(* completed path, one path selected, at most one PLAIN credential on it,  *)
(* the frame size negotiated, the virtual host opened, and the connection  *)
(* taken leave of in the way the peer's answer calls for.                  *)
(***************************************************************************)
EXTENDS Journey

VARIABLES
    credential, \* "none", "usable", or "unusable": one PLAIN cannot carry
    plain,      \* addresses whose Connection.Start offers PLAIN
    stage,      \* where measureRabbitMQ is
    todo,       \* paths Start has not come to yet
    at,         \* the path in hand, then the selected one
    reply,      \* what the exchange in flight returned
    ctxErr,     \* the context as it was read after Start-Ok
    offer,      \* the frame_max of Connection.Tune
    selected,   \* the frame_max of Tune-Ok, 0 before it was sent
    ceiling,    \* the largest payload the reader of the selected path accepts
    sessions,   \* paths with an open Session
    start,      \* the rabbitmq.connection.start node of each path
    auth,       \* the rabbitmq.authentication node
    opened,     \* the rabbitmq.connection.open node
    parting,    \* how the selected connection was taken leave of
    attempts,   \* times the credential was written to a connection
    incomplete  \* what the Result says

tuneVars     == <<offer, selected, ceiling>>
rabbitGraph  == <<start, auth, opened>>
rabbitVars   == <<credential, plain, stage, todo, at, reply, ctxErr, tuneVars, sessions,
                  rabbitGraph, parting, attempts, incomplete>>
rabbitRunVars == <<transportVars, rabbitVars>>
sweptVars    == <<params, clockVars, heard, sweepVars, graphVars, conn, session, channel>>

\* Sizes that tell the cases of the negotiation apart: no limit, below, at and
\* above the smallest frame AMQP allows, and above what svcdoctor advertises.
FrameSizes == {0, 4095, 4096, 8192, 131072}

frameOverhead     == 8
postTuneFrameMax  == 8192
specFrameMinSize  == 4096
preTunePayloadMax == 8192 - frameOverhead

\* Mutant: no limit is read as the smallest limit of all.
selectTuneOfZero(o) == IF o < postTuneFrameMax THEN o ELSE postTuneFrameMax

\* SelectTune: the smaller of the two, an offer of 0 being no limit.
SelectTune(o) == IF o # 0 /\ o < postTuneFrameMax THEN o ELSE postTuneFrameMax
TuneUnsupported(o) == SelectTune(o) < specFrameMinSize

\* negotiated: raised to what was advertised, never lowered.
negotiated(c, payloadMax) ==
    LET m == IF payloadMax > postTuneFrameMax - frameOverhead
             THEN postTuneFrameMax - frameOverhead ELSE payloadMax
    IN IF m > c THEN m ELSE c

\* Connection.Close in answer to Start-Ok: 403, or any other code.
AuthRefusals == {"rejected", "refused"}
\* In answer to Open: the outcomes normalizeClose tells apart. A text that was
\* truncated or is not one svcdoctor renders itself is "unspecified".
OpenRefusals == {"notFound", "denied", "limitReached", "unspecified"}

classifyStart(r, ended) ==
    IF r = "started" THEN Node("PASS", "NONE") ELSE classifyBroken(r, ended)

\* A 403 outranks the caller's own limits; no other refusal does.
classifyAuth(r, ended) ==
    CASE r = "accepted" -> Node("PASS", "NONE")
      [] r = "rejected" -> Node("FAIL", "REJECTED")
      [] r = "invalid"  -> Node("UNKNOWN", "INPUT_MISSING")
      [] r = "floor" /\ ended = "live" -> Node("UNKNOWN", "UNSUPPORTED_CAPABILITY")
      [] OTHER -> classifyBroken(r, ended)

classifyOpen(r, ended) ==
    CASE r = "openOk"       -> Node("PASS", "NONE")
      [] r = "notFound"     -> Node("FAIL", "NOT_FOUND")
      [] r = "denied"       -> Node("FAIL", "AUTHZ_DENIED")
      [] r = "limitReached" -> Node("FAIL", "LIMIT_REACHED")
      [] r = "unspecified"  -> Node("FAIL", "NOT_PERMITTED")
      [] OTHER -> classifyBroken(r, ended)

-----------------------------------------------------------------------------
(* The protocol header on every path.                                      *)

BeginPaths ==
    /\ pc = "returned"
    /\ stage = "sweep"
    /\ todo' = {a \in Addr : Connected(paths[a])}
    /\ stage' = "paths"
    /\ UNCHANGED <<transportVars, credential, plain, at, reply, ctxErr, tuneVars, sessions,
                   rabbitGraph, parting, attempts, incomplete>>

\* startOnPath takes the connection, in the order the paths arrived.
SendHeader(a) ==
    /\ stage = "paths"
    /\ a \in todo /\ \A b \in todo : a <= b
    /\ ctx = "live"
    /\ todo' = todo \ {a}
    /\ at' = a
    /\ paths' = [paths EXCEPT ![a] = TakeConn(@)]
    /\ held' = held \cup {a}
    /\ stage' = "start"
    /\ UNCHANGED <<sweptVars, pc, open, credential, plain, reply, ctxErr, tuneVars, sessions,
                   rabbitGraph, parting, attempts, incomplete>>

\* Conn.Start: Connection.Start, or anything else: another protocol's answer
\* and a broken frame are both a peer that does not speak AMQP 0-9-1.
StartReturns(r) ==
    /\ stage = "start"
    /\ MayReturn(r)
    /\ reply' = r
    /\ stage' = "startRead"
    /\ UNCHANGED <<transportVars, credential, plain, todo, at, ctxErr, tuneVars, sessions,
                   rabbitGraph, parting, attempts, incomplete>>

\* Mutant: a path that did not start is forgotten with its socket.
RecordStartKeepsSocket ==
    /\ stage = "startRead"
    /\ start' = [start EXCEPT ![at] = classifyStart(reply, ctx)]
    /\ sessions' = IF reply = "started" THEN sessions \cup {at} ELSE sessions
    /\ stage' = "paths"
    /\ UNCHANGED <<sweptVars, pc, paths, open, held, credential, plain, todo, at, reply,
                   ctxErr, tuneVars, auth, opened, parting, attempts, incomplete>>

RecordStart ==
    /\ stage = "startRead"
    /\ start' = [start EXCEPT ![at] = classifyStart(reply, ctx)]
    /\ IF reply = "started"
       THEN /\ sessions' = sessions \cup {at}
            /\ UNCHANGED <<held, open>>
       ELSE /\ held' = held \ {at}
            /\ open' = open \ {at}
            /\ UNCHANGED sessions
    /\ stage' = "paths"
    /\ UNCHANGED <<sweptVars, pc, paths, credential, plain, todo, at, reply, ctxErr, tuneVars,
                   auth, opened, parting, attempts, incomplete>>

PathsDone ==
    /\ stage = "paths"
    /\ todo = {} \/ ctx # "live"
    /\ stage' = "select"
    /\ UNCHANGED <<transportVars, credential, plain, todo, at, reply, ctxErr, tuneVars,
                   sessions, rabbitGraph, parting, attempts, incomplete>>

-----------------------------------------------------------------------------
(* One path past the credential boundary.                                  *)

\* continueOneRabbitMQPath: AuthRequired is true of every session, so the
\* canonical minimum is chosen whether or not there is a credential.
Select(a) ==
    /\ stage = "select"
    /\ IsChosen(a, sessions, sessions, credential # "none")
    /\ at' = a
    /\ open' = open \ (sessions \ {a})
    /\ held' = held \ (sessions \ {a})
    /\ sessions' = {a}
    /\ stage' = IF ctx # "live" THEN "leave" ELSE "authenticate"
    /\ UNCHANGED <<sweptVars, pc, paths, credential, plain, todo, reply, ctxErr, tuneVars,
                   rabbitGraph, parting, attempts, incomplete>>

NothingToSelect ==
    /\ stage = "select"
    /\ sessions = {}
    /\ stage' = "leave"
    /\ UNCHANGED <<transportVars, credential, plain, todo, at, reply, ctxErr, tuneVars,
                   sessions, rabbitGraph, parting, attempts, incomplete>>

\* Mutant: the policy is asked before the mechanism.
WithheldPolicyOnly ==
    IF ~PermitsCredentials(channel[at]) THEN Node("SKIPPED", "POLICY")
    ELSE IF credential = "none" THEN Node("SKIPPED", "INPUT_MISSING") ELSE NoNode

\* Why Authenticate sends nothing, in the order it asks.
Withheld ==
    IF credential = "none" THEN Node("SKIPPED", "INPUT_MISSING")
    ELSE IF at \notin plain THEN Node("UNKNOWN", "MECHANISM_NOT_OFFERED")
    ELSE IF ~PermitsCredentials(channel[at]) THEN Node("SKIPPED", "POLICY")
    ELSE NoNode

Withhold ==
    /\ stage = "authenticate"
    /\ Withheld # NoNode
    /\ auth' = Withheld
    /\ stage' = "leave"
    /\ UNCHANGED <<transportVars, credential, plain, todo, at, reply, ctxErr, tuneVars,
                   sessions, start, opened, parting, attempts, incomplete>>

\* SendStartOk refuses a credential PLAIN cannot carry before it writes.
SendStartOk ==
    /\ stage = "authenticate"
    /\ Withheld = NoNode
    /\ attempts' = IF credential = "usable" THEN attempts + 1 ELSE attempts
    /\ stage' = "auth"
    /\ UNCHANGED <<transportVars, credential, plain, todo, at, reply, ctxErr, tuneVars,
                   sessions, rabbitGraph, parting, incomplete>>

\* Start-Ok is answered: by Tune with an offer, by a refusal, by a challenge
\* (which is not answered), or not at all. The context is read here.
StartOkReturns(r, o) ==
    /\ stage = "auth"
    /\ r = "invalid" <=> credential = "unusable"
    /\ MayReturn(r)
    /\ ctxErr' = ctx
    /\ reply' = IF r = "tune" /\ TuneUnsupported(o) THEN "floor" ELSE r
    /\ offer' = IF r = "tune" THEN o ELSE offer
    /\ stage' = IF r = "tune" /\ ~TuneUnsupported(o) THEN "tuneOk" ELSE "authRead"
    /\ UNCHANGED <<transportVars, credential, plain, todo, at, selected, ceiling, sessions,
                   rabbitGraph, parting, attempts, incomplete>>

\* Tune-Ok has no answer: it is written or it is not.
TuneOkReturns(r) ==
    /\ stage = "tuneOk"
    /\ MayReturn(r)
    /\ reply' = r
    /\ IF r = "accepted"
       THEN /\ selected' = SelectTune(offer)
            /\ ceiling' = negotiated(ceiling, SelectTune(offer) - frameOverhead)
       ELSE UNCHANGED <<selected, ceiling>>
    /\ stage' = "authRead"
    /\ UNCHANGED <<transportVars, credential, plain, todo, at, ctxErr, offer, sessions,
                   rabbitGraph, parting, attempts, incomplete>>

\* The write that fails because the context ended reports the socket's
\* deadline, whichever way the context ended.
TuneFailure(r) == IF r = "interrupted" /\ ctxErr = "live" THEN "timeout" ELSE r

\* The attempt is recorded; only an authenticated session goes on, and only
\* while there is a budget.
RecordAuth ==
    /\ stage = "authRead"
    /\ auth' = classifyAuth(TuneFailure(reply), ctxErr)
    /\ stage' = IF reply = "accepted" /\ ctx = "live" THEN "opening" ELSE "leave"
    /\ UNCHANGED <<transportVars, credential, plain, todo, at, reply, ctxErr, tuneVars,
                   sessions, start, opened, parting, attempts, incomplete>>

-----------------------------------------------------------------------------
(* The virtual host.                                                       *)

OpenReturns(r) ==
    /\ stage = "opening"
    /\ MayReturn(r)
    /\ reply' = r
    /\ ctxErr' = ctx
    /\ stage' = CASE r = "openOk" -> "closing"
                  [] r \in OpenRefusals -> "acking"
                  [] OTHER -> "openRead"
    /\ UNCHANGED <<transportVars, credential, plain, todo, at, tuneVars, sessions,
                   rabbitGraph, parting, attempts, incomplete>>

\* GracefulClose after an open connection, AckClose after a refused one; what
\* becomes of either decides nothing about the step.
GracefulClose(answered) ==
    /\ stage = "closing"
    /\ parting' = IF answered THEN "graceful" ELSE "abrupt"
    /\ stage' = "openRead"
    /\ UNCHANGED <<transportVars, credential, plain, todo, at, reply, ctxErr, tuneVars,
                   sessions, rabbitGraph, attempts, incomplete>>

AckClose ==
    /\ stage = "acking"
    /\ parting' = "acked"
    /\ stage' = "openRead"
    /\ UNCHANGED <<transportVars, credential, plain, todo, at, reply, ctxErr, tuneVars,
                   sessions, rabbitGraph, attempts, incomplete>>

RecordOpen ==
    /\ stage = "openRead"
    /\ opened' = classifyOpen(reply, ctxErr)
    /\ stage' = "leave"
    /\ UNCHANGED <<transportVars, credential, plain, todo, at, reply, ctxErr, tuneVars,
                   sessions, start, auth, parting, attempts, incomplete>>

-----------------------------------------------------------------------------
(* The deferred Closes, and the Result.                                    *)

RabbitRecorded == SweepNodes \cup {auth, opened} \cup {start[a] : a \in Addr}

Leave ==
    /\ stage = "leave"
    /\ stage' = "done"
    /\ pc' = "closed"
    /\ paths' = [a \in Addr |-> CloseConn(paths[a])]
    /\ open' = (open \ {a \in Addr : Connected(paths[a])}) \ sessions
    /\ held' = held \ sessions
    /\ sessions' = {}
    /\ incomplete' = incompleteRun(RabbitRecorded, FALSE)
    /\ UNCHANGED <<sweptVars, credential, plain, todo, at, reply, ctxErr, tuneVars,
                   rabbitGraph, parting, attempts>>

-----------------------------------------------------------------------------
RabbitInit ==
    /\ TransportInit
    /\ ~params.collides /\ params.parentKnown
    /\ credential \in {"none", "usable", "unusable"}
    /\ plain \in SUBSET Addr
    /\ stage = "sweep"
    /\ todo = {}
    /\ at = CHOOSE a \in Addr : TRUE
    /\ reply = "started"
    /\ ctxErr = "live"
    /\ offer = 0
    /\ selected = 0
    /\ ceiling = preTunePayloadMax
    /\ sessions = {}
    /\ start = [a \in Addr |-> NoNode]
    /\ auth = NoNode
    /\ opened = NoNode
    /\ parting = "none"
    /\ attempts = 0
    /\ incomplete = FALSE

Starting ==
    \/ BeginPaths \/ RecordStart \/ PathsDone
    \/ \E a \in Addr : SendHeader(a)
    \/ \E r \in {"started"} \cup Broken : StartReturns(r)

Authenticating ==
    \/ NothingToSelect \/ Withhold \/ SendStartOk \/ RecordAuth
    \/ \E a \in Addr : Select(a)
    \/ \E o \in FrameSizes : StartOkReturns("tune", o)
    \/ \E r \in {"secure", "invalid"} \cup AuthRefusals \cup Broken : StartOkReturns(r, 0)
    \/ \E r \in {"accepted"} \cup Broken : TuneOkReturns(r)

Opening ==
    \/ AckClose \/ RecordOpen
    \/ \E r \in {"openOk"} \cup OpenRefusals \cup Broken : OpenReturns(r)
    \/ \E answered \in BOOLEAN : GracefulClose(answered)

\* Once the run has returned, nothing reads its context.
Transporting == stage # "done" /\ RunStep /\ UNCHANGED rabbitVars

RabbitOver == (stage = "done" \/ pc = "failed") /\ UNCHANGED rabbitRunVars

RabbitNext == Transporting \/ Starting \/ Authenticating \/ Opening \/ Leave \/ RabbitOver

RabbitSpec == RabbitInit /\ [][RabbitNext]_rabbitRunVars

-----------------------------------------------------------------------------
(* Properties.                                                             *)

\* The password leaves svcdoctor at most once in a run, only to an endpoint
\* that was verified by the handshake of that connection and that offered
\* PLAIN, and the virtual host is asked for only of a broker that took it.
RabbitCredentialDiscipline ==
    /\ attempts <= 1
    /\ attempts = 1 => /\ credential = "usable" /\ at \in plain
                       /\ tls[at].state = "PASS" /\ ~params.insecure
    /\ opened # NoNode => attempts = 1 /\ auth.state = "PASS"

\* After Tune-Ok the reader accepts every frame the broker may now send, the
\* size lies within both sides' limits, and no offer without a limit is refused.
TuneIsHonoured ==
    /\ selected # 0 => /\ selected - frameOverhead <= ceiling
                       /\ selected >= specFrameMinSize
                       /\ offer # 0 => selected <= offer
    /\ auth.class = "UNSUPPORTED_CAPABILITY" => offer \in 1..(specFrameMinSize - 1)

\* No socket is open when the run is over, and while it goes on each belongs
\* to the sweep or to a session.
RabbitSocketsClosed ==
    /\ stage = "done" => open = {}
    /\ stage \notin {"sweep", "done"} =>
         \A a \in open : (a \in held) # Connected(paths[a])
=============================================================================
