---------------------------- MODULE KafkaJourney ----------------------------
(***************************************************************************)
(* DiagnoseKafka: the bootstrap endpoint's sweep, ApiVersions and the SASL *)
(* handshake on every path, one path taken through authentication and      *)
(* Metadata, and then a credential-free transport sweep of every endpoint  *)
(* the cluster advertised. While a sweep of an advertised endpoint runs,   *)
(* the variables of Transport describe that sweep. The bootstrap nodes are *)
(* let go of once Metadata passed, since nothing reads them after that.    *)
(***************************************************************************)
EXTENDS Journey, Sequences

CONSTANT Responses  \* the advertisements a Metadata response may lead to

\* What an advertised endpoint is: a name, an address, one no client can
\* connect to (no host, or a port out of range), or one that is usable by that
\* rule and that svcdoctor's own probes refuse (a zone, a space in the name).
Kinds == {"name", "literal", "unusable", "unmeasurable"}

\* The list advertisementsOf leaves: repetitions are gone, and so is an entry no
\* evidence node can be about. Each kind stands for one endpoint.
ASSUME ResponsesAssumption ==
    /\ Responses \subseteq Seq(Kinds)
    /\ \A s \in Responses : \A i, j \in 1..Len(s) : s[i] = s[j] => i = j

VARIABLES
    mechanism,    \* the SASL mechanism the run proposes
    credential,   \* "none", or whether SCRAM can prepare it
    stage,        \* where measureKafka is
    todo,         \* paths the current stage has not come to yet
    at,           \* the path in hand, then the selected one
    reply,        \* how the exchange in flight ended
    apiVersions,  \* the kafka.api_versions node of each path
    handshake,    \* the kafka.sasl_handshake node of each path
    auth,         \* the kafka.sasl_authenticate node
    metadata,     \* the kafka.metadata node
    secrets,      \* messages derived from the secret and written
    queue,        \* advertisements MeasureAdvertised has not come to
    advertised,   \* the advertisements recorded
    swept,        \* what the sweep of each advertised endpoint left
    kept,         \* the MetadataResult holds the bootstrap connection
    incomplete    \* what the Result says

kafkaInput == <<mechanism, credential>>
kafkaGraph == <<apiVersions, handshake, auth, metadata>>
topology   == <<queue, advertised, swept, kept>>
kafkaVars  == <<kafkaInput, stage, todo, at, reply, kafkaGraph, secrets, topology, incomplete>>
journeyVars == <<transportVars, kafkaVars>>
sweepDone  == <<params, clockVars, pc, heard, sweepVars, graphVars, conn, session, channel>>

NoNodes  == [a \in Addr |-> NoNode]
NotSwept == [done |-> FALSE, located |-> {}, dns |-> NoNode, tcp |-> NoNodes, tls |-> NoNodes]

-----------------------------------------------------------------------------
(* The credential-free stages on every path.                               *)

Goes(from, to) ==
    /\ stage = from
    /\ stage' = to
    /\ UNCHANGED <<kafkaInput, incomplete>>

\* A blocking exchange comes back in stage `from`.
Comes(from, to, r) ==
    /\ Goes(from, to)
    /\ MayReturn(r)
    /\ reply' = r
    /\ UNCHANGED <<transportVars, todo, at, kafkaGraph, secrets, topology>>

CloseAt == open' = open \ {at} /\ held' = held \ {at}

IsFirst(a) == a \in todo /\ \A b \in todo : a <= b

BeginPaths ==
    /\ pc = "returned"
    /\ Goes("sweep", "versions")
    /\ todo' = {a \in Addr : Connected(paths[a])}
    /\ UNCHANGED <<transportVars, at, reply, kafkaGraph, secrets, topology>>

\* exchange takes the next path's connection, whatever the budget says.
AskVersions(a) ==
    /\ Goes("versions", "asking")
    /\ IsFirst(a)
    /\ todo' = todo \ {a}
    /\ at' = a
    /\ paths' = [paths EXCEPT ![a] = TakeConn(@)]
    /\ held' = held \cup {a}
    /\ UNCHANGED <<sweepDone, open, reply, kafkaGraph, secrets, topology>>

VersionsReturn(r) == Comes("asking", "asked", r)

\* classify, of the four Kafka observations: an answer first, the broker's
\* error code included, and then what every service shares. TARGET stands for
\* any class a broker's failure may be given.
classifyAnswer(r, ended) ==
    CASE r = "ok"    -> Node("PASS", "NONE")
      [] r = "error" -> Node("FAIL", "TARGET")
      [] OTHER       -> classifyBroken(r, ended)

\* A broker that answered with an error code keeps its session.
RecordVersions ==
    /\ Goes("asked", "versions")
    /\ apiVersions' = [apiVersions EXCEPT ![at] = classifyAnswer(reply, ctx)]
    /\ IF reply \in {"ok", "error"} THEN UNCHANGED <<open, held>> ELSE CloseAt
    /\ UNCHANGED <<sweepDone, paths, todo, at, reply, handshake, auth, metadata, secrets,
                   topology>>

VersionsDone ==
    /\ todo = {}
    /\ Goes("versions", "mechanisms")
    /\ todo' = held
    /\ UNCHANGED <<transportVars, at, reply, kafkaGraph, secrets, topology>>

ProposeMechanism(a) ==
    /\ Goes("mechanisms", "proposing")
    /\ IsFirst(a)
    /\ todo' = todo \ {a}
    /\ at' = a
    /\ UNCHANGED <<transportVars, reply, kafkaGraph, secrets, topology>>

MechanismReturns(r) == Comes("proposing", "proposed", r)

\* Only a path whose broker accepted the mechanism goes on.
RecordHandshake ==
    /\ Goes("proposed", "mechanisms")
    /\ handshake' = [handshake EXCEPT ![at] = classifyAnswer(reply, ctx)]
    /\ IF reply = "ok" THEN UNCHANGED <<open, held>> ELSE CloseAt
    /\ UNCHANGED <<sweepDone, paths, todo, at, reply, apiVersions, auth, metadata, secrets,
                   topology>>

-----------------------------------------------------------------------------
(* One path past the credential boundary.                                  *)

NothingToSelect ==
    /\ todo = {} /\ held = {}
    /\ Goes("mechanisms", "leave")
    /\ UNCHANGED <<transportVars, todo, at, reply, kafkaGraph, secrets, topology>>

\* selectBootstrapPath: the canonical minimum; the others are closed. An ended
\* budget stops here and records nothing.
Select(a) ==
    /\ todo = {}
    /\ IsChosen(a, held, held, TRUE)
    /\ Goes("mechanisms", IF ctx = "live" THEN "authenticate" ELSE "leave")
    /\ at' = a
    /\ open' = IF ctx = "live" THEN {a} ELSE {}
    /\ held' = IF ctx = "live" THEN {a} ELSE {}
    /\ UNCHANGED <<sweepDone, paths, todo, reply, kafkaGraph, secrets, topology>>

MayPresent ==
    /\ mechanism # "foreign" /\ credential # "none"
    /\ PermitsCredentials(channel[at])

\* The mechanism guard, the missing credential and the policy, in that order.
Refusal ==
    CASE mechanism = "foreign" -> Node("UNKNOWN", "MECHANISM_UNSUPPORTED")
      [] mechanism # "foreign" /\ credential = "none" -> Node("SKIPPED", "INPUT_MISSING")
      [] OTHER -> Node("SKIPPED", "POLICY")

Withhold ==
    /\ Goes("authenticate", "leave")
    /\ ~MayPresent
    /\ auth' = Refusal
    /\ CloseAt
    /\ UNCHANGED <<sweepDone, paths, todo, at, reply, apiVersions, handshake, metadata, secrets,
                   topology>>

\* wire.Authenticate with PLAIN: the secret itself goes out.
PresentPLAIN ==
    /\ MayPresent /\ mechanism = "PLAIN"
    /\ Goes("authenticate", "authenticating")
    /\ secrets' = secrets + 1
    /\ UNCHANGED <<transportVars, todo, at, reply, kafkaGraph, topology>>

\* With SCRAM an identity or password it cannot prepare is refused before a
\* byte is written; otherwise client-first goes out.
BeginSCRAM ==
    /\ MayPresent /\ mechanism = "SCRAM"
    /\ Goes("authenticate", IF credential = "unprepared" THEN "authRead" ELSE "serverFirst")
    /\ reply' = IF credential = "unprepared" THEN "limit" ELSE reply
    /\ UNCHANGED <<transportVars, todo, at, kafkaGraph, secrets, topology>>

\* Continue: the proof answers a valid challenge and nothing else.
ServerFirst(r) ==
    /\ MayReturn(r)
    /\ Goes("serverFirst", IF r = "challenge" THEN "authenticating" ELSE "authRead")
    /\ reply' = IF r = "challenge" THEN reply ELSE r
    /\ secrets' = IF r = "challenge" THEN secrets + 1 ELSE secrets
    /\ UNCHANGED <<transportVars, todo, at, kafkaGraph, topology>>

\* "ok" is error code zero and, with SCRAM, the expected signature as well.
AuthReturns(r) ==
    /\ r \in {"mismatch", "limit"} => mechanism = "SCRAM"
    /\ Comes("authenticating", "authRead", r)

RecordAuth ==
    /\ Goes("authRead", IF reply = "ok" THEN "metadata" ELSE "leave")
    /\ auth' = classifyAnswer(reply, ctx)
    /\ IF reply = "ok" THEN UNCHANGED <<open, held>> ELSE CloseAt
    /\ UNCHANGED <<sweepDone, paths, todo, at, reply, apiVersions, handshake, metadata, secrets,
                   topology>>

MetadataReturns(r) == Comes("metadata", "described", r)

MetadataBroke ==
    /\ reply # "ok"
    /\ Goes("described", "leave")
    /\ metadata' = classifyAnswer(reply, ctx)
    /\ CloseAt
    /\ UNCHANGED <<sweepDone, paths, todo, at, reply, apiVersions, handshake, auth, secrets,
                   topology>>

\* The advertisements are recorded and the MetadataResult keeps the connection:
\* `kept` stands for it from here on, `open` and `held` for the coming sweeps.
MetadataObtained(brokers) ==
    /\ reply = "ok"
    /\ Goes("described", "advertised")
    /\ metadata' = classifyAnswer(reply, ctx)
    /\ queue' = brokers
    /\ advertised' = {brokers[i] : i \in 1..Len(brokers)}
    /\ kept' = TRUE
    /\ open' = open \ {at} /\ held' = held \ {at}
    /\ apiVersions' = NoNodes /\ handshake' = NoNodes
    /\ UNCHANGED <<sweepDone, paths, todo, at, reply, auth, secrets, swept>>

-----------------------------------------------------------------------------
(* MeasureAdvertised.                                                      *)

Advance == queue' = Tail(queue) /\ UNCHANGED <<advertised, kept>>

SkipUnusable ==
    /\ queue # <<>> /\ ctx = "live" /\ Head(queue) = "unusable"
    /\ Goes("advertised", "advertised")
    /\ Advance
    /\ UNCHANGED <<transportVars, todo, at, reply, kafkaGraph, secrets, swept>>

\* transport.Run with the run's TLS plan, without its server name.
BeginAdvertised(located0) ==
    /\ queue # <<>> /\ ctx = "live" /\ Head(queue) \in {"name", "literal"}
    /\ located0 \in IF Head(queue) = "literal" THEN {{a} : a \in Addr} ELSE {{}}
    /\ Goes("advertised", "measuring")
    /\ params' = [params EXCEPT !.literal = Head(queue) = "literal", !.usableName = TRUE]
    /\ pc' = IF Head(queue) = "literal" THEN "sweep" ELSE "lookup"
    /\ located' = located0 /\ pending' = located0
    /\ step' = stepContext(ctx) /\ heard' = "ok"
    /\ dns' = NoNode /\ tcp' = NoNodes /\ tls' = NoNodes /\ blocked' = {}
    /\ conn' = Nothing /\ session' = Nothing
    /\ paths' = [a \in Addr |-> Nothing]
    /\ channel' = [a \in Addr |-> "unknown"]
    /\ UNCHANGED <<ctx, cur, open, held, todo, at, reply, kafkaGraph, secrets, topology>>

\* Mutant: the sweeps are closed together, after the last one.
EndAdvertisedOpen ==
    /\ pc = "returned"
    /\ Goes("measuring", "advertised")
    /\ Advance
    /\ swept' = [swept EXCEPT ![Head(queue)] =
                   [done |-> TRUE, located |-> located, dns |-> dns, tcp |-> tcp, tls |-> tls]]
    /\ UNCHANGED <<transportVars, todo, at, reply, kafkaGraph, secrets>>

\* The sweep came back: its connections are closed before the next begins.
EndAdvertised ==
    /\ pc = "returned"
    /\ Goes("measuring", "advertised")
    /\ Advance
    /\ swept' = [swept EXCEPT ![Head(queue)] =
                   [done |-> TRUE, located |-> located, dns |-> dns, tcp |-> tcp, tls |-> tls]]
    /\ paths' = [a \in Addr |-> CloseConn(paths[a])]
    /\ open' = open \ {a \in Addr : Connected(paths[a])}
    /\ UNCHANGED <<sweepDone, held, todo, at, reply, kafkaGraph, secrets>>

\* A host the probes refuse fails the sweep before it starts, and the run with
\* it; the deferred closes release the bootstrap connection.
AdvertisedRefused ==
    /\ queue # <<>> /\ ctx = "live" /\ Head(queue) = "unmeasurable"
    /\ Goes("advertised", "failed")
    /\ kept' = FALSE
    /\ UNCHANGED <<transportVars, todo, at, reply, kafkaGraph, secrets, queue, advertised, swept>>

AdvertisedDone ==
    /\ queue = <<>> \/ ctx # "live"
    /\ Goes("advertised", "leave")
    /\ UNCHANGED <<transportVars, todo, at, reply, kafkaGraph, secrets, topology>>

-----------------------------------------------------------------------------
(* incompleteKafkaRun.                                                     *)

reachedTransport(s, a) == s.tcp[a].state = "PASS" /\ (s.tls[a] # NoNode => s.tls[a].state = "PASS")

Connections(s) == {a \in Addr : s.tcp[a] # NoNode}

\* Mutant: one positively failed path settles the endpoint.
resolvedByAnyFailure(s) ==
    /\ s.done
    /\ ~CutShort(s.dns)
    /\ \/ s.dns.state = "FAIL"
       \/ \E a \in Connections(s) :
            reachedTransport(s, a) \/ s.tcp[a].state = "FAIL" \/ s.tls[a].state = "FAIL"

\* One usable path resolves an advertisement; a negative needs a lookup that
\* failed, or connections none of which svcdoctor's own budget left open.
advertisementResolved(s) ==
    /\ s.done
    /\ ~CutShort(s.dns)
    /\ \/ s.dns.state = "FAIL"
       \/ \E a \in Connections(s) : reachedTransport(s, a)
       \/ /\ Connections(s) # {}
          /\ \A a \in Connections(s) : ~CutShort(s.tcp[a]) /\ ~CutShort(s.tls[a])

Recorded ==
    SweepNodes \cup {auth, metadata} \cup {apiVersions[a] : a \in Addr}
               \cup {handshake[a] : a \in Addr}

Usable == advertised \ {"unusable"}

incompleteKafkaRun ==
    \/ ctx # "live"
    \/ metadata.state # "PASS" /\ \E n \in Recorded : CutShort(n)
    \/ metadata.state = "PASS" /\ \E b \in Usable : ~advertisementResolved(swept[b])

\* The deferred closes, and the Result.
Leave ==
    /\ stage = "leave"
    /\ stage' = "done"
    /\ kept' = FALSE
    /\ incomplete' = incompleteKafkaRun
    /\ UNCHANGED <<transportVars, kafkaInput, todo, at, reply, kafkaGraph, secrets, queue,
                   advertised, swept>>

KafkaInit ==
    /\ TransportInit
    /\ ~params.collides /\ params.parentKnown
    /\ (~params.usableName => params.tls) /\ (params.insecure => params.tls)
    /\ mechanism \in {"PLAIN", "SCRAM", "foreign"}
    /\ credential \in {"none", "unprepared", "usable"}
    /\ stage = "sweep"
    /\ todo = {}
    /\ at = CHOOSE a \in Addr : TRUE
    /\ reply = "ok"
    /\ apiVersions = NoNodes
    /\ handshake = NoNodes
    /\ auth = NoNode
    /\ metadata = NoNode
    /\ secrets = 0
    /\ queue = <<>>
    /\ advertised = {}
    /\ swept = [b \in Kinds |-> NotSwept]
    /\ kept = FALSE
    /\ incomplete = FALSE

Discovering ==
    \/ BeginPaths \/ RecordVersions \/ VersionsDone \/ RecordHandshake
    \/ \E a \in Addr : AskVersions(a) \/ ProposeMechanism(a)
    \/ \E r \in {"ok", "error"} \cup Broken : VersionsReturn(r) \/ MechanismReturns(r)

Authenticating ==
    \/ NothingToSelect \/ Withhold \/ PresentPLAIN \/ BeginSCRAM \/ RecordAuth
    \/ \E a \in Addr : Select(a)
    \/ \E r \in {"challenge", "limit", "error"} \cup Broken : ServerFirst(r)
    \/ \E r \in {"ok", "error", "mismatch", "limit"} \cup Broken : AuthReturns(r)

Describing ==
    \/ MetadataBroke
    \/ \E r \in {"ok"} \cup Broken : MetadataReturns(r)
    \/ \E brokers \in Responses : MetadataObtained(brokers)

Measuring ==
    \/ SkipUnusable \/ EndAdvertised \/ AdvertisedRefused \/ AdvertisedDone
    \/ \E located0 \in SUBSET Addr : BeginAdvertised(located0)

\* Once the run has returned, nothing reads its context.
Transporting == stage \notin {"done", "failed"} /\ RunStep /\ UNCHANGED kafkaVars

KafkaOver == (stage \in {"done", "failed"} \/ pc = "failed") /\ UNCHANGED journeyVars

KafkaNext ==
    Transporting \/ Discovering \/ Authenticating \/ Describing \/ Measuring \/ Leave \/ KafkaOver

KafkaSpec == KafkaInit /\ [][KafkaNext]_journeyVars

-----------------------------------------------------------------------------
(* Properties.                                                             *)

\* ADR 0028, 0030 and 0050: one message derived from the secret at most, over
\* a channel this connection's handshake verified, to a broker that accepted
\* the mechanism, and none once an advertised endpoint is known.
SecretDiscipline ==
    /\ secrets <= 1
    /\ stage \in {"authenticating", "authRead", "metadata", "described"} /\ secrets = 1 =>
         /\ credential # "none" /\ mechanism # "foreign"
         /\ tls[at].state = "PASS" /\ ~params.insecure
         /\ handshake[at].state = "PASS"
    /\ mechanism = "SCRAM" /\ credential = "unprepared" => secrets = 0
    /\ advertised # {} => secrets = 1 /\ auth.state = "PASS"

\* ADR 0050 and 0021: the sockets of one advertised endpoint are gone before
\* the next is swept, the bootstrap connection stays open beside them, and
\* nothing is open when the run has left, by whichever way.
AdvertisedSocketsClosed ==
    /\ stage \in {"advertised", "leave", "done", "failed"} => open = {} /\ held = {}
    /\ stage \in {"done", "failed"} => ~kept
    /\ stage \in {"advertised", "measuring"} => kept /\ held = {}

Reached(s) == \E a \in s.located : s.tls[a].state = "PASS"

\* ADR 0051: a run that calls itself complete knows, of every usable endpoint
\* the cluster advertised, that some address of it completed TLS, or that its
\* name failed, or that each of its addresses failed on its own account; and a
\* run whose context lives calls itself incomplete only if svcdoctor's own
\* budget left a node open that no working path makes irrelevant.
CompletenessIsExact ==
    stage = "done" =>
        /\ ~incomplete /\ metadata.state = "PASS" =>
             \A b \in Usable :
                 \/ Reached(swept[b])
                 \/ swept[b].dns.state = "FAIL"
                 \/ /\ swept[b].located # {}
                    /\ \A a \in swept[b].located :
                         swept[b].tcp[a].state = "FAIL" \/ swept[b].tls[a].state = "FAIL"
        /\ ~incomplete /\ metadata.state # "PASS" =>
             /\ \A a \in located : tcp[a].state # "SKIPPED"
             /\ (\E a \in Addr : handshake[a].state = "PASS") => auth # NoNode
        /\ incomplete /\ ctx = "live" =>
             \/ metadata.state # "PASS"
             \/ \E b \in Usable : ~Reached(swept[b]) /\
                  \E n \in {swept[b].dns} \cup {swept[b].tcp[a] : a \in Addr}
                                          \cup {swept[b].tls[a] : a \in Addr} : CutShort(n)

\* "Every diagnostic outcome is a report": once the cluster has described
\* itself the run ends in a report, whatever it advertised.
TopologyIsReported == metadata.state = "PASS" => stage # "failed"
=============================================================================
