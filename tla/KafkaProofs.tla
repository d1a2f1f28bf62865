----------------------------- MODULE KafkaProofs -----------------------------
(***************************************************************************)
(* The secret, the sockets and the verdict on completeness of a Kafka run, *)
(* for any set of addresses, any advertisement and whatever the brokers    *)
(* answer. The sweep's invariant holds of the bootstrap sweep and of each  *)
(* advertised endpoint's in turn; beside it the inductive invariant says   *)
(* which connections the run has, what is decided before the secret is     *)
(* sent, and what is known of the endpoints that were already swept.       *)
(***************************************************************************)
EXTENDS KafkaRules, TransportProofs

Versioning == {"versions", "asking", "asked"}
Proposing  == {"mechanisms", "proposing", "proposed"}
Bootstrap  == {"authenticating", "authRead", "metadata", "described"}
Selected   == {"authenticate", "serverFirst"} \cup Bootstrap
Topology   == {"advertised", "measuring"}
Final      == {"leave", "done", "failed"}

KafkaStages == {"sweep"} \cup Versioning \cup Proposing \cup Selected \cup Topology \cup Final

KafkaNodes ==
    [state : {"NONE", "PASS", "FAIL", "UNKNOWN", "SKIPPED"},
     class : {"NONE", "TARGET", "CANCELLED", "LOCAL_TIMEOUT", "UNSUPPORTED",
              "MECHANISM_UNSUPPORTED", "INPUT_MISSING", "POLICY"}]

Sweeps == [done : BOOLEAN, located : SUBSET Addr, dns : Nodes, tcp : [Addr -> Nodes],
           tls : [Addr -> Nodes]]

KafkaTypeOK ==
    /\ mechanism \in {"PLAIN", "SCRAM", "foreign"}
    /\ credential \in {"none", "unprepared", "usable"}
    /\ stage \in KafkaStages
    /\ todo \subseteq Addr /\ at \in Addr
    /\ handshake \in [Addr -> KafkaNodes]
    /\ auth \in KafkaNodes /\ metadata \in KafkaNodes
    /\ secrets \in {0, 1}
    /\ queue \in Seq(Kinds) /\ advertised \subseteq Kinds
    /\ swept \in [Kinds -> Sweeps]
    /\ kept \in BOOLEAN

\* Which connections the run has, stage by stage.
SocketInv ==
    /\ stage = "sweep" => held = {} /\ pc # "closed"
    /\ stage \notin {"sweep", "measuring"} => pc = "returned"
    /\ stage = "measuring" => pc \notin {"failed", "closed"}
    /\ stage \in Versioning => \A a \in Addr : Connected(paths[a]) <=> a \in todo
    /\ stage \notin {"sweep", "measuring"} \cup Versioning => \A a \in Addr : ~Connected(paths[a])
    /\ stage \in {"asking", "asked", "proposing", "proposed"} => at \in held /\ at \notin todo
    /\ stage \in Proposing => todo \subseteq held
    /\ stage \in Selected => held = {at}
    /\ stage \in Topology \cup Final => held = {}
    /\ stage \in Topology => kept
    /\ stage \in {"done", "failed"} => ~kept

\* No sweep of an advertised endpoint is refused.
ParamsInv ==
    /\ ~params.collides /\ params.parentKnown
    /\ stage = "measuring" => params.usableName

\* The broker of a connection still held past its handshake accepted the
\* mechanism, and there is no other that did.
Answered(a) == a \in held \ (todo \cup IF stage \in {"proposing", "proposed"} THEN {at} ELSE {})

HandshakeInv ==
    /\ stage \in {"sweep"} \cup Versioning => \A a \in Addr : handshake[a].state # "PASS"
    /\ stage \in Proposing =>
         \A a \in Addr : handshake[a].state = "PASS" <=> Answered(a)
    /\ stage \in Selected => handshake[at].state = "PASS"

\* What is decided before the secret is sent, and what its acceptance leads to.
SecretInv ==
    /\ stage \in {"sweep", "authenticate", "serverFirst"} \cup Versioning \cup Proposing => secrets = 0
    /\ stage = "serverFirst" => credential = "usable" /\ mechanism = "SCRAM"
    /\ stage \in {"serverFirst"} \cup Bootstrap /\ (stage = "serverFirst" \/ secrets = 1) =>
         credential # "none" /\ mechanism # "foreign" /\ channel[at] = "tls_verified"
    /\ stage = "authenticating" => secrets = 1
    /\ stage = "authRead" /\ reply = "ok" => secrets = 1
    /\ stage \in {"metadata", "described"} \cup Topology => secrets = 1 /\ auth.state = "PASS"
    /\ mechanism = "SCRAM" /\ credential = "unprepared" => secrets = 0
    /\ advertised # {} => secrets = 1 /\ auth.state = "PASS" /\ stage \in Topology \cup Final

\* The run goes on to the advertised endpoints exactly if Metadata passed.
MetadataInv ==
    /\ metadata.state = "PASS" => params.tls /\ stage \in Topology \cup Final
    /\ stage \in Topology => metadata.state = "PASS"
    /\ stage \in Final /\ ctx = "live" /\ metadata.state # "PASS" =>
         \/ auth # NoNode
         \/ \A a \in Addr : handshake[a].state # "PASS"

\* What the finished sweep of an endpoint that asked for TLS says.
TruthfulSweep(s) ==
    /\ Explicit(s.dns) /\ s.dns.state # "SKIPPED"
    /\ s.dns.state \in {"FAIL", "UNKNOWN"} => s.located = {}
    /\ s.located = {} => s.dns.state \in {"FAIL", "UNKNOWN"}
    /\ \A a \in Addr :
         /\ Explicit(s.tcp[a]) /\ Explicit(s.tls[a])
         /\ s.tcp[a] # NoNode <=> a \in s.located
         /\ s.tls[a] # NoNode <=> a \in s.located
         /\ s.tls[a].state = "SKIPPED" <=> a \in s.located /\ s.tcp[a].state # "PASS"
         /\ s.tcp[a].state = "SKIPPED" => ctx # "live" /\ s.tcp[a].class \in BudgetClasses
         /\ s.tls[a].state = "SKIPPED" => s.tls[a].class = "PREREQUISITE"

Queued(b) == \E i \in 1..Len(queue) : queue[i] = b

\* Every usable endpoint was swept or still waits, unless the budget ended.
SweptInv ==
    /\ \A b \in Kinds : swept[b].done => TruthfulSweep(swept[b])
    /\ stage = "measuring" => queue # <<>>
    /\ stage \in Topology => \A b \in Usable : swept[b].done \/ Queued(b)
    /\ stage \in {"leave", "done"} /\ metadata.state = "PASS" /\ ctx = "live" =>
         \A b \in Usable : swept[b].done
    /\ stage = "done" => (incomplete <=> incompleteKafkaRun)

KafkaInv ==
    /\ SweepInv /\ EvidenceInv
    /\ KafkaTypeOK /\ SocketInv /\ ParamsInv /\ HandshakeInv /\ SecretInv /\ MetadataInv /\ SweptInv

-----------------------------------------------------------------------------
(* Classifications, and the state a step leaves alone.                     *)

LEMMA AnswerNode ==
    ASSUME NEW r, NEW e
    PROVE  /\ classifyAnswer(r, e) \in KafkaNodes
           /\ classifyAnswer(r, e).state = "PASS" <=> r = "ok"
           /\ classifyAnswer(r, e) # NoNode
  BY DEF classifyAnswer, classifyBroken, KafkaNodes, Node, NoNode

LEMMA OtherNodes ==
    /\ NoNode \in KafkaNodes /\ NoNode.state = "NONE"
    /\ NoNodes \in [Addr -> KafkaNodes] /\ NoNodes \in [Addr -> Nodes]
    /\ \A a \in Addr : NoNodes[a] = NoNode
    /\ Refusal \in KafkaNodes /\ Refusal # NoNode
    /\ NotSwept \in Sweeps /\ ~NotSwept.done
<1>1. NoNode \in KafkaNodes /\ NoNode \in Nodes /\ NoNode.state = "NONE"
    BY NodeFacts DEF NoNode, KafkaNodes
<1>2. /\ NoNodes \in [Addr -> KafkaNodes] /\ NoNodes \in [Addr -> Nodes]
      /\ \A a \in Addr : NoNodes[a] = NoNode
    BY <1>1 DEF NoNodes
<1>3. Refusal \in KafkaNodes /\ Refusal # NoNode
    BY DEF Refusal, Node, NoNode, KafkaNodes
<1>4. NotSwept \in Sweeps /\ ~NotSwept.done
    BY <1>1, <1>2 DEF NotSwept, Sweeps
<1> QED
    BY <1>1, <1>2, <1>3, <1>4

LEMMA QuietKeepsSweep ==
    ASSUME SweepInv, EvidenceInv, UNCHANGED transportVars
    PROVE  /\ SweepInv' /\ EvidenceInv'
           /\ UNCHANGED <<params, ctx, pc, paths, channel, held, open, located, dns, tcp, tls>>
<1>1. UNCHANGED <<params, ctx, pc, heard, paths, channel, held, open, located, dns, tcp, tls>>
    BY DEF transportVars, clockVars, sweepVars, graphVars, ownerVars
<1> QED
    BY <1>1, SweepQuiet DEF EvidenceInv

LEMMA EvidenceStays ==
    ASSUME EvidenceInv, UNCHANGED <<ctx, pc, heard, located, dns, tcp, tls>>
    PROVE  EvidenceInv'
  BY DEF EvidenceInv

\* A connection given up before anything was advertised, or past it.
LEMMA GivingUpKeepsSweep ==
    ASSUME KafkaInv, pc = "returned", UNCHANGED <<sweepDone, paths>>, NEW S,
           \A a \in S : a \in Addr => ~Connected(paths[a]), open' = open \ S, held' = held \ S
    PROVE  /\ SweepInv' /\ EvidenceInv'
           /\ UNCHANGED <<params, ctx, pc, channel>>
<1>1. GivesUp(S) /\ JourneyKeeps
    BY DEF GivesUp, JourneyKeeps, sweepDone
<1>2. SweepInv'
    BY <1>1, SweepGivesUp DEF KafkaInv
<1> QED
    BY <1>2, EvidenceStays DEF KafkaInv, sweepDone, clockVars, sweepVars, graphVars

\* Nothing is known of an advertised endpoint until one was swept.
LEMMA SweptStays ==
    ASSUME SweptInv, UNCHANGED <<ctx, swept>>, stage' \notin Topology \cup {"done"},
           stage' = "leave" => metadata'.state # "PASS"
    PROVE  SweptInv'
  BY DEF SweptInv, TruthfulSweep, Topology

-----------------------------------------------------------------------------
(* The invariant.                                                          *)

LEMMA KafkaInvInit == KafkaInit => KafkaInv
<1> SUFFICES ASSUME KafkaInit PROVE KafkaInv
    OBVIOUS
<1>1. SweepInv /\ EvidenceInv /\ held = {} /\ pc # "closed"
    BY SweepInit, EvidenceInit DEF KafkaInit, TransportInit
<1>2. at \in Addr
    BY AddrAssumption DEF KafkaInit
<1>3. KafkaTypeOK
  <2>1. queue \in Seq(Kinds) /\ advertised \subseteq Kinds /\ secrets \in {0, 1}
      BY DEF KafkaInit
  <2>2. swept \in [Kinds -> Sweeps]
      BY OtherNodes DEF KafkaInit
  <2>3. handshake \in [Addr -> KafkaNodes] /\ auth \in KafkaNodes /\ metadata \in KafkaNodes
      BY OtherNodes DEF KafkaInit
  <2> QED
      BY <1>2, <2>1, <2>2, <2>3 DEF KafkaInit, KafkaTypeOK, KafkaStages
<1>4. SocketInv /\ ParamsInv
    BY <1>1
    DEF KafkaInit, SocketInv, ParamsInv, Versioning, Proposing, Selected, Bootstrap, Topology,
        Final
<1>5. HandshakeInv /\ SecretInv /\ MetadataInv
    BY OtherNodes
    DEF KafkaInit, HandshakeInv, SecretInv, MetadataInv, Versioning, Proposing, Selected,
        Bootstrap, Topology, Final
<1>6. SweptInv
    BY OtherNodes DEF KafkaInit, SweptInv, Topology
<1> QED
    BY <1>1, <1>3, <1>4, <1>5, <1>6 DEF KafkaInv

\* An exchange begins or comes back before the secret is sent, and no
\* connection changes hands.
LEMMA DiscoveryMovesOn ==
    ASSUME KafkaInv, KafkaTypeOK', HandshakeInv',
           UNCHANGED <<transportVars, kafkaInput, auth, metadata, secrets, topology>>,
           \/ stage = "asking" /\ stage' = "asked" /\ UNCHANGED <<todo, at>>
           \/ stage = "versions" /\ stage' = "mechanisms" /\ todo = {} /\ todo' = held
           \/ stage = "mechanisms" /\ stage' = "proposing" /\ at' \in todo /\ todo' = todo \ {at'}
           \/ stage = "proposing" /\ stage' = "proposed" /\ UNCHANGED <<todo, at>>
    PROVE  KafkaInv'
<1> USE DEF Versioning, Proposing, Selected, Bootstrap, Topology, Final, kafkaInput, topology
<1>1. /\ SweepInv' /\ EvidenceInv'
      /\ UNCHANGED <<params, ctx, pc, paths, channel, held, open, located, dns, tcp, tls>>
    BY QuietKeepsSweep DEF KafkaInv
<1>2. SocketInv' /\ ParamsInv'
    BY <1>1 DEF KafkaInv, SocketInv, ParamsInv
<1>3. SecretInv' /\ MetadataInv'
    BY <1>1 DEF KafkaInv, SecretInv, MetadataInv
<1>4. SweptInv'
    BY <1>1, SweptStays DEF KafkaInv
<1> QED
    BY <1>1, <1>2, <1>3, <1>4 DEF KafkaInv

LEMMA BeginPathsKeepsInv == KafkaInv /\ BeginPaths => KafkaInv'
<1> SUFFICES ASSUME KafkaInv, BeginPaths PROVE KafkaInv'
    OBVIOUS
<1> USE DEF Versioning, Proposing, Selected, Bootstrap, Topology, Final, kafkaInput, kafkaGraph,
            topology, Goes
<1>1. /\ SweepInv' /\ EvidenceInv'
      /\ UNCHANGED <<params, ctx, pc, paths, channel, held, open, located, dns, tcp, tls>>
    BY QuietKeepsSweep DEF KafkaInv, BeginPaths
<1>2. KafkaTypeOK'
    BY DEF BeginPaths, KafkaInv, KafkaTypeOK, KafkaStages
<1>3. SocketInv' /\ ParamsInv'
    BY <1>1 DEF BeginPaths, KafkaInv, SocketInv, ParamsInv
<1>4. HandshakeInv' /\ SecretInv' /\ MetadataInv'
    BY <1>1 DEF BeginPaths, KafkaInv, HandshakeInv, SecretInv, MetadataInv
<1>5. SweptInv'
    BY <1>1, SweptStays DEF BeginPaths, KafkaInv
<1> QED
    BY <1>1, <1>2, <1>3, <1>4, <1>5 DEF KafkaInv

LEMMA AskVersionsKeepsInv ==
    ASSUME KafkaInv, NEW a \in Addr, AskVersions(a)
    PROVE  KafkaInv'
<1> USE DEF Versioning, Proposing, Selected, Bootstrap, Topology, Final, kafkaInput, kafkaGraph,
            topology, Goes, sweepDone, clockVars, sweepVars, graphVars
<1>1. pc = "returned" /\ Connected(paths[a]) /\ a \in todo
    BY DEF AskVersions, IsFirst, KafkaInv, SocketInv
<1>2. TakesPath(a) /\ JourneyKeeps
    BY DEF AskVersions, TakesPath, JourneyKeeps
<1>3. SweepInv' /\ EvidenceInv'
    BY <1>1, <1>2, SweepTakesPath, EvidenceStays DEF KafkaInv, AskVersions
<1>4. ~Connected(paths'[a]) /\ \A b \in Addr : b # a => paths'[b] = paths[b]
    BY HolderFacts DEF AskVersions, KafkaInv, SweepInv, TransportTypeOK
<1>5. KafkaTypeOK'
    BY DEF AskVersions, KafkaInv, KafkaTypeOK, KafkaStages
<1>6. SocketInv' /\ ParamsInv'
    BY <1>1, <1>4 DEF AskVersions, KafkaInv, SocketInv, ParamsInv
<1>7. HandshakeInv' /\ SecretInv' /\ MetadataInv'
    BY DEF AskVersions, KafkaInv, HandshakeInv, SecretInv, MetadataInv
<1>8. SweptInv'
    BY SweptStays DEF AskVersions, KafkaInv
<1> QED
    BY <1>3, <1>5, <1>6, <1>7, <1>8 DEF KafkaInv

LEMMA RecordVersionsKeepsInv == KafkaInv /\ RecordVersions => KafkaInv'
<1> SUFFICES ASSUME KafkaInv, RecordVersions PROVE KafkaInv'
    OBVIOUS
<1> USE DEF Versioning, Proposing, Selected, Bootstrap, Topology, Final, kafkaInput, topology,
            Goes
<1>1. /\ pc = "returned" /\ at \in held /\ ~Connected(paths[at])
      /\ stage = "asked" /\ stage' = "versions"
    BY DEF RecordVersions, KafkaInv, KafkaTypeOK, SocketInv
<1> DEFINE S == IF reply \in {"ok", "error"} THEN {} ELSE {at}
<1>2. open' = open \ S /\ held' = held \ S /\ paths' = paths
    BY DEF RecordVersions, CloseAt, KafkaInv, SweepInv, TransportTypeOK
<1>3. SweepInv' /\ EvidenceInv' /\ UNCHANGED <<params, ctx, pc, channel>>
  <2>1. UNCHANGED <<sweepDone, paths>>
      BY DEF RecordVersions
  <2>2. \A a \in S : a \in Addr => ~Connected(paths[a])
      BY <1>1
  <2> HIDE DEF S
  <2> QED
      BY <1>1, <1>2, <2>1, <2>2, GivingUpKeepsSweep
<1>4. KafkaTypeOK'
    BY DEF RecordVersions, KafkaInv, KafkaTypeOK, KafkaStages
<1>5. SocketInv' /\ ParamsInv'
    BY <1>1, <1>2, <1>3 DEF RecordVersions, KafkaInv, SocketInv, ParamsInv
<1>6. HandshakeInv' /\ SecretInv' /\ MetadataInv'
    BY <1>1, <1>3 DEF RecordVersions, KafkaInv, HandshakeInv, SecretInv, MetadataInv
<1>7. SweptInv'
    BY <1>1, <1>3, SweptStays DEF RecordVersions, KafkaInv
<1> QED
    BY <1>3, <1>4, <1>5, <1>6, <1>7 DEF KafkaInv

LEMMA RecordHandshakeKeepsInv == KafkaInv /\ RecordHandshake => KafkaInv'
<1> SUFFICES ASSUME KafkaInv, RecordHandshake PROVE KafkaInv'
    OBVIOUS
<1> USE DEF Versioning, Proposing, Selected, Bootstrap, Topology, Final, kafkaInput, topology,
            Goes
<1>1. /\ pc = "returned" /\ at \in held /\ at \in Addr /\ ~Connected(paths[at])
      /\ stage = "proposed" /\ stage' = "mechanisms" /\ at \notin todo /\ todo \subseteq held
    BY DEF RecordHandshake, KafkaInv, KafkaTypeOK, SocketInv
<1> DEFINE S == IF reply = "ok" THEN {} ELSE {at}
<1>2. open' = open \ S /\ held' = held \ S /\ paths' = paths
    BY DEF RecordHandshake, CloseAt, KafkaInv, SweepInv, TransportTypeOK
<1>3. SweepInv' /\ EvidenceInv' /\ UNCHANGED <<params, ctx, pc, channel>>
  <2>1. UNCHANGED <<sweepDone, paths>>
      BY DEF RecordHandshake
  <2>2. \A a \in S : a \in Addr => ~Connected(paths[a])
      BY <1>1
  <2> HIDE DEF S
  <2> QED
      BY <1>1, <1>2, <2>1, <2>2, GivingUpKeepsSweep
<1>4. /\ handshake' \in [Addr -> KafkaNodes]
      /\ handshake'[at].state = "PASS" <=> reply = "ok"
      /\ \A a \in Addr : a # at => handshake'[a] = handshake[a]
    BY <1>1, AnswerNode DEF RecordHandshake, KafkaInv, KafkaTypeOK
<1>5. KafkaTypeOK'
    BY <1>4 DEF RecordHandshake, KafkaInv, KafkaTypeOK, KafkaStages
<1>6. SocketInv' /\ ParamsInv'
    BY <1>1, <1>2, <1>3 DEF RecordHandshake, KafkaInv, SocketInv, ParamsInv
<1>7. HandshakeInv'
    BY <1>1, <1>2, <1>4 DEF RecordHandshake, KafkaInv, HandshakeInv, Answered
<1>8. SecretInv' /\ MetadataInv'
    BY <1>1, <1>3 DEF RecordHandshake, KafkaInv, SecretInv, MetadataInv
<1>9. SweptInv'
    BY <1>1, <1>3, SweptStays DEF RecordHandshake, KafkaInv
<1> QED
    BY <1>3, <1>5, <1>6, <1>7, <1>8, <1>9 DEF KafkaInv

LEMMA DiscoveringKeepsInv == KafkaInv /\ Discovering => KafkaInv'
<1> SUFFICES ASSUME KafkaInv, Discovering PROVE KafkaInv'
    OBVIOUS
<1> USE DEF Versioning, Proposing, kafkaGraph, Goes
<1>1. CASE VersionsDone
  <2>1. KafkaTypeOK'
      BY <1>1
      DEF VersionsDone, kafkaInput, topology, KafkaInv, SweepInv, TransportTypeOK, KafkaTypeOK,
          KafkaStages
  <2>2. HandshakeInv'
      BY <1>1
      DEF VersionsDone, transportVars, ownerVars, KafkaInv, HandshakeInv, Answered, Selected,
          Bootstrap
  <2> QED
      BY <1>1, <2>1, <2>2, DiscoveryMovesOn DEF VersionsDone
<1>2. ASSUME NEW a \in Addr, ProposeMechanism(a) PROVE KafkaInv'
  <2>1. a \in todo /\ at' = a
      BY <1>2 DEF ProposeMechanism, IsFirst
  <2>2. KafkaTypeOK'
      BY <1>2 DEF ProposeMechanism, kafkaInput, topology, KafkaInv, KafkaTypeOK, KafkaStages
  <2>3. HandshakeInv'
      BY <1>2, <2>1
      DEF ProposeMechanism, transportVars, ownerVars, KafkaInv, HandshakeInv, Answered,
          Selected, Bootstrap
  <2> QED
      BY <1>2, <2>1, <2>2, <2>3, DiscoveryMovesOn DEF ProposeMechanism
<1>3. ASSUME NEW r, VersionsReturn(r) PROVE KafkaInv'
  <2>1. KafkaTypeOK'
      BY <1>3
      DEF VersionsReturn, Comes, kafkaInput, topology, KafkaInv, KafkaTypeOK, KafkaStages
  <2>2. HandshakeInv'
      BY <1>3
      DEF VersionsReturn, Comes, transportVars, ownerVars, KafkaInv, HandshakeInv, Selected,
          Bootstrap
  <2> QED
      BY <1>3, <2>1, <2>2, DiscoveryMovesOn DEF VersionsReturn, Comes
<1>4. ASSUME NEW r, MechanismReturns(r) PROVE KafkaInv'
  <2>1. KafkaTypeOK'
      BY <1>4
      DEF MechanismReturns, Comes, kafkaInput, topology, KafkaInv, KafkaTypeOK, KafkaStages
  <2>2. HandshakeInv'
      BY <1>4
      DEF MechanismReturns, Comes, transportVars, ownerVars, KafkaInv, HandshakeInv, Answered,
          Selected, Bootstrap
  <2> QED
      BY <1>4, <2>1, <2>2, DiscoveryMovesOn DEF MechanismReturns, Comes
<1> QED
    BY <1>1, <1>2, <1>3, <1>4, BeginPathsKeepsInv, AskVersionsKeepsInv, RecordVersionsKeepsInv,
       RecordHandshakeKeepsInv
    DEF Discovering

\* IsChosen picks one of the candidates.
LEMMA ChosenIsCandidate ==
    ASSUME NEW a, NEW S, NEW D, NEW w, IsChosen(a, S, D, w)
    PROVE  a \in S
  BY DEF IsChosen, Eligible, Preferred

\* Past the selection: a step that leaves every connection where it is, ...
LEMMA SelectedMovesOn ==
    ASSUME KafkaInv, KafkaTypeOK', SecretInv',
           UNCHANGED <<transportVars, kafkaInput, todo, at, handshake, metadata, topology>>,
           stage \in Selected, stage' \in Selected
    PROVE  KafkaInv'
<1> USE DEF Versioning, Proposing, Selected, Bootstrap, Topology, Final, kafkaInput, topology
<1>1. /\ SweepInv' /\ EvidenceInv'
      /\ UNCHANGED <<params, ctx, pc, paths, channel, held, open, located, dns, tcp, tls>>
    BY QuietKeepsSweep DEF KafkaInv
<1>2. SocketInv' /\ ParamsInv' /\ HandshakeInv' /\ MetadataInv'
    BY <1>1 DEF KafkaInv, SocketInv, ParamsInv, HandshakeInv, MetadataInv
<1>3. SweptInv'
    BY <1>1, SweptStays DEF KafkaInv
<1> QED
    BY <1>1, <1>2, <1>3 DEF KafkaInv

\* ... one that ends the run with the selected connection given up, ...
LEMMA SelectedGivesUp ==
    ASSUME KafkaInv, KafkaTypeOK', CloseAt,
           UNCHANGED <<sweepDone, paths, kafkaInput, todo, at, handshake, secrets, topology>>,
           stage \in Selected, stage' = "leave", auth' # NoNode, metadata'.state # "PASS"
    PROVE  KafkaInv'
<1> USE DEF Versioning, Proposing, Selected, Bootstrap, Topology, Final, kafkaInput, topology
<1>1. pc = "returned" /\ held = {at} /\ \A a \in Addr : ~Connected(paths[a])
    BY DEF KafkaInv, SocketInv
<1>2. open' = open \ {at} /\ held' = held \ {at} /\ held' = {}
    BY <1>1 DEF CloseAt
<1>3. SweepInv' /\ EvidenceInv' /\ UNCHANGED <<params, ctx, pc, channel>>
    BY <1>1, <1>2, GivingUpKeepsSweep
<1>4. SocketInv' /\ ParamsInv'
    BY <1>1, <1>2, <1>3 DEF KafkaInv, SocketInv, ParamsInv
<1>5. HandshakeInv' /\ MetadataInv'
    BY <1>3 DEF KafkaInv, HandshakeInv, MetadataInv
<1>6. SecretInv'
    BY <1>3 DEF KafkaInv, SecretInv
<1>7. SweptInv'
    BY <1>3, SweptStays DEF KafkaInv
<1> QED
    BY <1>3, <1>4, <1>5, <1>6, <1>7 DEF KafkaInv

\* ... and the selection, which gives up every other one.
LEMMA SelectKeepsInv ==
    ASSUME KafkaInv, NEW a \in Addr, Select(a)
    PROVE  KafkaInv'
<1> USE DEF Versioning, Proposing, Selected, Bootstrap, Topology, Final, kafkaInput, kafkaGraph,
            topology, Goes
<1>1. /\ pc = "returned" /\ a \in held /\ at' = a /\ stage = "mechanisms" /\ todo = {}
      /\ \A b \in Addr : ~Connected(paths[b])
      /\ stage' = IF ctx = "live" THEN "authenticate" ELSE "leave"
    BY ChosenIsCandidate DEF Select, KafkaInv, SocketInv
<1>2. open = held
    BY <1>1 DEF KafkaInv, SweepInv, OwnInv, HolderInv, OpenInv, TransportTypeOK
<1> DEFINE S == IF ctx = "live" THEN held \ {a} ELSE held
<1>3. open' = open \ S /\ held' = held \ S
    BY <1>1, <1>2 DEF Select
<1>4. SweepInv' /\ EvidenceInv' /\ UNCHANGED <<params, ctx, pc, channel>>
  <2>1. UNCHANGED <<sweepDone, paths>>
      BY DEF Select
  <2>2. \A b \in S : b \in Addr => ~Connected(paths[b])
      BY <1>1
  <2> HIDE DEF S
  <2> QED
      BY <1>1, <1>3, <2>1, <2>2, GivingUpKeepsSweep
<1>5. KafkaTypeOK'
    BY <1>1 DEF Select, KafkaInv, KafkaTypeOK, KafkaStages
<1>6. SocketInv' /\ ParamsInv'
    BY <1>1, <1>4 DEF Select, KafkaInv, SocketInv, ParamsInv
<1>7. HandshakeInv' /\ MetadataInv' /\ SecretInv'
    BY <1>1, <1>4 DEF Select, KafkaInv, HandshakeInv, Answered, MetadataInv, SecretInv
<1>8. SweptInv'
    BY <1>1, <1>4, SweptStays DEF Select, KafkaInv, MetadataInv
<1> QED
    BY <1>4, <1>5, <1>6, <1>7, <1>8 DEF KafkaInv

LEMMA NothingToSelectKeepsInv == KafkaInv /\ NothingToSelect => KafkaInv'
<1> SUFFICES ASSUME KafkaInv, NothingToSelect PROVE KafkaInv'
    OBVIOUS
<1> USE DEF Versioning, Proposing, Selected, Bootstrap, Topology, Final, kafkaInput, kafkaGraph,
            topology, Goes
<1>1. /\ SweepInv' /\ EvidenceInv'
      /\ UNCHANGED <<params, ctx, pc, paths, channel, held, open, located, dns, tcp, tls>>
    BY QuietKeepsSweep DEF KafkaInv, NothingToSelect
<1>2. KafkaTypeOK'
    BY DEF NothingToSelect, KafkaInv, KafkaTypeOK, KafkaStages
<1>3. SocketInv' /\ ParamsInv'
    BY <1>1 DEF NothingToSelect, KafkaInv, SocketInv, ParamsInv
<1>4. HandshakeInv' /\ SecretInv'
    BY <1>1 DEF NothingToSelect, KafkaInv, HandshakeInv, SecretInv
<1>5. MetadataInv'
    BY <1>1 DEF NothingToSelect, KafkaInv, MetadataInv, HandshakeInv, Answered
<1>6. SweptInv'
    BY <1>1, SweptStays DEF NothingToSelect, KafkaInv, MetadataInv
<1> QED
    BY <1>1, <1>2, <1>3, <1>4, <1>5, <1>6 DEF KafkaInv

LEMMA AuthenticatingKeepsInv == KafkaInv /\ Authenticating => KafkaInv'
<1> SUFFICES ASSUME KafkaInv, Authenticating PROVE KafkaInv'
    OBVIOUS
<1> USE DEF kafkaGraph, Goes
<1>0. stage \in Selected => metadata.state # "PASS"
    BY DEF KafkaInv, MetadataInv, Selected, Bootstrap, Topology, Final
<1>1. CASE Withhold
  <2>1. KafkaTypeOK'
      BY <1>1, OtherNodes
      DEF Withhold, kafkaInput, topology, KafkaInv, KafkaTypeOK, KafkaStages, Final
  <2> QED
      BY <1>0, <1>1, <2>1, OtherNodes, SelectedGivesUp DEF Withhold, Selected
<1>2. CASE PresentPLAIN
  <2>1. secrets = 0 /\ secrets' = 1
      BY <1>2 DEF PresentPLAIN, KafkaInv, SecretInv
  <2>2. KafkaTypeOK'
      BY <1>2, <2>1
      DEF PresentPLAIN, kafkaInput, topology, KafkaInv, KafkaTypeOK, KafkaStages, Selected,
          Bootstrap
  <2>3. SecretInv'
      BY <1>2, <2>1
      DEF PresentPLAIN, MayPresent, PermitsCredentials, kafkaInput, topology, transportVars,
          ownerVars, KafkaInv, SecretInv, Versioning, Proposing, Bootstrap, Topology, Final
  <2> QED
      BY <1>2, <2>2, <2>3, SelectedMovesOn DEF PresentPLAIN, Selected, Bootstrap
<1>3. CASE BeginSCRAM
  <2>1. KafkaTypeOK'
      BY <1>3
      DEF BeginSCRAM, kafkaInput, topology, KafkaInv, KafkaTypeOK, KafkaStages, Selected,
          Bootstrap
  <2>2. SecretInv'
      BY <1>3
      DEF BeginSCRAM, MayPresent, PermitsCredentials, kafkaInput, topology, transportVars,
          ownerVars, KafkaInv, KafkaTypeOK, SecretInv, Versioning, Proposing, Bootstrap,
          Topology, Final
  <2> QED
      BY <1>3, <2>1, <2>2, SelectedMovesOn DEF BeginSCRAM, Selected, Bootstrap
<1>4. ASSUME NEW r \in {"challenge", "limit", "error"} \cup Broken, ServerFirst(r)
      PROVE  KafkaInv'
  <2>1. secrets = 0 /\ r # "ok"
      BY <1>4 DEF ServerFirst, KafkaInv, SecretInv, Broken
  <2>2. KafkaTypeOK'
      BY <1>4, <2>1
      DEF ServerFirst, kafkaInput, topology, KafkaInv, KafkaTypeOK, KafkaStages, Selected,
          Bootstrap
  <2>3. SecretInv'
      BY <1>4, <2>1
      DEF ServerFirst, kafkaInput, topology, transportVars, ownerVars, KafkaInv, SecretInv,
          Versioning, Proposing, Bootstrap, Topology, Final
  <2> QED
      BY <1>4, <2>2, <2>3, SelectedMovesOn DEF ServerFirst, Selected, Bootstrap
<1>5. ASSUME NEW r, AuthReturns(r) PROVE KafkaInv'
  <2>1. KafkaTypeOK'
      BY <1>5
      DEF AuthReturns, Comes, kafkaInput, topology, KafkaInv, KafkaTypeOK, KafkaStages, Selected,
          Bootstrap
  <2>2. SecretInv'
      BY <1>5
      DEF AuthReturns, Comes, kafkaInput, topology, transportVars, ownerVars, KafkaInv, SecretInv,
          Versioning, Proposing, Bootstrap, Topology, Final
  <2> QED
      BY <1>5, <2>1, <2>2, SelectedMovesOn DEF AuthReturns, Comes, Selected, Bootstrap
<1>6. CASE RecordAuth
  <2>0. /\ auth' \in KafkaNodes /\ auth' # NoNode
        /\ auth'.state = "PASS" <=> reply = "ok"
      BY <1>6, AnswerNode DEF RecordAuth
  <2>1. KafkaTypeOK'
      BY <1>6, <2>0
      DEF RecordAuth, kafkaInput, topology, KafkaInv, KafkaTypeOK, KafkaStages, Selected,
          Bootstrap, Final
  <2>2. CASE reply = "ok"
    <3>1. UNCHANGED transportVars
        BY <1>6, <2>2 DEF RecordAuth, sweepDone, transportVars, ownerVars
    <3>2. SecretInv'
        BY <1>6, <2>0, <2>2, <3>1
        DEF RecordAuth, kafkaInput, topology, transportVars, ownerVars, KafkaInv, SecretInv,
            Versioning, Proposing, Bootstrap, Topology, Final
    <3> QED
        BY <1>6, <2>1, <2>2, <3>1, <3>2, SelectedMovesOn DEF RecordAuth, Selected, Bootstrap
  <2>3. CASE reply # "ok"
      BY <1>0, <1>6, <2>0, <2>1, <2>3, SelectedGivesUp DEF RecordAuth, Selected, Bootstrap
  <2> QED
      BY <2>2, <2>3
<1> QED
    BY <1>1, <1>2, <1>3, <1>4, <1>5, <1>6, SelectKeepsInv, NothingToSelectKeepsInv
    DEF Authenticating

\* The next endpoint to be swept, and those that still wait.
LEMMA QueueAdvances ==
    ASSUME queue \in Seq(Kinds), queue # <<>>, queue' = Tail(queue)
    PROVE  /\ queue' \in Seq(Kinds) /\ Head(queue) \in Kinds
           /\ \A b \in Kinds : Queued(b) => b = Head(queue) \/ Queued(b)'
<1>1. /\ Len(queue) \in Nat \ {0} /\ Head(queue) = queue[1] /\ Head(queue) \in Kinds
      /\ Tail(queue) \in Seq(Kinds) /\ Len(Tail(queue)) = Len(queue) - 1
      /\ \A i \in 1..Len(Tail(queue)) : Tail(queue)[i] = queue[i+1]
    OBVIOUS
<1>2. ASSUME NEW b \in Kinds, NEW i \in 1..Len(queue), queue[i] = b, b # Head(queue)
      PROVE  Queued(b)'
  <2>1. i - 1 \in 1..Len(Tail(queue)) /\ (i - 1) + 1 = i
      BY <1>1, <1>2
  <2>2. Tail(queue)[i - 1] = b
      BY <1>1, <1>2, <2>1
  <2> QED
      BY <2>1, <2>2 DEF Queued
<1> QED
    BY <1>1, <1>2 DEF Queued

\* TLS was asked for by a run that sent its secret over a verified channel.
LEMMA SecretAskedForTLS ==
    ASSUME KafkaInv, stage \in Bootstrap, secrets = 1
    PROVE  params.tls
<1>1. at \in Addr /\ channel[at] = "tls_verified" /\ pc = "returned"
    BY DEF KafkaInv, KafkaTypeOK, SecretInv, SocketInv, Bootstrap
<1>2. tls[at].state = "PASS"
    BY <1>1 DEF KafkaInv, SweepInv, ChannelInv
<1>3. NoNode.state # "PASS"
    BY DEF NoNode
<1> QED
    BY <1>1, <1>2, <1>3 DEF KafkaInv, SweepInv, AccountInv, Accounted

LEMMA MetadataObtainedKeepsInv ==
    ASSUME KafkaInv, NEW brokers \in Responses, MetadataObtained(brokers)
    PROVE  KafkaInv'
<1> USE DEF Versioning, Proposing, Selected, Bootstrap, Topology, Final, kafkaInput, Goes
<1>1. /\ pc = "returned" /\ held = {at} /\ \A a \in Addr : ~Connected(paths[a])
      /\ stage = "described" /\ stage' = "advertised"
      /\ secrets = 1 /\ auth.state = "PASS"
    BY DEF MetadataObtained, KafkaInv, SocketInv, SecretInv
<1>2. open' = open \ {at} /\ held' = held \ {at} /\ held' = {}
    BY <1>1 DEF MetadataObtained
<1>3. SweepInv' /\ EvidenceInv' /\ UNCHANGED <<params, ctx, pc, channel>>
  <2>1. UNCHANGED <<sweepDone, paths>>
      BY DEF MetadataObtained
  <2> QED
      BY <1>1, <1>2, <2>1, GivingUpKeepsSweep
<1>4. brokers \in Seq(Kinds) /\ advertised' \subseteq Kinds
    BY ResponsesAssumption DEF MetadataObtained
<1>5. metadata' \in KafkaNodes /\ metadata'.state = "PASS" /\ params.tls
    BY <1>1, AnswerNode, SecretAskedForTLS DEF MetadataObtained
<1>6. KafkaTypeOK'
    BY <1>4, <1>5, OtherNodes DEF MetadataObtained, KafkaInv, KafkaTypeOK, KafkaStages
<1>7. SocketInv' /\ ParamsInv'
    BY <1>1, <1>2, <1>3 DEF MetadataObtained, KafkaInv, SocketInv, ParamsInv
<1>8. HandshakeInv' /\ SecretInv' /\ MetadataInv'
    BY <1>1, <1>3, <1>5
    DEF MetadataObtained, KafkaInv, HandshakeInv, SecretInv, MetadataInv
<1>9. SweptInv'
  <2>1. /\ queue' = brokers /\ stage' = "advertised" /\ swept' = swept /\ ctx' = ctx
        /\ advertised' = {brokers[i] : i \in 1..Len(brokers)}
      BY <1>1, <1>3 DEF MetadataObtained
  <2>2. \A b \in Usable' : Queued(b)'
      BY <2>1 DEF Usable, Queued
  <2>3. \A b \in Kinds : swept'[b].done => TruthfulSweep(swept[b])'
      BY <2>1 DEF KafkaInv, SweptInv, TruthfulSweep
  <2> QED
      BY <2>1, <2>2, <2>3 DEF SweptInv
<1> QED
    BY <1>3, <1>6, <1>7, <1>8, <1>9 DEF KafkaInv

LEMMA DescribingKeepsInv == KafkaInv /\ Describing => KafkaInv'
<1> SUFFICES ASSUME KafkaInv, Describing PROVE KafkaInv'
    OBVIOUS
<1> USE DEF kafkaGraph, Goes
<1>1. ASSUME NEW r, MetadataReturns(r) PROVE KafkaInv'
  <2>1. KafkaTypeOK'
      BY <1>1
      DEF MetadataReturns, Comes, kafkaInput, topology, KafkaInv, KafkaTypeOK, KafkaStages,
          Selected, Bootstrap
  <2>2. SecretInv'
      BY <1>1
      DEF MetadataReturns, Comes, kafkaInput, topology, transportVars, ownerVars, KafkaInv,
          SecretInv, Versioning, Proposing, Bootstrap, Topology, Final
  <2> QED
      BY <1>1, <2>1, <2>2, SelectedMovesOn DEF MetadataReturns, Comes, Selected, Bootstrap
<1>2. CASE MetadataBroke
  <2>1. /\ metadata' \in KafkaNodes /\ metadata'.state # "PASS"
        /\ auth' = auth /\ auth.state = "PASS"
      BY <1>2, AnswerNode DEF MetadataBroke, KafkaInv, SecretInv
  <2>2. KafkaTypeOK'
      BY <1>2, <2>1
      DEF MetadataBroke, kafkaInput, topology, KafkaInv, KafkaTypeOK, KafkaStages, Final
  <2> QED
      BY <1>2, <2>1, <2>2, OtherNodes, SelectedGivesUp
      DEF MetadataBroke, Selected, Bootstrap
<1> QED
    BY <1>1, <1>2, MetadataObtainedKeepsInv DEF Describing

\* Between two sweeps nothing is open but the connection the result keeps.
LEMMA NothingOpen ==
    ASSUME KafkaInv, stage \in {"advertised"} \cup Final
    PROVE  open = {} /\ held = {}
  BY DEF KafkaInv, SocketInv, Versioning, Topology, Final, SweepInv, OwnInv, HolderInv, OpenInv,
         TransportTypeOK

\* A step of the topology walk that sweeps nothing.
LEMMA WalkMovesOn ==
    ASSUME KafkaInv, KafkaTypeOK', SweptInv',
           UNCHANGED <<transportVars, kafkaInput, todo, at, handshake, auth, metadata, secrets,
                       advertised, swept>>,
           \/ stage = "advertised" /\ stage' = "advertised" /\ kept' = kept
           \/ stage = "advertised" /\ stage' = "leave"
           \/ stage = "advertised" /\ stage' = "failed" /\ ~kept'
           \/ stage = "leave" /\ stage' = "done" /\ ~kept'
    PROVE  KafkaInv'
<1> USE DEF Versioning, Proposing, Selected, Bootstrap, Topology, Final, kafkaInput
<1>1. /\ SweepInv' /\ EvidenceInv'
      /\ UNCHANGED <<params, ctx, pc, paths, channel, held, open, located, dns, tcp, tls>>
    BY QuietKeepsSweep DEF KafkaInv
<1>2. SocketInv' /\ ParamsInv'
    BY <1>1 DEF KafkaInv, SocketInv, ParamsInv
<1>3. HandshakeInv' /\ SecretInv' /\ MetadataInv'
    BY <1>1 DEF KafkaInv, HandshakeInv, SecretInv, MetadataInv
<1> QED
    BY <1>1, <1>2, <1>3 DEF KafkaInv

\* What was swept stays true while the budget does not come back.
LEMMA SweptStaysTrue ==
    ASSUME KafkaInv, swept' = swept, ctx # "live" => ctx' # "live"
    PROVE  \A b \in Kinds : swept'[b].done => TruthfulSweep(swept[b])'
  BY DEF KafkaInv, SweptInv, TruthfulSweep

LEMMA WalkingKeepsInv ==
    KafkaInv /\ (SkipUnusable \/ AdvertisedRefused \/ AdvertisedDone) => KafkaInv'
<1> SUFFICES ASSUME KafkaInv, SkipUnusable \/ AdvertisedRefused \/ AdvertisedDone
             PROVE  KafkaInv'
    OBVIOUS
<1> USE DEF kafkaGraph, Goes
<1>1. UNCHANGED transportVars /\ ctx' = ctx /\ stage = "advertised"
    BY DEF SkipUnusable, AdvertisedRefused, AdvertisedDone, transportVars, clockVars
<1>2. \A b \in Kinds : swept'[b].done => TruthfulSweep(swept[b])'
    BY <1>1, SweptStaysTrue DEF SkipUnusable, AdvertisedRefused, AdvertisedDone, topology
<1>3. queue \in Seq(Kinds) /\ Usable \subseteq Kinds /\ metadata.state = "PASS"
    BY <1>1 DEF KafkaInv, KafkaTypeOK, Usable, MetadataInv, Topology
<1>4. CASE SkipUnusable
  <2>1. \A b \in Usable : Queued(b) => Queued(b)'
      BY <1>3, <1>4, QueueAdvances DEF SkipUnusable, Advance, Usable
  <2>2. KafkaTypeOK'
      BY <1>3, <1>4, QueueAdvances
      DEF SkipUnusable, Advance, kafkaInput, KafkaInv, KafkaTypeOK, KafkaStages
  <2>3. SweptInv'
      BY <1>1, <1>2, <1>4, <2>1
      DEF SkipUnusable, Advance, KafkaInv, SweptInv, Usable, Topology
  <2> QED
      BY <1>1, <1>4, <2>2, <2>3, WalkMovesOn DEF SkipUnusable, Advance
<1>5. CASE AdvertisedRefused
  <2>1. KafkaTypeOK'
      BY <1>5 DEF AdvertisedRefused, kafkaInput, KafkaInv, KafkaTypeOK, KafkaStages, Final
  <2>2. SweptInv'
      BY <1>2, <1>5 DEF AdvertisedRefused, SweptInv, Topology
  <2> QED
      BY <1>1, <1>5, <2>1, <2>2, WalkMovesOn DEF AdvertisedRefused
<1>6. CASE AdvertisedDone
  <2>1. KafkaTypeOK'
      BY <1>6
      DEF AdvertisedDone, kafkaInput, topology, KafkaInv, KafkaTypeOK, KafkaStages, Final
  <2>2. ctx = "live" => \A b \in Usable : swept[b].done
      BY <1>1, <1>6 DEF AdvertisedDone, KafkaInv, SweptInv, Topology, Queued
  <2>3. SweptInv'
      BY <1>1, <1>2, <1>6, <2>2 DEF AdvertisedDone, topology, SweptInv, Usable, Topology
  <2> QED
      BY <1>1, <1>6, <2>1, <2>3, WalkMovesOn DEF AdvertisedDone, topology
<1> QED
    BY <1>4, <1>5, <1>6

LEMMA LeaveKeepsInv == KafkaInv /\ Leave => KafkaInv'
<1> SUFFICES ASSUME KafkaInv, Leave PROVE KafkaInv'
    OBVIOUS
<1> USE DEF kafkaGraph
<1>1. UNCHANGED transportVars /\ UNCHANGED <<ctx, dns, tcp, tls>>
    BY DEF Leave, transportVars, clockVars, graphVars
<1>2. \A b \in Kinds : swept'[b].done => TruthfulSweep(swept[b])'
    BY <1>1, SweptStaysTrue DEF Leave
<1>3. KafkaTypeOK'
    BY DEF Leave, kafkaInput, KafkaInv, KafkaTypeOK, KafkaStages, Final
<1>4. incompleteKafkaRun' <=> incompleteKafkaRun
    BY <1>1
    DEF Leave, incompleteKafkaRun, Recorded, SweepNodes, Usable
<1>5. SweptInv'
    BY <1>1, <1>2, <1>4 DEF Leave, KafkaInv, SweptInv, Usable, Topology
<1> QED
    BY <1>1, <1>3, <1>5, WalkMovesOn DEF Leave

LEMMA BeginAdvertisedKeepsInv ==
    ASSUME KafkaInv, NEW located0 \in SUBSET Addr, BeginAdvertised(located0)
    PROVE  KafkaInv'
<1> USE DEF Versioning, Proposing, Selected, Bootstrap, Topology, Final, kafkaInput, kafkaGraph,
            topology, Goes
<1>1. /\ open = {} /\ held = {} /\ stage = "advertised" /\ stage' = "measuring"
      /\ queue # <<>> /\ UNCHANGED <<ctx, open, held, swept>>
    BY NothingOpen DEF BeginAdvertised
<1>2. /\ params' \in Params /\ params'.usableName /\ params'.tls = params.tls
      /\ params'.collides = params.collides /\ params'.parentKnown = params.parentKnown
    BY DEF BeginAdvertised, KafkaInv, SweepInv, TransportTypeOK, Params
<1>3. /\ pc' \in {"sweep", "lookup"} /\ located' \subseteq Addr /\ pending' = located'
      /\ pc' = "sweep" => located' # {}
      /\ dns' = NoNode /\ \A a \in Addr : tcp'[a] = NoNode /\ tls'[a] = NoNode
      /\ blocked' = {} /\ \A a \in Addr : channel'[a] = "unknown" /\ paths'[a] = Nothing
      /\ conn' = Nothing /\ session' = Nothing
    BY OtherNodes DEF BeginAdvertised
<1>4. SweepInv'
  <2>1. TransportTypeOK'
      BY <1>1, <1>2, <1>3, HolderFacts, NodeFacts, OtherNodes
      DEF BeginAdvertised, KafkaInv, SweepInv, TransportTypeOK, Outcomes, stepContext
  <2>2. OwnInv'
      BY <1>1, <1>3, HolderFacts DEF OwnInv, HolderInv, FreshInv, OpenInv, InHand
  <2>3. AccountInv'
    <3> SUFFICES ASSUME NEW a \in Addr PROVE CursorInv' /\ Accounted(a)'
        BY AddrAssumption DEF AccountInv
    <3>1. NoNode.state = "NONE" /\ ~Nothing.conn
        BY DEF NoNode, Nothing
    <3> QED
        BY <1>3, <3>1 DEF CursorInv, Accounted, Dealt, HandshakeUnderway, InHand
  <2>4. ChannelInv'
      BY <1>3 DEF ChannelInv
  <2> QED
      BY <2>1, <2>2, <2>3, <2>4 DEF SweepInv
<1>5. EvidenceInv'
    BY <1>3, ExplicitNodes, OtherNodes DEF EvidenceInv
<1>6. KafkaTypeOK'
    BY DEF BeginAdvertised, KafkaInv, KafkaTypeOK, KafkaStages
<1>7. SocketInv' /\ ParamsInv'
    BY <1>1, <1>2, <1>3 DEF BeginAdvertised, KafkaInv, SocketInv, ParamsInv
<1>8. HandshakeInv' /\ SecretInv' /\ MetadataInv'
    BY <1>1, <1>2 DEF BeginAdvertised, KafkaInv, HandshakeInv, SecretInv, MetadataInv
<1>9. SweptInv'
  <2>1. \A b \in Kinds : swept'[b].done => TruthfulSweep(swept[b])'
      BY <1>1, SweptStaysTrue
  <2>2. \A b \in Usable : swept[b].done \/ Queued(b)
      BY <1>1 DEF KafkaInv, SweptInv
  <2> QED
      BY <1>1, <2>1, <2>2 DEF BeginAdvertised, SweptInv, Usable, Queued
<1> QED
    BY <1>4, <1>5, <1>6, <1>7, <1>8, <1>9 DEF KafkaInv

\* What the sweep that just came back leaves behind.
LEMMA ReturnedSweepIsTruthful ==
    ASSUME SweepInv, EvidenceInv, pc = "returned", params.tls
    PROVE  TruthfulSweep([done |-> TRUE, located |-> located, dns |-> dns, tcp |-> tcp,
                          tls |-> tls])
<1> SUFFICES ASSUME NEW a \in Addr
             PROVE  /\ tcp[a] # NoNode <=> a \in located
                    /\ tls[a] # NoNode <=> a \in located
                    /\ tls[a].state = "SKIPPED" <=> a \in located /\ tcp[a].state # "PASS"
    BY DEF TruthfulSweep, EvidenceInv
<1>1. (Dealt(a) <=> a \in located) /\ ~HandshakeUnderway(a)
    BY DEF SweepInv, AccountInv, CursorInv, Dealt, HandshakeUnderway, InHand
<1> QED
    BY <1>1 DEF SweepInv, AccountInv, Accounted

LEMMA EndAdvertisedKeepsInv == KafkaInv /\ EndAdvertised => KafkaInv'
<1> SUFFICES ASSUME KafkaInv, EndAdvertised PROVE KafkaInv'
    OBVIOUS
<1> USE DEF Versioning, Proposing, Selected, Bootstrap, Topology, Final, kafkaInput, kafkaGraph,
            Goes, Advance
<1>1. /\ pc = "returned" /\ held = {} /\ held' = held /\ queue # <<>> /\ params.tls
      /\ queue \in Seq(Kinds) /\ stage' = "advertised" /\ stage = "measuring"
    BY DEF EndAdvertised, KafkaInv, KafkaTypeOK, SocketInv, SweptInv, MetadataInv
<1>2. /\ UNCHANGED <<params, clockVars, pc, heard, sweepVars, graphVars, conn, session, channel>>
      /\ UNCHANGED <<ctx, located, dns, tcp, tls, pending, cur>>
    BY DEF EndAdvertised, sweepDone, clockVars, sweepVars, graphVars
<1>3. \A a \in Addr : ~Connected(paths'[a])
    BY HolderFacts DEF EndAdvertised, KafkaInv, SweepInv, TransportTypeOK
<1>4. SweepInv' /\ EvidenceInv'
  <2>1. SocketTypes
      BY <1>1, HolderFacts, HolderConn
      DEF EndAdvertised, SocketTypes, KafkaInv, SweepInv, TransportTypeOK
  <2>2. OwnInv'
      BY <1>1, <1>2, <1>3
      DEF EndAdvertised, KafkaInv, SweepInv, OwnInv, HolderInv, FreshInv, OpenInv, InHand,
          TransportTypeOK
  <2>3. SweepInv'
      BY <1>1, <1>2, <2>1, <2>2, SweepJourneyStep DEF KafkaInv, JourneyKeeps
  <2> QED
      BY <1>2, <2>3, EvidenceStays DEF KafkaInv
<1> DEFINE left == [done |-> TRUE, located |-> located, dns |-> dns, tcp |-> tcp, tls |-> tls]
<1>5. /\ swept' = [swept EXCEPT ![Head(queue)] = left] /\ left \in Sweeps /\ TruthfulSweep(left)
    BY <1>1, ReturnedSweepIsTruthful DEF EndAdvertised, KafkaInv, SweepInv, TransportTypeOK, Sweeps
<1>6. KafkaTypeOK'
  <2> HIDE DEF left
  <2> QED
      BY <1>1, <1>5, QueueAdvances DEF EndAdvertised, KafkaInv, KafkaTypeOK, KafkaStages
<1>7. SocketInv' /\ ParamsInv'
    BY <1>1, <1>2, <1>3 DEF EndAdvertised, KafkaInv, SocketInv, ParamsInv
<1>8. HandshakeInv' /\ SecretInv' /\ MetadataInv'
    BY <1>1, <1>2 DEF EndAdvertised, KafkaInv, HandshakeInv, SecretInv, MetadataInv
<1>9. SweptInv'
  <2>1. /\ Head(queue) \in Kinds /\ swept'[Head(queue)] = left /\ left.done
        /\ \A b \in Kinds : b # Head(queue) => swept'[b] = swept[b]
        /\ \A b \in Kinds : Queued(b) => b = Head(queue) \/ Queued(b)'
      BY <1>1, <1>5, QueueAdvances DEF EndAdvertised, KafkaInv, KafkaTypeOK
  <2>2. ASSUME NEW b \in Kinds, swept'[b].done PROVE TruthfulSweep(swept[b])'
    <3>1. TruthfulSweep(swept'[b])
        BY <1>5, <2>1, <2>2 DEF KafkaInv, SweptInv
    <3> QED
        BY <1>2, <3>1 DEF TruthfulSweep
  <2>3. \A b \in Usable : b \in Kinds /\ (swept[b].done \/ Queued(b))
      BY <1>1 DEF KafkaInv, KafkaTypeOK, SweptInv, Usable
  <2>4. Usable' = Usable
      BY DEF EndAdvertised, Usable
  <2>5. \A b \in Usable : swept'[b].done \/ Queued(b)'
      BY <2>1, <2>3
  <2> QED
      BY <1>1, <2>2, <2>4, <2>5 DEF SweptInv
<1> QED
    BY <1>4, <1>6, <1>7, <1>8, <1>9 DEF KafkaInv

\* A sweep under way, the bootstrap's or an advertised endpoint's, leaves the
\* journey alone; so does a budget that ends between two sweeps.
LEMMA TransportingKeepsInv == KafkaInv /\ Transporting => KafkaInv'
<1> SUFFICES ASSUME KafkaInv, Transporting PROVE KafkaInv'
    OBVIOUS
<1> USE DEF Versioning, Proposing, Selected, Bootstrap, Topology, Final, kafkaInput, kafkaGraph,
            topology
<1>1. /\ SweepInv' /\ EvidenceInv' /\ stage \notin {"done", "failed"}
      /\ UNCHANGED <<mechanism, credential, stage, todo, at, reply, handshake, auth, metadata,
                     secrets, queue, advertised, swept, kept>>
      /\ params' = params /\ held' = held /\ (pc # "closed" => pc' # "closed")
      /\ ctx # "live" => ctx' = ctx
    BY SweepRunStep, EvidenceRunStep, RunStepTakesNothing, BudgetStaysEnded
    DEF Transporting, kafkaVars, KafkaInv, SweepInv
<1>2. stage \notin {"sweep", "measuring"} => UNCHANGED <<pc, paths, channel>>
    BY RunStepAfterReturn DEF Transporting, KafkaInv, SocketInv, ownerVars
<1>3. stage = "measuring" => pc' # "failed"
    BY UsableSweepReturns DEF Transporting, KafkaInv, SocketInv, ParamsInv
<1>4. KafkaTypeOK'
    BY <1>1 DEF KafkaInv, KafkaTypeOK
<1>5. SocketInv' /\ ParamsInv'
    BY <1>1, <1>2, <1>3 DEF KafkaInv, SocketInv, ParamsInv
<1>6. HandshakeInv'
    BY <1>1 DEF KafkaInv, HandshakeInv, Answered
<1>7. SecretInv' /\ MetadataInv'
    BY <1>1, <1>2 DEF KafkaInv, SecretInv, MetadataInv
<1>8. SweptInv'
  <2>1. \A b \in Kinds : swept'[b].done => TruthfulSweep(swept[b])'
      BY <1>1, SweptStaysTrue
  <2> QED
      BY <1>1, <2>1 DEF KafkaInv, SweptInv, Usable, Queued
<1> QED
    BY <1>1, <1>4, <1>5, <1>6, <1>7, <1>8 DEF KafkaInv

LEMMA KafkaStep == KafkaInv /\ [KafkaNext]_journeyVars => KafkaInv'
<1> SUFFICES ASSUME KafkaInv, [KafkaNext]_journeyVars PROVE KafkaInv'
    OBVIOUS
<1>1. CASE UNCHANGED journeyVars
  <2>1. /\ SweepInv' /\ EvidenceInv'
        /\ UNCHANGED <<params, ctx, pc, paths, channel, held, open, located, dns, tcp, tls>>
      BY <1>1, QuietKeepsSweep DEF journeyVars, KafkaInv
  <2>2. UNCHANGED <<mechanism, credential, stage, todo, at, reply, apiVersions, handshake, auth,
                    metadata, secrets, queue, advertised, swept, kept, incomplete>>
      BY <1>1 DEF journeyVars, kafkaVars, kafkaInput, kafkaGraph, topology
  <2>3. KafkaTypeOK' /\ SocketInv' /\ ParamsInv'
      BY <2>1, <2>2 DEF KafkaInv, KafkaTypeOK, SocketInv, ParamsInv
  <2>4. HandshakeInv' /\ SecretInv' /\ MetadataInv'
      BY <2>1, <2>2 DEF KafkaInv, HandshakeInv, Answered, SecretInv, MetadataInv
  <2>5. SweptInv'
    <3>1. \A b \in Kinds : swept'[b].done => TruthfulSweep(swept[b])'
        BY <2>1, <2>2, SweptStaysTrue
    <3>2. incompleteKafkaRun' <=> incompleteKafkaRun
        BY <2>1, <2>2 DEF incompleteKafkaRun, Recorded, SweepNodes, Usable
    <3> QED
        BY <2>1, <2>2, <3>1, <3>2 DEF KafkaInv, SweptInv, Usable, Queued
  <2> QED
      BY <2>1, <2>3, <2>4, <2>5 DEF KafkaInv
<1>2. CASE Measuring
    BY <1>2, WalkingKeepsInv, BeginAdvertisedKeepsInv, EndAdvertisedKeepsInv DEF Measuring
<1> QED
    BY <1>1, <1>2, TransportingKeepsInv, DiscoveringKeepsInv, AuthenticatingKeepsInv,
       DescribingKeepsInv, LeaveKeepsInv
    DEF KafkaNext, KafkaOver

THEOREM KafkaInvariant == KafkaSpec => []KafkaInv
  BY KafkaInvInit, KafkaStep, PTL DEF KafkaSpec

\* ADR 0028, 0030 and 0050 for any set of addresses and any answers: at most
\* one message derived from the secret, over a channel its own handshake
\* verified, to a broker that accepted the mechanism; none after Metadata.
THEOREM KafkaSecretIsDisciplined == KafkaSpec => []SecretDiscipline
<1>1. KafkaInv => SecretDiscipline
  <2> SUFFICES ASSUME KafkaInv PROVE SecretDiscipline
      OBVIOUS
  <2>1. secrets <= 1 /\ (mechanism = "SCRAM" /\ credential = "unprepared" => secrets = 0)
        /\ (advertised # {} => secrets = 1 /\ auth.state = "PASS")
      BY DEF KafkaInv, KafkaTypeOK, SecretInv
  <2>2. ASSUME stage \in Bootstrap, secrets = 1
        PROVE  /\ credential # "none" /\ mechanism # "foreign"
               /\ tls[at].state = "PASS" /\ ~params.insecure
               /\ handshake[at].state = "PASS"
    <3>1. /\ credential # "none" /\ mechanism # "foreign" /\ channel[at] = "tls_verified"
          /\ at \in Addr /\ pc = "returned" /\ handshake[at].state = "PASS"
        BY <2>2
        DEF KafkaInv, KafkaTypeOK, SecretInv, SocketInv, HandshakeInv, Bootstrap, Selected
    <3> QED
        BY <3>1 DEF KafkaInv, SweepInv, ChannelInv
  <2> QED
      BY <2>1, <2>2 DEF SecretDiscipline, Bootstrap
<1> QED
    BY <1>1, KafkaInvariant, PTL

\* ADR 0050 and 0021 for any advertisement: one endpoint's sockets are gone
\* before the next is swept, and none is open when the run has left.
THEOREM KafkaAdvertisedSocketsClosed == KafkaSpec => []AdvertisedSocketsClosed
<1>1. KafkaInv => AdvertisedSocketsClosed
    BY NothingOpen DEF AdvertisedSocketsClosed, KafkaInv, SocketInv, Topology, Final
<1> QED
    BY <1>1, KafkaInvariant, PTL

\* An endpoint svcdoctor takes for known is known: an address completed TLS,
\* the name failed, or each address failed on its own account.
LEMMA ResolvedMeansKnown ==
    ASSUME NEW s \in Sweeps, TruthfulSweep(s), ctx = "live", advertisementResolved(s)
    PROVE  \/ Reached(s)
           \/ s.dns.state = "FAIL"
           \/ /\ s.located # {}
              /\ \A a \in s.located : s.tcp[a].state = "FAIL" \/ s.tls[a].state = "FAIL"
<1>1. \A a \in s.located : a \in Addr /\ s.tcp[a] # NoNode /\ s.tls[a] # NoNode
    BY DEF TruthfulSweep, Sweeps
<1>2. CASE s.dns.state = "FAIL"
    BY <1>2
<1>3. ASSUME NEW a \in Connections(s), reachedTransport(s, a) PROVE Reached(s)
    BY <1>3 DEF Connections, reachedTransport, TruthfulSweep, Reached
<1>4. CASE /\ Connections(s) # {}
           /\ \A a \in Connections(s) : ~CutShort(s.tcp[a]) /\ ~CutShort(s.tls[a])
  <2>1. Connections(s) = s.located
      BY DEF Connections, TruthfulSweep, Sweeps
  <2>2. ASSUME NEW a \in s.located, ~Reached(s)
        PROVE  s.tcp[a].state = "FAIL" \/ s.tls[a].state = "FAIL"
    <3>1. s.tcp[a] \in Nodes /\ s.tls[a] \in Nodes
        BY <1>1 DEF Sweeps
    <3>2. s.tcp[a].state \in {"PASS", "FAIL"}
        BY <1>1, <1>4, <2>1, <3>1 DEF TruthfulSweep, Explicit, Nodes
    <3>3. s.tcp[a].state = "PASS" => s.tls[a].state \in {"PASS", "FAIL"}
        BY <1>1, <1>4, <2>1, <3>1 DEF TruthfulSweep, Explicit, Nodes
    <3> QED
        BY <2>2, <3>2, <3>3 DEF Reached
  <2> QED
      BY <1>4, <2>1, <2>2
<1> QED
    BY <1>2, <1>3, <1>4 DEF advertisementResolved

\* An endpoint svcdoctor leaves open is open for its own budget's sake, and no
\* address of it worked.
LEMMA UnresolvedMeansCutShort ==
    ASSUME NEW s \in Sweeps, TruthfulSweep(s), s.done, ~advertisementResolved(s)
    PROVE  /\ ~Reached(s)
           /\ \E n \in {s.dns} \cup {s.tcp[a] : a \in Addr} \cup {s.tls[a] : a \in Addr} :
                CutShort(n)
<1>1. Connections(s) = s.located
    BY DEF Connections, TruthfulSweep, Sweeps
<1>2. CASE CutShort(s.dns)
    BY <1>2 DEF CutShort, TruthfulSweep, Reached
<1>3. CASE ~CutShort(s.dns)
  <2>1. /\ \A a \in s.located : ~reachedTransport(s, a)
        /\ s.located = {} \/ \E a \in s.located : CutShort(s.tcp[a]) \/ CutShort(s.tls[a])
        /\ s.dns.state # "FAIL"
      BY <1>1, <1>3 DEF advertisementResolved
  <2>2. s.located # {}
      BY <1>3, <2>1 DEF TruthfulSweep, Explicit
  <2>3. \A a \in s.located : s.tls[a].state = "PASS" => s.tcp[a].state = "PASS"
    <3> SUFFICES ASSUME NEW a \in s.located, s.tls[a].state = "PASS", s.tcp[a].state # "PASS"
                 PROVE  FALSE
        OBVIOUS
    <3>1. s.tls[a].state = "SKIPPED"
        BY DEF TruthfulSweep, Sweeps
    <3> QED
        BY <3>1
  <2>4. ~Reached(s)
      BY <2>1, <2>3 DEF Reached, reachedTransport
  <2>5. \A a \in s.located : a \in Addr
      BY DEF Sweeps
  <2> QED
      BY <2>1, <2>2, <2>4, <2>5
<1> QED
    BY <1>2, <1>3

\* ADR 0051 for any advertisement: a run that calls itself complete knows the
\* fate of every usable endpoint, and one that calls itself incomplete while
\* its context lives was kept from one by its own budget.
THEOREM KafkaCompletenessIsExact == KafkaSpec => []CompletenessIsExact
<1>1. KafkaInv => CompletenessIsExact
  <2> SUFFICES ASSUME KafkaInv, stage = "done" PROVE CompletenessIsExact
      BY DEF CompletenessIsExact
  <2>1. incomplete <=> incompleteKafkaRun
      BY DEF KafkaInv, SweptInv
  <2>2. ~incomplete => ctx = "live"
      BY <2>1 DEF incompleteKafkaRun
  <2>3. ASSUME metadata.state = "PASS", ctx = "live", NEW b \in Usable
        PROVE  swept[b] \in Sweeps /\ swept[b].done /\ TruthfulSweep(swept[b])
      BY <2>3 DEF KafkaInv, SweptInv, KafkaTypeOK, Usable
  <2>4. ASSUME ~incomplete, metadata.state = "PASS", NEW b \in Usable
        PROVE  \/ Reached(swept[b])
               \/ swept[b].dns.state = "FAIL"
               \/ /\ swept[b].located # {}
                  /\ \A a \in swept[b].located :
                       swept[b].tcp[a].state = "FAIL" \/ swept[b].tls[a].state = "FAIL"
    <3>1. advertisementResolved(swept[b])
        BY <2>1, <2>4 DEF incompleteKafkaRun
    <3> QED
        BY <2>2, <2>3, <2>4, <3>1, ResolvedMeansKnown
  <2>5. ASSUME ~incomplete, metadata.state # "PASS"
        PROVE  /\ \A a \in located : tcp[a].state # "SKIPPED"
               /\ (\E a \in Addr : handshake[a].state = "PASS") => auth # NoNode
      BY <2>2, <2>5
      DEF KafkaInv, EvidenceInv, SweepInv, TransportTypeOK, MetadataInv, Final
  <2>6. ASSUME incomplete, ctx = "live", metadata.state = "PASS"
        PROVE  \E b \in Usable : ~Reached(swept[b]) /\
                 \E n \in {swept[b].dns} \cup {swept[b].tcp[a] : a \in Addr}
                                          \cup {swept[b].tls[a] : a \in Addr} : CutShort(n)
    <3>1. PICK b \in Usable : ~advertisementResolved(swept[b])
        BY <2>1, <2>6 DEF incompleteKafkaRun
    <3> QED
        BY <2>3, <2>6, <3>1, UnresolvedMeansCutShort
  <2> QED
      BY <2>4, <2>5, <2>6 DEF CompletenessIsExact
<1> QED
    BY <1>1, KafkaInvariant, PTL

-----------------------------------------------------------------------------
(* What the graph says of a run, for the rules that read it.               *)

\* How an authentication ends: it was tried, or the run declined it.
Beyond   == {"UNSUPPORTED", "MECHANISM_UNSUPPORTED"}
Withheld == {"INPUT_MISSING", "POLICY"}

AuthOutcome(n) ==
    \/ Decided(n) /\ n.class \notin Beyond \cup Withheld
    \/ n.state = "UNKNOWN" /\ n.class \in Beyond
    \/ n.state = "SKIPPED" /\ n.class \in Withheld

\* Every exchange was tried, and svcdoctor reads every answer but a challenge.
OutcomeInv ==
    /\ stage \in {"asked", "proposed", "described"} => reply \in {"ok", "error"} \cup Broken
    /\ apiVersions \in [Addr -> KafkaNodes]
    /\ \A a \in Addr : /\ apiVersions[a] = NoNode \/ Decided(apiVersions[a])
                       /\ handshake[a] = NoNode \/ Decided(handshake[a])
    /\ auth = NoNode \/ AuthOutcome(auth)
    /\ metadata = NoNode \/ Decided(metadata)

\* Each path the sweep left is asked for its versions, and each that answered
\* for the mechanism.
AskedInv ==
    /\ stage = "sweep" => /\ pc # "failed" => WholePaths
                          /\ \A a \in Addr : apiVersions[a] = NoNode
    /\ stage \in Versioning =>
         \A a \in Addr :
            /\ paths[a].conn => \/ a \in todo \/ (stage # "versions" /\ a = at)
                                \/ apiVersions[a] # NoNode
            /\ apiVersions[a].state = "PASS" => a \in held
    /\ stage \in Proposing =>
         \A a \in Addr :
            /\ paths[a].conn => apiVersions[a] # NoNode
            /\ apiVersions[a].state = "PASS" =>
                 \/ a \in todo \/ (stage # "mechanisms" /\ a = at)
                 \/ handshake[a] # NoNode
    /\ stage \in Selected \cup Final /\ metadata.state # "PASS" =>
         \A a \in Addr :
            /\ paths[a].conn => apiVersions[a] # NoNode
            /\ apiVersions[a].state = "PASS" => handshake[a] # NoNode

\* What the later stages record, and when.
RecordInv ==
    /\ stage \notin {"metadata", "described"} \cup Topology \cup Final => auth = NoNode
    /\ stage \notin Topology \cup Final => metadata = NoNode
    /\ stage \in Final /\ auth.state = "PASS" => metadata # NoNode
    /\ metadata.state # "PASS" => advertised = {}
    /\ \A b \in Kinds : swept[b].done \/ swept[b] = NotSwept

KafkaGraphInv == OutcomeInv /\ AskedInv /\ RecordInv

LEMMA AnswerOutcomes ==
    ASSUME NEW r, NEW e \in {"live"} \cup Endings
    PROVE  /\ r \in {"ok", "error"} \cup Broken => Decided(classifyAnswer(r, e))
           /\ AuthOutcome(classifyAnswer(r, e))
<1>1. CASE r \in {"ok", "error"}
    BY <1>1 DEF classifyAnswer, Node, Decided, AuthOutcome, Beyond, Withheld
<1>2. CASE r \notin {"ok", "error"}
  <2>1. classifyAnswer(r, e) = classifyBroken(r, e)
      BY <1>2 DEF classifyAnswer
  <2> QED
      BY <2>1
      DEF classifyBroken, Broken, Node, Decided, AuthOutcome, Beyond, Withheld, CutShort,
          BudgetClasses, Endings
<1> QED
    BY <1>1, <1>2

LEMMA NodesRecorded ==
    /\ NoNode.state = "NONE"
    /\ \A n : Decided(n) => n # NoNode /\ n.state # "NONE"
    /\ \A n : AuthOutcome(n) => n # NoNode /\ n.state # "NONE"
  BY DEF NoNode, Decided, AuthOutcome, CutShort

LEMMA KafkaGraphInit == KafkaInit => KafkaGraphInv
<1> SUFFICES ASSUME KafkaInit PROVE KafkaGraphInv
    OBVIOUS
<1> USE DEF Versioning, Proposing, Selected, Bootstrap, Topology, Final
<1>1. WholePaths
    BY WholeInit DEF KafkaInit
<1>2. OutcomeInv
    BY OtherNodes DEF KafkaInit, OutcomeInv
<1>3. AskedInv
    BY <1>1, OtherNodes DEF KafkaInit, AskedInv
<1>4. RecordInv
    BY OtherNodes DEF KafkaInit, RecordInv
<1> QED
    BY <1>2, <1>3, <1>4 DEF KafkaGraphInv

-----------------------------------------------------------------------------
(* What steps of one kind keep.                                            *)

\* The stages before the authentication is recorded.
Early == {"sweep", "authenticate", "serverFirst", "authenticating", "authRead"}
            \cup Versioning \cup Proposing

LEMMA OutcomesStay ==
    ASSUME OutcomeInv, UNCHANGED kafkaGraph,
           stage' \in {"asked", "proposed", "described"} =>
             \/ reply' \in {"ok", "error"} \cup Broken
             \/ UNCHANGED <<stage, reply>>
    PROVE  OutcomeInv'
  BY DEF OutcomeInv, kafkaGraph

LEMMA RecordsStay ==
    ASSUME RecordInv, UNCHANGED <<auth, metadata, advertised, swept>>,
           \/ stage \in Early /\ stage' \in Early \cup Final
           \/ stage \in {"metadata", "described"} /\ stage' \in {"metadata", "described"}
           \/ stage \in Topology \cup Final /\ stage' \in Topology \cup Final
              /\ (metadata # NoNode \/ stage \in Final)
    PROVE  RecordInv'
<1> USE DEF Early, Versioning, Proposing, Topology, Final
<1>1. CASE stage \in Early /\ stage' \in Early \cup Final
    BY <1>1, OtherNodes DEF RecordInv
<1>2. CASE stage \in {"metadata", "described"} /\ stage' \in {"metadata", "described"}
    BY <1>2 DEF RecordInv
<1>3. CASE /\ stage \in Topology \cup Final /\ stage' \in Topology \cup Final
           /\ metadata # NoNode \/ stage \in Final
    BY <1>3 DEF RecordInv
<1> QED
    BY <1>1, <1>2, <1>3

\* The selected path's exchanges, as long as nothing is recorded.
LEMMA SelectedAskedStays ==
    ASSUME AskedInv, UNCHANGED <<paths, apiVersions, handshake>>,
           stage \in Selected, stage' \in Selected \cup Final, metadata.state # "PASS"
    PROVE  AskedInv'
  BY DEF AskedInv, Versioning, Proposing, Selected, Bootstrap, Final

LEMMA DiscoveringKeepsGraph == KafkaInv /\ KafkaGraphInv /\ Discovering => KafkaGraphInv'
<1> SUFFICES ASSUME KafkaInv, KafkaGraphInv, Discovering PROVE KafkaGraphInv'
    OBVIOUS
<1> USE DEF Versioning, Proposing, Selected, Bootstrap, Final, kafkaGraph, topology, Goes
<1>0. /\ at \in Addr /\ ctx \in {"live"} \cup Endings
      /\ handshake \in [Addr -> KafkaNodes] /\ apiVersions \in [Addr -> KafkaNodes]
    BY DEF KafkaInv, KafkaTypeOK, SweepInv, TransportTypeOK, KafkaGraphInv, OutcomeInv
<1>1. CASE BeginPaths
  <2>1. paths' = paths
      BY <1>1 DEF BeginPaths, transportVars, ownerVars
  <2>2. AskedInv'
      BY <1>1, <2>1, OtherNodes DEF BeginPaths, KafkaGraphInv, AskedInv, WholePaths
  <2>3. OutcomeInv' /\ RecordInv'
      BY <1>1, OutcomesStay, RecordsStay DEF BeginPaths, KafkaGraphInv, Early
  <2> QED
      BY <2>2, <2>3 DEF KafkaGraphInv
<1>2. ASSUME NEW a \in Addr, AskVersions(a) PROVE KafkaGraphInv'
  <2>1. \A b \in Addr : paths'[b].conn = paths[b].conn
      BY <1>2, HolderConn DEF AskVersions, KafkaInv, SweepInv, TransportTypeOK
  <2>2. AskedInv'
      BY <1>2, <2>1 DEF AskVersions, KafkaGraphInv, AskedInv
  <2>3. OutcomeInv' /\ RecordInv'
      BY <1>2, OutcomesStay, RecordsStay DEF AskVersions, KafkaGraphInv, Early
  <2> QED
      BY <2>2, <2>3 DEF KafkaGraphInv
<1>3. ASSUME NEW r \in {"ok", "error"} \cup Broken, VersionsReturn(r) PROVE KafkaGraphInv'
  <2>1. paths' = paths /\ held' = held
      BY <1>3 DEF VersionsReturn, Comes, transportVars, ownerVars
  <2>2. AskedInv'
      BY <1>3, <2>1 DEF VersionsReturn, Comes, KafkaGraphInv, AskedInv
  <2>3. OutcomeInv' /\ RecordInv'
      BY <1>3, OutcomesStay, RecordsStay DEF VersionsReturn, Comes, KafkaGraphInv, Early
  <2> QED
      BY <2>2, <2>3 DEF KafkaGraphInv
<1>4. CASE RecordVersions
  <2>1. /\ apiVersions' = [apiVersions EXCEPT ![at] = classifyAnswer(reply, ctx)]
        /\ stage = "asked" /\ stage' = "versions"
        /\ UNCHANGED <<paths, todo, at, reply, handshake, auth, metadata, advertised, swept>>
      BY <1>4 DEF RecordVersions
  <2>2. /\ apiVersions' \in [Addr -> KafkaNodes] /\ Decided(apiVersions'[at])
        /\ apiVersions'[at] # NoNode /\ (apiVersions'[at].state = "PASS" => reply = "ok")
        /\ \A a \in Addr : a # at => apiVersions'[a] = apiVersions[a]
      BY <1>0, <2>1, AnswerNode, AnswerOutcomes DEF KafkaGraphInv, OutcomeInv
  <2>3. at \in held /\ (reply = "ok" => held' = held) /\ held \ {at} \subseteq held'
      BY <1>4, <2>1 DEF RecordVersions, CloseAt, KafkaInv, SocketInv
  <2>4. AskedInv'
      BY <2>1, <2>2, <2>3 DEF KafkaGraphInv, AskedInv
  <2>5. OutcomeInv'
      BY <2>1, <2>2 DEF KafkaGraphInv, OutcomeInv
  <2>6. RecordInv'
      BY <2>1, RecordsStay DEF KafkaGraphInv, Early
  <2> QED
      BY <2>4, <2>5, <2>6 DEF KafkaGraphInv
<1>5. CASE VersionsDone
  <2>1. paths' = paths
      BY <1>5 DEF VersionsDone, transportVars, ownerVars
  <2>2. AskedInv'
      BY <1>5, <2>1 DEF VersionsDone, KafkaGraphInv, AskedInv
  <2>3. OutcomeInv' /\ RecordInv'
      BY <1>5, OutcomesStay, RecordsStay DEF VersionsDone, KafkaGraphInv, Early
  <2> QED
      BY <2>2, <2>3 DEF KafkaGraphInv
<1>6. ASSUME NEW a \in Addr, ProposeMechanism(a) PROVE KafkaGraphInv'
  <2>1. paths' = paths
      BY <1>6 DEF ProposeMechanism, transportVars, ownerVars
  <2>2. AskedInv'
      BY <1>6, <2>1 DEF ProposeMechanism, KafkaGraphInv, AskedInv
  <2>3. OutcomeInv' /\ RecordInv'
      BY <1>6, OutcomesStay, RecordsStay DEF ProposeMechanism, KafkaGraphInv, Early
  <2> QED
      BY <2>2, <2>3 DEF KafkaGraphInv
<1>7. ASSUME NEW r \in {"ok", "error"} \cup Broken, MechanismReturns(r) PROVE KafkaGraphInv'
  <2>1. paths' = paths
      BY <1>7 DEF MechanismReturns, Comes, transportVars, ownerVars
  <2>2. AskedInv'
      BY <1>7, <2>1 DEF MechanismReturns, Comes, KafkaGraphInv, AskedInv
  <2>3. OutcomeInv' /\ RecordInv'
      BY <1>7, OutcomesStay, RecordsStay DEF MechanismReturns, Comes, KafkaGraphInv, Early
  <2> QED
      BY <2>2, <2>3 DEF KafkaGraphInv
<1>8. CASE RecordHandshake
  <2>1. /\ handshake' = [handshake EXCEPT ![at] = classifyAnswer(reply, ctx)]
        /\ stage = "proposed" /\ stage' = "mechanisms"
        /\ UNCHANGED <<paths, todo, at, reply, apiVersions, auth, metadata, advertised, swept>>
      BY <1>8 DEF RecordHandshake
  <2>2. /\ Decided(handshake'[at]) /\ handshake'[at] # NoNode
        /\ \A a \in Addr : a # at => handshake'[a] = handshake[a]
      BY <1>0, <2>1, AnswerNode, AnswerOutcomes DEF KafkaGraphInv, OutcomeInv
  <2>3. AskedInv'
      BY <2>1, <2>2 DEF KafkaGraphInv, AskedInv
  <2>4. OutcomeInv'
      BY <2>1, <2>2 DEF KafkaGraphInv, OutcomeInv
  <2>5. RecordInv'
      BY <2>1, RecordsStay DEF KafkaGraphInv, Early
  <2> QED
      BY <2>3, <2>4, <2>5 DEF KafkaGraphInv
<1> QED
    BY <1>1, <1>2, <1>3, <1>4, <1>5, <1>6, <1>7, <1>8 DEF Discovering

LEMMA AuthenticatingKeepsGraph == KafkaInv /\ KafkaGraphInv /\ Authenticating => KafkaGraphInv'
<1> SUFFICES ASSUME KafkaInv, KafkaGraphInv, Authenticating PROVE KafkaGraphInv'
    OBVIOUS
<1> USE DEF Versioning, Proposing, Selected, Bootstrap, Topology, Final, kafkaGraph, Goes
<1>0. /\ ctx \in {"live"} \cup Endings
      /\ stage \in Early => auth = NoNode /\ metadata = NoNode
      /\ NoNode.state = "NONE"
    BY NodesRecorded DEF KafkaInv, SweepInv, TransportTypeOK, KafkaGraphInv, RecordInv, Early
<1>1. CASE NothingToSelect \/ \E a \in Addr : Select(a)
  <2>1. /\ stage = "mechanisms" /\ stage' \in {"authenticate", "leave"} /\ todo = {}
        /\ UNCHANGED <<paths, reply, kafkaGraph, advertised, swept>>
      BY <1>1 DEF NothingToSelect, Select, transportVars, ownerVars, topology
  <2>2. AskedInv'
      BY <2>1 DEF KafkaGraphInv, AskedInv
  <2>3. OutcomeInv' /\ RecordInv'
      BY <2>1, OutcomesStay, RecordsStay DEF KafkaGraphInv, Early
  <2> QED
      BY <2>2, <2>3 DEF KafkaGraphInv
<1>2. CASE \/ PresentPLAIN \/ BeginSCRAM
           \/ \E r \in {"challenge", "limit", "error"} \cup Broken : ServerFirst(r)
           \/ \E r \in {"ok", "error", "mismatch", "limit"} \cup Broken : AuthReturns(r)
  <2>1. /\ stage \in {"authenticate", "serverFirst", "authenticating"}
        /\ stage' \in {"serverFirst", "authenticating", "authRead"}
        /\ UNCHANGED <<paths, kafkaGraph, advertised, swept>>
      BY <1>2
      DEF PresentPLAIN, BeginSCRAM, ServerFirst, AuthReturns, Comes, transportVars, ownerVars,
          topology
  <2>2. AskedInv'
      BY <1>0, <2>1, SelectedAskedStays DEF KafkaGraphInv, Early
  <2>3. OutcomeInv' /\ RecordInv'
      BY <2>1, OutcomesStay, RecordsStay DEF KafkaGraphInv, Early
  <2> QED
      BY <2>2, <2>3 DEF KafkaGraphInv
<1>3. CASE Withhold \/ RecordAuth
  <2>1. /\ stage \in {"authenticate", "authRead"} /\ stage' \in {"metadata", "leave"}
        /\ UNCHANGED <<paths, apiVersions, handshake, metadata, advertised, swept>>
      BY <1>3 DEF Withhold, RecordAuth, topology
  <2>2. AuthOutcome(auth') /\ (stage' = "leave" => auth'.state # "PASS")
    <3>1. CASE Withhold
      <4>1. auth' = Refusal /\ AuthOutcome(Refusal) /\ Refusal.state # "PASS"
          BY <3>1 DEF Withhold, Refusal, Node, AuthOutcome, Beyond, Withheld
      <4> QED
          BY <4>1
    <3>2. CASE RecordAuth
      <4>1. /\ auth' = classifyAnswer(reply, ctx)
            /\ stage' = "leave" => reply # "ok"
          BY <3>2 DEF RecordAuth
      <4> QED
          BY <1>0, <4>1, AnswerNode, AnswerOutcomes
    <3> QED
        BY <1>3, <3>1, <3>2
  <2>3. metadata = NoNode
      BY <1>0, <2>1 DEF Early
  <2>4. AskedInv'
      BY <1>0, <2>1, <2>3, SelectedAskedStays DEF KafkaGraphInv
  <2>5. OutcomeInv'
      BY <2>1, <2>2 DEF KafkaGraphInv, OutcomeInv
  <2>6. RecordInv'
      BY <2>1, <2>2, <2>3 DEF KafkaGraphInv, RecordInv
  <2> QED
      BY <2>4, <2>5, <2>6 DEF KafkaGraphInv
<1> QED
    BY <1>1, <1>2, <1>3 DEF Authenticating

LEMMA DescribingKeepsGraph == KafkaInv /\ KafkaGraphInv /\ Describing => KafkaGraphInv'
<1> SUFFICES ASSUME KafkaInv, KafkaGraphInv, Describing PROVE KafkaGraphInv'
    OBVIOUS
<1> USE DEF Versioning, Proposing, Selected, Bootstrap, Topology, Final, kafkaGraph, Goes
<1>0. /\ ctx \in {"live"} \cup Endings
      /\ stage \in {"metadata", "described"} => metadata = NoNode
      /\ NoNode.state = "NONE"
    BY NodesRecorded DEF KafkaInv, SweepInv, TransportTypeOK, KafkaGraphInv, RecordInv
<1>1. ASSUME NEW r \in {"ok"} \cup Broken, MetadataReturns(r) PROVE KafkaGraphInv'
  <2>1. /\ stage = "metadata" /\ stage' = "described" /\ reply' = r
        /\ UNCHANGED <<paths, kafkaGraph, advertised, swept>>
      BY <1>1 DEF MetadataReturns, Comes, transportVars, ownerVars, topology
  <2>2. AskedInv'
      BY <1>0, <2>1, SelectedAskedStays DEF KafkaGraphInv
  <2>3. OutcomeInv' /\ RecordInv'
      BY <2>1, OutcomesStay, RecordsStay DEF KafkaGraphInv
  <2> QED
      BY <2>2, <2>3 DEF KafkaGraphInv
<1>2. CASE MetadataBroke
  <2>1. /\ stage = "described" /\ stage' = "leave" /\ metadata' = classifyAnswer(reply, ctx)
        /\ reply \in {"ok", "error"} \cup Broken
        /\ UNCHANGED <<paths, apiVersions, handshake, auth, advertised, swept>>
      BY <1>2 DEF MetadataBroke, topology, KafkaGraphInv, OutcomeInv
  <2>2. Decided(metadata') /\ metadata' # NoNode /\ metadata.state # "PASS"
      BY <1>0, <2>1, AnswerOutcomes, NodesRecorded
  <2>3. AskedInv'
      BY <2>1, <2>2, SelectedAskedStays DEF KafkaGraphInv
  <2>4. OutcomeInv'
      BY <2>1, <2>2 DEF KafkaGraphInv, OutcomeInv
  <2>5. RecordInv'
      BY <2>1, <2>2 DEF KafkaGraphInv, RecordInv
  <2> QED
      BY <2>3, <2>4, <2>5 DEF KafkaGraphInv
<1>3. ASSUME NEW brokers \in Responses, MetadataObtained(brokers) PROVE KafkaGraphInv'
  <2>1. /\ stage' = "advertised" /\ metadata' = classifyAnswer(reply, ctx) /\ reply = "ok"
        /\ apiVersions' = NoNodes /\ handshake' = NoNodes
        /\ UNCHANGED <<auth, swept>>
      BY <1>3 DEF MetadataObtained
  <2>2. Decided(metadata') /\ metadata'.state = "PASS"
      BY <1>0, <2>1, AnswerNode, AnswerOutcomes
  <2>3. AskedInv'
      BY <2>1 DEF AskedInv
  <2>4. OutcomeInv'
      BY <2>1, <2>2, OtherNodes DEF KafkaGraphInv, OutcomeInv
  <2>5. RecordInv'
      BY <2>1, <2>2 DEF KafkaGraphInv, RecordInv
  <2> QED
      BY <2>3, <2>4, <2>5 DEF KafkaGraphInv
<1> QED
    BY <1>1, <1>2, <1>3 DEF Describing

LEMMA MeasuringKeepsGraph == KafkaInv /\ KafkaGraphInv /\ (Measuring \/ Leave) => KafkaGraphInv'
<1> SUFFICES ASSUME KafkaInv, KafkaGraphInv, Measuring \/ Leave PROVE KafkaGraphInv'
    OBVIOUS
<1> USE DEF Versioning, Proposing, Selected, Bootstrap, Topology, Final, kafkaGraph, Goes
<1>0. stage \in Topology => metadata.state = "PASS" /\ metadata # NoNode
    BY NodesRecorded DEF KafkaInv, MetadataInv
<1>1. /\ UNCHANGED <<kafkaGraph, advertised>>
      /\ \/ stage \in Topology /\ stage' \in Topology \cup {"leave", "failed"}
         \/ stage = "leave" /\ stage' = "done" /\ paths' = paths
    BY DEF Measuring, SkipUnusable, EndAdvertised, AdvertisedRefused, AdvertisedDone,
           BeginAdvertised, Leave, Advance, topology, transportVars, ownerVars
<1>2. OutcomeInv'
    BY <1>1, OutcomesStay DEF KafkaGraphInv
<1>3. AskedInv'
    BY <1>0, <1>1 DEF KafkaGraphInv, AskedInv
<1>4. CASE swept' = swept
    BY <1>0, <1>1, <1>2, <1>3, <1>4, RecordsStay DEF KafkaGraphInv
<1>5. CASE swept' # swept
  <2>1. /\ EndAdvertised /\ swept \in [Kinds -> Sweeps] /\ queue \in Seq(Kinds) /\ queue # <<>>
      BY <1>5
      DEF Measuring, SkipUnusable, EndAdvertised, AdvertisedRefused, AdvertisedDone,
          BeginAdvertised, Leave, topology, KafkaInv, KafkaTypeOK, SweptInv
  <2> DEFINE left == [done |-> TRUE, located |-> located, dns |-> dns, tcp |-> tcp, tls |-> tls]
  <2>2. swept' = [swept EXCEPT ![Head(queue)] = left] /\ left.done
      BY <2>1 DEF EndAdvertised
  <2> HIDE DEF left
  <2>3. \A b \in Kinds : swept'[b].done \/ swept'[b] = NotSwept
      BY <2>1, <2>2 DEF KafkaGraphInv, RecordInv
  <2>4. RecordInv'
      BY <1>0, <1>1, <2>1, <2>3 DEF EndAdvertised, KafkaGraphInv, RecordInv
  <2> QED
      BY <1>2, <1>3, <2>4 DEF KafkaGraphInv
<1> QED
    BY <1>4, <1>5

LEMMA TransportingKeepsGraph == KafkaInv /\ KafkaGraphInv /\ Transporting => KafkaGraphInv'
<1> SUFFICES ASSUME KafkaInv, KafkaGraphInv, Transporting PROVE KafkaGraphInv'
    OBVIOUS
<1> USE DEF Versioning, Proposing, Selected, Bootstrap, Topology, Final, kafkaGraph
<1>1. /\ UNCHANGED <<stage, todo, at, reply, kafkaGraph, advertised, swept>> /\ held' = held
      /\ RunStep
    BY RunStepTakesNothing DEF Transporting, kafkaVars, topology
<1>2. stage \notin {"sweep", "measuring"} => paths' = paths
    BY <1>1, RunStepAfterReturn DEF KafkaInv, SocketInv, ownerVars
<1>3. stage = "sweep" /\ pc' # "failed" => WholePaths'
    BY <1>1, WholeRunStep, FailureIsFinal DEF KafkaInv, SweepInv, KafkaGraphInv, AskedInv
<1>4. AskedInv'
    BY <1>1, <1>2, <1>3 DEF KafkaGraphInv, AskedInv
<1>5. OutcomeInv'
    BY <1>1, OutcomesStay DEF KafkaGraphInv
<1>6. RecordInv'
    BY <1>1 DEF KafkaGraphInv, RecordInv
<1> QED
    BY <1>4, <1>5, <1>6 DEF KafkaGraphInv

LEMMA KafkaGraphStep == KafkaInv /\ KafkaGraphInv /\ [KafkaNext]_journeyVars => KafkaGraphInv'
<1> SUFFICES ASSUME KafkaInv, KafkaGraphInv, [KafkaNext]_journeyVars PROVE KafkaGraphInv'
    OBVIOUS
<1>1. CASE UNCHANGED journeyVars
  <2>1. UNCHANGED <<pc, paths, held, stage, todo, at, reply, apiVersions, handshake, auth,
                    metadata, advertised, swept>>
      BY <1>1
      DEF journeyVars, transportVars, ownerVars, kafkaVars, kafkaGraph, topology
  <2>2. AskedInv'
      BY <2>1 DEF KafkaGraphInv, AskedInv, WholePaths
  <2>3. OutcomeInv' /\ RecordInv'
      BY <2>1 DEF KafkaGraphInv, OutcomeInv, RecordInv
  <2> QED
      BY <2>2, <2>3 DEF KafkaGraphInv
<1> QED
    BY <1>1, TransportingKeepsGraph, DiscoveringKeepsGraph, AuthenticatingKeepsGraph,
       DescribingKeepsGraph, MeasuringKeepsGraph
    DEF KafkaNext, KafkaOver

THEOREM KafkaGraphInvariant == KafkaSpec => []KafkaGraphInv
<1>1. KafkaSpec => []KafkaInv /\ KafkaGraphInv /\ [][KafkaNext]_journeyVars
    BY KafkaInvariant, KafkaGraphInit DEF KafkaSpec
<1> QED
    BY <1>1, KafkaGraphStep, PTL

-----------------------------------------------------------------------------
(* What the rules make of the graph.                                       *)

LEMMA KafkaEvFacts ==
    /\ \A a : /\ versionsEv(a).state = apiVersions[a].state
              /\ versionsEv(a).step = "kafka.api_versions" /\ versionsEv(a).subject = Address(a)
    /\ \A a : /\ handshakeOf(a).state = handshake[a].state
              /\ handshakeOf(a).step = "kafka.sasl_handshake" /\ handshakeOf(a).subject = Address(a)
    /\ authEv.state = auth.state /\ authEv.class = auth.class
    /\ authEv.step = "kafka.sasl_authenticate" /\ authEv.subject = Address(at)
    /\ metadataEv.state = metadata.state /\ metadataEv.class = metadata.class
    /\ metadataEv.step = "kafka.metadata" /\ metadataEv.subject = Address(at)
    /\ \A b : /\ advertisedEv(b).state = IF b = "unusable" THEN "FAIL" ELSE "PASS"
              /\ advertisedEv(b).step = "kafka.broker_advertised"
    /\ \A b : /\ rootEv(b).state = swept[b].dns.state /\ rootEv(b).class = swept[b].dns.class
              /\ rootEv(b).step = "dns.lookup"
    /\ \A b, a : /\ pathEv(b, a).state = swept[b].tcp[a].state
                 /\ pathEv(b, a).class = swept[b].tcp[a].class
                 /\ pathEv(b, a).step = "tcp.connect"
    /\ \A b, a : /\ terminalEv(b, a).state = swept[b].tls[a].state
                 /\ terminalEv(b, a).class = swept[b].tls[a].class
                 /\ terminalEv(b, a).step = "tls.handshake"
<1>1. \A b : Node("FAIL", "UNEXPECTED").state = "FAIL" /\ Node("PASS", "NONE").state = "PASS"
    BY DEF Node
<1> QED
    BY <1>1, RecordedFacts
    DEF versionsEv, handshakeOf, authEv, metadataEv, advertisedEv, rootEv, pathEv, terminalEv

\* An advertised endpoint is a subject of its own.
LEMMA EndpointSubjects ==
    /\ \A b : Endpoint(b) # Target
    /\ \A a, b : Endpoint(b) # Address(a)
    /\ \A b, c : Endpoint(b) = Endpoint(c) => b = c
<1>1. \A b : Endpoint(b)[1] = "endpoint" /\ Endpoint(b)[2] = b
    BY DEF Endpoint
<1>2. Target[1] = "target" /\ \A a : Address(a)[1] = "address"
    BY DEF Target, Address
<1> QED
    BY <1>1, <1>2

ProtocolSteps == {"kafka.api_versions", "kafka.sasl_handshake", "kafka.sasl_authenticate",
                  "kafka.metadata"}

\* Each class the adapter gives a failed step has its claim.
LEMMA FailuresAreClaimed ==
    /\ DOMAIN stepFailures = ProtocolSteps
    /\ \A v \in ProtocolSteps : stepFailures[v] \subseteq DOMAIN failClaims[v]
<1>1. DOMAIN stepFailures = ProtocolSteps
    BY DEF stepFailures, ProtocolSteps
<1>2. stepFailures["kafka.api_versions"] \subseteq DOMAIN failClaims["kafka.api_versions"]
    BY <1>1 DEF stepFailures, failClaims, answerFailures, ProtocolSteps
<1>3. stepFailures["kafka.sasl_handshake"] \subseteq DOMAIN failClaims["kafka.sasl_handshake"]
    BY <1>1 DEF stepFailures, failClaims, answerFailures, ProtocolSteps
<1>4. stepFailures["kafka.sasl_authenticate"] \subseteq DOMAIN failClaims["kafka.sasl_authenticate"]
    BY <1>1 DEF stepFailures, failClaims, answerFailures, ProtocolSteps
<1>5. stepFailures["kafka.metadata"] \subseteq DOMAIN failClaims["kafka.metadata"]
    BY <1>1 DEF stepFailures, failClaims, answerFailures, ProtocolSteps
<1> QED
    BY <1>1, <1>2, <1>3, <1>4, <1>5 DEF ProtocolSteps

LEMMA NotPerformedFacts ==
    /\ DOMAIN notPerformedClaims = Beyond \cup Withheld
    /\ \A c \in Beyond : notPerformedClaims[c][2] = "INFO"
    /\ \A c \in Withheld : notPerformedClaims[c][2] = "WARN"
  BY DEF notPerformedClaims, Beyond, Withheld

\* What the protocol rule makes of one node.
LEMMA ProtocolFacts ==
    ASSUME NEW e, e.step \in ProtocolSteps,
           e.step = "kafka.sasl_authenticate" /\ e.state = "FAIL" => e.class \notin Beyond \cup Withheld
    PROVE  /\ e.state = "FAIL" =>
                evaluateProtocol(e) = {Finding(e.step, "ERROR", e.layer, e.subject, {e})}
           /\ e.state # "FAIL" /\ e.step = "kafka.sasl_authenticate" /\ e.class \in Beyond \cup Withheld =>
                evaluateProtocol(e) =
                  {Finding(notPerformedClaims[e.class][1], notPerformedClaims[e.class][2], e.layer,
                           e.subject, {e} \cup (IF e.class = "POLICY"
                                                THEN RecordedIn({handshakeEv(at)}) ELSE {}))}
           /\ e.state # "FAIL"
              /\ (e.step # "kafka.sasl_authenticate" \/ e.class \notin Beyond \cup Withheld) =>
                evaluateProtocol(e) = {}
<1>1. ASSUME e.state = "FAIL"
      PROVE  evaluateProtocol(e) = {Finding(e.step, "ERROR", e.layer, e.subject, {e})}
    BY <1>1, FailuresAreClaimed, NotPerformedFacts DEF evaluateProtocol
<1>2. ASSUME e.state # "FAIL", e.step = "kafka.sasl_authenticate", e.class \in Beyond \cup Withheld
      PROVE  evaluateProtocol(e) =
               {Finding(notPerformedClaims[e.class][1], notPerformedClaims[e.class][2], e.layer,
                        e.subject, {e} \cup (IF e.class = "POLICY"
                                             THEN RecordedIn({handshakeEv(at)}) ELSE {}))}
    BY <1>2, NotPerformedFacts DEF evaluateProtocol
<1>3. ASSUME e.state # "FAIL", e.step # "kafka.sasl_authenticate" \/ e.class \notin Beyond \cup Withheld
      PROVE  evaluateProtocol(e) = {}
    BY <1>3, NotPerformedFacts DEF evaluateProtocol
<1> QED
    BY <1>1, <1>2, <1>3

\* The graph of a run the cluster did not describe itself to, ...
LEMMA BootstrapNodes ==
    ASSUME metadata.state # "PASS"
    PROVE  /\ SweepEvidence \subseteq KafkaEvidence
           /\ \A e \in KafkaEvidence :
                \/ e \in SweepEvidence
                \/ \E a \in Addr : e = versionsEv(a) \/ e = handshakeOf(a)
                \/ e = authEv \/ e = metadataEv
           /\ \A a \in Addr : apiVersions[a].state # "NONE" => versionsEv(a) \in KafkaEvidence
           /\ \A a \in Addr : handshake[a].state # "NONE" => handshakeOf(a) \in KafkaEvidence
           /\ auth.state # "NONE" => authEv \in KafkaEvidence
           /\ metadata.state # "NONE" => metadataEv \in KafkaEvidence
<1>1. KafkaEvidence =
        SweepEvidence \cup RecordedIn({versionsEv(a) : a \in Addr}
            \cup {handshakeOf(a) : a \in Addr} \cup {authEv, metadataEv})
    BY DEF KafkaEvidence
<1> QED
    BY <1>1, KafkaEvFacts DEF RecordedIn

\* ... and of one it did.
LEMMA TopologyNodes ==
    ASSUME metadata.state = "PASS"
    PROVE  /\ metadataEv \in KafkaEvidence
           /\ \A b \in advertised : advertisedEv(b) \in KafkaEvidence
           /\ \A b \in advertised : SweptEvidence(b) \subseteq KafkaEvidence
           /\ \A e \in KafkaEvidence : e.step \in ProtocolSteps => e = metadataEv
<1> DEFINE Of(b) == {advertisedEv(b)} \cup SweptEvidence(b)
<1>1. KafkaEvidence = {metadataEv} \cup UNION {Of(b) : b \in advertised}
    BY Zenon DEF KafkaEvidence
<1>2. \A b : \A e \in Of(b) : e.step \notin ProtocolSteps
    BY KafkaEvFacts DEF SweptEvidence, RecordedIn, ProtocolSteps
<1>3. \A b : advertisedEv(b) \in Of(b) /\ SweptEvidence(b) \subseteq Of(b)
    OBVIOUS
<1> HIDE DEF Of
<1> QED
    BY <1>1, <1>2, <1>3

\* The protocol rule speaks of the bootstrap endpoint alone.
LEMMA ProtocolClaims ==
    ASSUME OutcomeInv, at \in Addr, NEW f \in Protocol
    PROVE  /\ metadata.state # "PASS"
           /\ f.refs # {} /\ f.refs \subseteq KafkaEvidence
           /\ Problem(f) => /\ \E e \in f.refs : e.state = "FAIL"
                            /\ \A e \in f.refs : e.state = "FAIL"
<1>1. PICK e \in KafkaEvidence : e.step \in ProtocolSteps /\ f \in evaluateProtocol(e)
    BY FailuresAreClaimed DEF Protocol
<1>2. metadata.state # "PASS"
  <2> SUFFICES ASSUME metadata.state = "PASS" PROVE FALSE
      OBVIOUS
  <2>1. e = metadataEv
      BY <1>1, TopologyNodes
  <2>2. evaluateProtocol(e) = {}
      BY <1>1, <2>1, KafkaEvFacts, ProtocolFacts
  <2> QED
      BY <1>1, <2>2
<1>3. e.step = "kafka.sasl_authenticate" => e = authEv
    BY <1>1, <1>2, BootstrapNodes, KafkaEvFacts, SweepSteps
<1>4. e.step = "kafka.sasl_authenticate" /\ e.state = "FAIL" => e.class \notin Beyond \cup Withheld
    BY <1>3, KafkaEvFacts, NodesRecorded DEF OutcomeInv, AuthOutcome, Decided, CutShort, NoNode
<1>5. CASE e.state = "FAIL"
  <2>1. evaluateProtocol(e) = {Finding(e.step, "ERROR", e.layer, e.subject, {e})}
      BY <1>1, <1>4, <1>5, ProtocolFacts
  <2>2. f = Finding(e.step, "ERROR", e.layer, e.subject, {e})
      BY <1>1, <2>1
  <2> QED
      BY <1>1, <1>2, <1>5, <2>2, FindingFacts
<1>6. CASE e.state # "FAIL"
  <2> DEFINE refs == {e} \cup (IF e.class = "POLICY" THEN RecordedIn({handshakeEv(at)}) ELSE {})
  <2>1. e.step = "kafka.sasl_authenticate" /\ e.class \in Beyond \cup Withheld
    <3> SUFFICES ASSUME e.step # "kafka.sasl_authenticate" \/ e.class \notin Beyond \cup Withheld
                 PROVE  FALSE
        OBVIOUS
    <3>1. evaluateProtocol(e) = {}
        BY <1>1, <1>6, ProtocolFacts
    <3> QED
        BY <1>1, <3>1
  <2>2. f = Finding(notPerformedClaims[e.class][1], notPerformedClaims[e.class][2], e.layer,
                    e.subject, refs)
    <3>1. evaluateProtocol(e) =
            {Finding(notPerformedClaims[e.class][1], notPerformedClaims[e.class][2], e.layer,
                     e.subject, refs)}
        BY <1>1, <1>6, <2>1, ProtocolFacts
    <3> QED
        BY <1>1, <3>1
  <2>3. f.severity \in {"INFO", "WARN"} /\ f.refs = refs
    <3> HIDE DEF refs
    <3>1. f.severity = notPerformedClaims[e.class][2] /\ f.refs = refs
        BY <2>2, FindingFacts
    <3> QED
        BY <2>1, <3>1, NotPerformedFacts
  <2>4. RecordedIn({handshakeEv(at)}) \subseteq KafkaEvidence
    <3>1. RecordedIn({handshakeEv(at)}) \subseteq SweepEvidence
        BY DEF RecordedIn, SweepEvidence
    <3> QED
        BY <1>2, <3>1, BootstrapNodes
  <2> QED
      BY <1>1, <1>2, <2>3, <2>4 DEF Problem
<1> QED
    BY <1>2, <1>5, <1>6

\* Each node that says something is wrong has its claim.
LEMMA ProtocolClaimsAreMade ==
    ASSUME OutcomeInv, metadata.state # "PASS"
    PROVE  /\ \A a \in Addr : apiVersions[a].state = "FAIL" => \E f \in Protocol : Notable(f)
           /\ \A a \in Addr : handshake[a].state = "FAIL" => \E f \in Protocol : Notable(f)
           /\ auth.state = "FAIL" \/ auth.state = "SKIPPED" => \E f \in Protocol : Notable(f)
           /\ metadata.state = "FAIL" => \E f \in Protocol : Notable(f)
<1>1. ASSUME NEW e \in KafkaEvidence, e.step \in ProtocolSteps,
             NEW f \in evaluateProtocol(e), f.severity # "INFO"
      PROVE  \E g \in Protocol : Notable(g)
    BY <1>1, FailuresAreClaimed DEF Protocol, Notable
<1>2. ASSUME NEW e \in KafkaEvidence, e.step \in ProtocolSteps \ {"kafka.sasl_authenticate"},
             e.state = "FAIL"
      PROVE  \E g \in Protocol : Notable(g)
  <2>1. Finding(e.step, "ERROR", e.layer, e.subject, {e}) \in evaluateProtocol(e)
      BY <1>2, ProtocolFacts
  <2> QED
      BY <1>1, <1>2, <2>1, FindingFacts
<1>3. ASSUME NEW a \in Addr, apiVersions[a].state = "FAIL" \/ handshake[a].state = "FAIL"
      PROVE  \E f \in Protocol : Notable(f)
    BY <1>2, <1>3, BootstrapNodes, KafkaEvFacts DEF ProtocolSteps
<1>4. ASSUME metadata.state = "FAIL" PROVE \E f \in Protocol : Notable(f)
    BY <1>2, <1>4, BootstrapNodes, KafkaEvFacts DEF ProtocolSteps
<1>5. ASSUME auth.state = "FAIL" \/ auth.state = "SKIPPED" PROVE \E f \in Protocol : Notable(f)
  <2>1. /\ authEv \in KafkaEvidence /\ authEv.step \in ProtocolSteps
        /\ authEv.state = auth.state /\ authEv.class = auth.class
        /\ authEv.step = "kafka.sasl_authenticate"
      BY <1>5, BootstrapNodes, KafkaEvFacts DEF ProtocolSteps
  <2>2. /\ auth.state = "FAIL" => auth.class \notin Beyond \cup Withheld
        /\ auth.state = "SKIPPED" => auth.class \in Withheld
      BY <1>5, NodesRecorded DEF OutcomeInv, AuthOutcome, Decided, CutShort
  <2>3. CASE auth.state = "FAIL"
    <3>1. Finding(authEv.step, "ERROR", authEv.layer, authEv.subject, {authEv})
            \in evaluateProtocol(authEv)
        BY <2>1, <2>2, <2>3, ProtocolFacts
    <3> QED
        BY <1>1, <2>1, <3>1, FindingFacts
  <2>4. CASE auth.state = "SKIPPED"
    <3>1. PICK refs : evaluateProtocol(authEv) =
            {Finding(notPerformedClaims[auth.class][1], notPerformedClaims[auth.class][2],
                     authEv.layer, authEv.subject, refs)}
        BY <2>1, <2>2, <2>4, ProtocolFacts
    <3>2. Finding(notPerformedClaims[auth.class][1], notPerformedClaims[auth.class][2],
                  authEv.layer, authEv.subject, refs).severity = "WARN"
        BY <2>2, <2>4, FindingFacts, NotPerformedFacts
    <3> QED
        BY <1>1, <2>1, <3>1, <3>2
  <2> QED
      BY <1>5, <2>3, <2>4
<1> QED
    BY <1>3, <1>4, <1>5

-----------------------------------------------------------------------------
(* What the rules make of one advertised endpoint.                         *)

\* An endpoint's sweep came back, or was not begun.
Settled(b) ==
    /\ swept[b] \in Sweeps
    /\ \/ swept[b].done /\ TruthfulSweep(swept[b])
       \/ swept[b] = NotSwept

LEMMA NotSweptFacts ==
    /\ ~NotSwept.done /\ NotSwept.located = {} /\ NotSwept.dns = NoNode
    /\ \A a \in Addr : NotSwept.tcp[a] = NoNode /\ NotSwept.tls[a] = NoNode
    /\ NoNode.state = "NONE"
  BY DEF NotSwept, NoNodes, NoNode, Node

LEMMA SettledPaths ==
    ASSUME NEW b, Settled(b)
    PROVE  /\ pathsOf(b) = swept[b].located
           /\ swept[b].dns.state \in {"FAIL", "UNKNOWN"} => pathsOf(b) = {}
           /\ \A a \in pathsOf(b) :
                /\ a \in Addr
                /\ swept[b].tcp[a].state \in {"PASS", "FAIL", "UNKNOWN", "SKIPPED"}
                /\ swept[b].tls[a].state \in {"PASS", "FAIL", "UNKNOWN", "SKIPPED"}
                /\ reachedTerminal(b, a) <=> swept[b].tls[a].state = "PASS"
                /\ swept[b].tls[a].state = "SKIPPED" <=> swept[b].tcp[a].state # "PASS"
                /\ swept[b].tcp[a].state = "UNKNOWN" => CutShort(swept[b].tcp[a])
                /\ swept[b].tls[a].state = "UNKNOWN" => CutShort(swept[b].tls[a])
                /\ swept[b].tcp[a].state = "SKIPPED" =>
                     ctx # "live" /\ swept[b].tcp[a].class \in BudgetClasses
<1>1. CASE swept[b] = NotSwept
  <2>1. pathsOf(b) = {} /\ swept[b].located = {}
      BY <1>1, NotSweptFacts DEF pathsOf
  <2> QED
      BY <2>1
<1>2. CASE swept[b].done /\ TruthfulSweep(swept[b])
  <2>1. pathsOf(b) = swept[b].located
      BY <1>2 DEF Settled, Sweeps, TruthfulSweep, pathsOf
  <2>2. ASSUME NEW a \in pathsOf(b)
        PROVE  /\ a \in Addr
               /\ swept[b].tcp[a] # NoNode /\ swept[b].tls[a] # NoNode
               /\ swept[b].tcp[a] \in Nodes /\ swept[b].tls[a] \in Nodes
      BY <1>2, <2>1, <2>2 DEF Settled, Sweeps, TruthfulSweep
  <2>3. ASSUME NEW a \in pathsOf(b)
        PROVE  reachedTerminal(b, a) <=> swept[b].tls[a].state = "PASS"
      BY <2>2 DEF reachedTerminal, terminalIsTLS
  <2>4. ASSUME NEW a \in pathsOf(b)
        PROVE  /\ swept[b].tcp[a].state \in {"PASS", "FAIL", "UNKNOWN", "SKIPPED"}
               /\ swept[b].tls[a].state \in {"PASS", "FAIL", "UNKNOWN", "SKIPPED"}
               /\ swept[b].tcp[a].state = "UNKNOWN" => CutShort(swept[b].tcp[a])
               /\ swept[b].tls[a].state = "UNKNOWN" => CutShort(swept[b].tls[a])
      BY <1>2, <2>2 DEF TruthfulSweep, Explicit, Nodes
  <2>5. ASSUME NEW a \in pathsOf(b)
        PROVE  /\ swept[b].tls[a].state = "SKIPPED" <=> swept[b].tcp[a].state # "PASS"
               /\ swept[b].tcp[a].state = "SKIPPED" =>
                    ctx # "live" /\ swept[b].tcp[a].class \in BudgetClasses
      BY <1>2, <2>1, <2>2 DEF TruthfulSweep
  <2>6. swept[b].dns.state \in {"FAIL", "UNKNOWN"} => pathsOf(b) = {}
      BY <1>2, <2>1 DEF TruthfulSweep
  <2> QED
      BY <2>1, <2>2, <2>3, <2>4, <2>5, <2>6
<1> QED
    BY <1>1, <1>2 DEF Settled

\* A path that did not reach the end is owned by a node of the sweep.
LEMMA OwnersFacts ==
    ASSUME NEW b, Settled(b)
    PROVE  /\ failedLookups(b) \subseteq SweptEvidence(b)
           /\ \A e \in failedLookups(b) : e = rootEv(b)
           /\ swept[b].dns.state \notin {"NONE", "PASS"} => rootEv(b) \in failedLookups(b)
           /\ \A a \in pathsOf(b) : pathEv(b, a) \in SweptEvidence(b)
                                    /\ terminalEv(b, a) \in SweptEvidence(b)
           /\ owners(b) \subseteq SweptEvidence(b)
           /\ \A a \in pathsOf(b) : ~reachedTerminal(b, a) => owner(b, a) \in owners(b)
           /\ reachingNodes(b) \subseteq SweptEvidence(b)
<1>1. \A a \in pathsOf(b) : /\ pathEv(b, a) \in SweptEvidence(b)
                            /\ terminalEv(b, a) \in SweptEvidence(b)
    BY SettledPaths, KafkaEvFacts DEF SweptEvidence, RecordedIn
<1>2. /\ failedLookups(b) \subseteq SweptEvidence(b)
      /\ \A e \in failedLookups(b) : e = rootEv(b)
      /\ swept[b].dns.state \notin {"NONE", "PASS"} => rootEv(b) \in failedLookups(b)
    BY KafkaEvFacts DEF failedLookups, SweptEvidence, RecordedIn
<1>3. \A a \in pathsOf(b) : owner(b, a) \in SweptEvidence(b)
    BY <1>1 DEF owner
<1>4. /\ owners(b) \subseteq SweptEvidence(b)
      /\ \A a \in pathsOf(b) : ~reachedTerminal(b, a) => owner(b, a) \in owners(b)
    BY <1>2, <1>3 DEF owners
<1>5. reachingNodes(b) \subseteq SweptEvidence(b)
    BY <1>1 DEF reachingNodes
<1> QED
    BY <1>1, <1>2, <1>4, <1>5

\* Where the budget left nothing open, a path that did not reach the end failed.
LEMMA UnreachedPathsFailed ==
    ASSUME NEW b, Settled(b), NEW a \in pathsOf(b), ~reachedTerminal(b, a),
           ~isIncomplete(pathEv(b, a)), ~isIncomplete(terminalEv(b, a))
    PROVE  swept[b].tcp[a].state = "FAIL" \/ swept[b].tls[a].state = "FAIL"
  BY SettledPaths, KafkaEvFacts DEF isIncomplete

LEMMA NotReachedIsNegative ==
    ASSUME NEW b, Settled(b), ctx = "live", classifyAdvertised(b) = "notReached"
    PROVE  ObservedNegative(b)
<1> SUFFICES ASSUME b # "unusable", swept[b].dns.state # "FAIL" PROVE ObservedNegative(b)
    BY DEF ObservedNegative
<1>1. /\ ~\E e \in failedLookups(b) : e.state = "FAIL"
      /\ advertisedEv(b).state = "PASS"
    BY OwnersFacts, KafkaEvFacts
<1>2. /\ pathsOf(b) # {}
      /\ \A a \in pathsOf(b) : /\ ~reachedTerminal(b, a)
                               /\ ~CutShort(pathEv(b, a)) /\ ~CutShort(terminalEv(b, a))
    BY <1>1 DEF classifyAdvertised, unknownLocal
<1>3. ASSUME NEW a \in pathsOf(b)
      PROVE  swept[b].tcp[a].state = "FAIL" \/ swept[b].tls[a].state = "FAIL"
  <2>1. ~CutShort(swept[b].tcp[a]) /\ ~CutShort(swept[b].tls[a])
      BY <1>2, KafkaEvFacts DEF CutShort
  <2> QED
      BY <1>2, <2>1, SettledPaths
<1> QED
    BY <1>2, <1>3, SettledPaths DEF ObservedNegative

\* An endpoint is called unreachable on nodes that failed, each of its own.
LEMMA EvaluateClaims ==
    ASSUME NEW b, Settled(b), NEW f \in evaluate(b)
    PROVE  /\ f.code = "KAFKA_ADVERTISED_ENDPOINT_UNREACHABLE" /\ f.subject = Endpoint(b)
           /\ f.refs = {metadataEv, advertisedEv(b)} \cup owners(b)
           /\ b # "unusable"
           /\ \A a \in pathsOf(b) : ~reachedTerminal(b, a)
           /\ Problem(f) => /\ \E e \in f.refs : e.state = "FAIL"
                            /\ \A e \in owners(b) : ~isIncomplete(e)
                            /\ ObservedNegative(b)
<1> DEFINE left == \E e \in SweptEvidence(b) : isIncomplete(e)
           refs == {metadataEv, advertisedEv(b)} \cup owners(b)
<1>1. /\ b # "unusable" /\ failedOwners(b) # {}
      /\ \A a \in pathsOf(b) : ~reachedTerminal(b, a)
      /\ f = Finding("KAFKA_ADVERTISED_ENDPOINT_UNREACHABLE", IF left THEN "WARN" ELSE "ERROR",
                     6, Endpoint(b), refs)
    BY DEF evaluate
<1> HIDE DEF refs
<1>2. /\ f.code = "KAFKA_ADVERTISED_ENDPOINT_UNREACHABLE" /\ f.subject = Endpoint(b)
      /\ f.refs = refs /\ f.severity = IF left THEN "WARN" ELSE "ERROR"
    BY <1>1, FindingFacts
<1>3. PICK o \in owners(b) : o.state = "FAIL"
    BY <1>1 DEF failedOwners
<1>4. Problem(f) => ~left
    BY <1>2 DEF Problem
<1>5. ~left => \A e \in owners(b) : ~isIncomplete(e)
    BY OwnersFacts
<1>6. ASSUME ~left PROVE ObservedNegative(b)
  <2>1. CASE pathsOf(b) = {}
    <3>1. o \in failedLookups(b)
        BY <1>3, <2>1 DEF owners
    <3> QED
        BY <1>3, <3>1, OwnersFacts, KafkaEvFacts DEF ObservedNegative
  <2>2. CASE pathsOf(b) # {}
    <3>1. \A a \in pathsOf(b) : swept[b].tcp[a].state = "FAIL" \/ swept[b].tls[a].state = "FAIL"
        BY <1>1, <1>6, OwnersFacts, UnreachedPathsFailed
    <3> QED
        BY <2>2, <3>1, SettledPaths DEF ObservedNegative
  <2> QED
      BY <2>1, <2>2
<1> QED
    BY <1>1, <1>2, <1>3, <1>4, <1>5, <1>6 DEF refs

LEMMA UsabilityClaims ==
    ASSUME NEW b, NEW f \in evaluateUsability(b)
    PROVE  /\ b = "unusable" /\ f.code = "KAFKA_ADVERTISED_ENDPOINT_UNUSABLE"
           /\ f.subject = Endpoint(b) /\ f.severity = "ERROR"
           /\ f.refs = {metadataEv, advertisedEv(b)}
<1>1. /\ advertisedEv(b).state = "FAIL"
      /\ f = Finding("KAFKA_ADVERTISED_ENDPOINT_UNUSABLE", "ERROR", 6, Endpoint(b),
                     {metadataEv, advertisedEv(b)})
    BY DEF evaluateUsability
<1> QED
    BY <1>1, FindingFacts, KafkaEvFacts

\* The counts, and the hypothesis about the set, cite what was measured of it.
TopologyClaim(f) ==
    /\ ~Problem(f)
    /\ f.refs # {} /\ f.refs \subseteq KafkaEvidence
    /\ f.code \in {"KAFKA_ADVERTISED_TOPOLOGY_UNSUITABLE",
                   "KAFKA_ADVERTISED_TOPOLOGY_REACHABILITY"} => ~incomplete

LEMMA TopologyRefs ==
    ASSUME metadata.state = "PASS", \A b \in advertised : Settled(b)
    PROVE  /\ metadataEv \in KafkaEvidence
           /\ \A b \in advertised : /\ advertisedEv(b) \in KafkaEvidence
                                    /\ owners(b) \subseteq KafkaEvidence
           /\ failureRefs \subseteq KafkaEvidence
           /\ UNION {reachingNodes(b) : b \in Verdict("reached")} \subseteq KafkaEvidence
<1>1. \A b \in advertised : /\ owners(b) \subseteq KafkaEvidence
                            /\ reachingNodes(b) \subseteq KafkaEvidence
    BY OwnersFacts, TopologyNodes
<1>2. \A v : Verdict(v) \subseteq advertised
    BY DEF Verdict
<1>3. failureRefs \subseteq KafkaEvidence
    BY <1>1, <1>2 DEF failureRefs, failedOwners
<1>4. UNION {reachingNodes(b) : b \in Verdict("reached")} \subseteq KafkaEvidence
    BY <1>1, <1>2
<1> QED
    BY <1>1, <1>3, <1>4, TopologyNodes

LEMMA TopologyClaims ==
    ASSUME metadata.state = "PASS", \A b \in advertised : Settled(b),
           NEW f \in TopologyReachability \cup TopologyUnsuitable
    PROVE  TopologyClaim(f) /\ f.subject = Address(at)
<1>0. {advertisedEv(b) : b \in advertised} \subseteq KafkaEvidence
    BY TopologyRefs
<1>1. CASE f \in TopologyReachability
  <2> DEFINE refs == {metadataEv} \cup {advertisedEv(b) : b \in advertised} \cup failureRefs
                        \cup UNION {reachingNodes(b) : b \in Verdict("reached")}
             code == IF topologyComplete THEN "KAFKA_ADVERTISED_TOPOLOGY_REACHABILITY"
                     ELSE "KAFKA_ADVERTISED_TOPOLOGY_REACHABILITY_PARTIAL"
  <2>1. refs # {} /\ refs \subseteq KafkaEvidence
      BY <1>0, TopologyRefs
  <2>2. f = Finding(code, "INFO", 6, Address(at), refs)
      BY <1>1 DEF TopologyReachability
  <2> HIDE DEF refs
  <2>3. /\ f.code = code /\ f.severity = "INFO" /\ f.refs = refs
        /\ f.subject = Address(at)
      BY <2>2, FindingFacts
  <2> QED
      BY <2>1, <2>3 DEF TopologyClaim, Problem, topologyComplete
<1>2. CASE f \in TopologyUnsuitable
  <2> DEFINE refs == {metadataEv} \cup {advertisedEv(b) : b \in Verdict("notReached")}
                        \cup failureRefs
  <2>1. refs # {} /\ refs \subseteq KafkaEvidence
      BY <1>0, TopologyRefs DEF Verdict
  <2>2. topologyComplete
        /\ f = Finding("KAFKA_ADVERTISED_TOPOLOGY_UNSUITABLE", "WARN", 6, Address(at), refs)
      BY <1>2 DEF TopologyUnsuitable
  <2> HIDE DEF refs
  <2>3. f.severity = "WARN" /\ f.refs = refs /\ f.subject = Address(at)
      BY <2>2, FindingFacts
  <2> QED
      BY <2>1, <2>2, <2>3 DEF TopologyClaim, Problem, topologyComplete
<1> QED
    BY <1>1, <1>2

LEMMA AdvertisedSettled ==
    ASSUME KafkaInv, KafkaGraphInv
    PROVE  \A b \in advertised : b \in Kinds /\ Settled(b)
  BY DEF KafkaInv, KafkaTypeOK, SweptInv, KafkaGraphInv, RecordInv, Settled

\* What the findings of a finished run may say, by whether Metadata passed.
LEMMA BootstrapFindings ==
    ASSUME KafkaInv, KafkaGraphInv, stage = "done", metadata.state # "PASS",
           NEW f \in KafkaFindings
    PROVE  /\ advertised = {}
           /\ f.refs # {} /\ f.refs \subseteq KafkaEvidence
           /\ Problem(f) => /\ \E e \in f.refs : e.state = "FAIL"
                            /\ \A e \in f.refs : ~isIncomplete(e)
<1>1. pc = "returned" /\ advertised = {} /\ at \in Addr
    BY DEF KafkaInv, SocketInv, KafkaGraphInv, RecordInv, KafkaTypeOK
<1>2. CASE f \in FailureBoundary(KafkaEvidence)
    BY <1>1, <1>2, BoundaryFacts DEF Problem
<1>3. CASE f \in Protocol
    BY <1>1, <1>3, ProtocolClaims DEF KafkaGraphInv, isIncomplete
<1>4. CASE f \in TransportFindings
  <2>1. SweepClaim(f, SweepEvidence)
      BY <1>1, <1>4, SweepClaims DEF KafkaInv
  <2> QED
      BY <1>1, <2>1, BootstrapNodes DEF SweepClaim, isIncomplete
<1> QED
    BY <1>2, <1>3, <1>4 DEF KafkaFindings

LEMMA TopologyFindings ==
    ASSUME KafkaInv, KafkaGraphInv, stage = "done", metadata.state = "PASS",
           NEW f \in KafkaFindings
    PROVE  \/ f \in FailureBoundary(KafkaEvidence)
           \/ TopologyClaim(f) /\ f.subject = Address(at)
           \/ \E b \in advertised : f \in evaluate(b) \cup evaluateUsability(b)
<1>1. f \notin Protocol
    BY ProtocolClaims DEF KafkaGraphInv, KafkaInv, KafkaTypeOK
<1>2. \A b \in advertised : Settled(b)
    BY AdvertisedSettled
<1> QED
    BY <1>1, <1>2, TopologyClaims DEF KafkaFindings

LEMMA KafkaGrounded ==
    ASSUME KafkaInv, KafkaGraphInv, stage = "done"
    PROVE  KafkaFindingsGrounded
<1> SUFFICES ASSUME NEW f \in KafkaFindings
             PROVE  /\ f.refs # {} /\ f.refs \subseteq KafkaEvidence
                    /\ Problem(f) => /\ \E e \in f.refs : e.state = "FAIL"
                                     /\ \A e \in f.refs : ~isIncomplete(e)
                    /\ \A b \in advertised : f.subject = Endpoint(b) /\ Problem(f) =>
                         ObservedNegative(b)
                    /\ f.code \in {"KAFKA_ADVERTISED_TOPOLOGY_UNSUITABLE",
                                   "KAFKA_ADVERTISED_TOPOLOGY_REACHABILITY"} =>
                         \A b \in Verdict("notReached") : ObservedNegative(b)
    BY Zenon DEF KafkaFindingsGrounded, RefsResolve
<1>1. CASE metadata.state # "PASS"
    BY <1>1, BootstrapFindings DEF Verdict
<1>2. CASE metadata.state = "PASS"
  <2>1. \A b \in advertised : Settled(b)
      BY AdvertisedSettled
  <2>2. ~incomplete => ctx = "live"
      BY DEF KafkaInv, SweptInv, incompleteKafkaRun
  <2>3. ~incomplete => \A b \in Verdict("notReached") : ObservedNegative(b)
      BY <2>1, <2>2, NotReachedIsNegative DEF Verdict
  <2>4. \A b : ~isIncomplete(metadataEv) /\ ~isIncomplete(advertisedEv(b))
      BY <1>2, KafkaEvFacts DEF isIncomplete
  <2>5. CASE f \in FailureBoundary(KafkaEvidence)
      BY <2>5, BoundaryFacts DEF Problem
  <2>6. CASE TopologyClaim(f)
      BY <2>3, <2>6 DEF TopologyClaim
  <2>7. ASSUME NEW c \in advertised, f \in evaluate(c)
        PROVE  /\ f.refs # {} /\ f.refs \subseteq KafkaEvidence
               /\ Problem(f) => /\ \E e \in f.refs : e.state = "FAIL"
                                /\ \A e \in f.refs : ~isIncomplete(e)
               /\ f.subject = Endpoint(c) /\ (Problem(f) => ObservedNegative(c))
               /\ f.code = "KAFKA_ADVERTISED_ENDPOINT_UNREACHABLE"
      BY <1>2, <2>1, <2>4, <2>7, EvaluateClaims, TopologyRefs
  <2>8. ASSUME NEW c \in advertised, f \in evaluateUsability(c)
        PROVE  /\ f.refs # {} /\ f.refs \subseteq KafkaEvidence
               /\ Problem(f) => /\ \E e \in f.refs : e.state = "FAIL"
                                /\ \A e \in f.refs : ~isIncomplete(e)
               /\ f.subject = Endpoint(c) /\ (Problem(f) => ObservedNegative(c))
               /\ f.code = "KAFKA_ADVERTISED_ENDPOINT_UNUSABLE"
      BY <1>2, <2>1, <2>4, <2>8, UsabilityClaims, TopologyRefs, KafkaEvFacts
      DEF ObservedNegative
  <2>9. ASSUME NEW c \in advertised, f \in evaluate(c) \cup evaluateUsability(c),
               NEW b \in advertised, f.subject = Endpoint(b), Problem(f)
        PROVE  ObservedNegative(b)
      BY <2>7, <2>8, <2>9, EndpointSubjects
  <2> QED
      BY <1>2, <2>5, <2>6, <2>7, <2>8, <2>9, TopologyFindings
<1> QED
    BY <1>1, <1>2

\* A complete run the cluster did not describe itself to says why.
LEMMA BootstrapExplained ==
    ASSUME KafkaInv, KafkaGraphInv, stage = "done", ~incomplete, metadata.state # "PASS"
    PROVE  \/ \E f \in KafkaFindings : Notable(f)
           \/ auth.class \in {"UNSUPPORTED", "MECHANISM_UNSUPPORTED"}
<1>1. /\ ctx = "live" /\ pc = "returned"
      /\ \A n \in Recorded : ~CutShort(n)
    BY DEF KafkaInv, SweptInv, SocketInv, incompleteKafkaRun
<1>2. /\ ~CutShort(auth) /\ ~CutShort(metadata)
      /\ \A a \in Addr : ~CutShort(apiVersions[a]) /\ ~CutShort(handshake[a])
      /\ \A n \in SweepNodes : ~CutShort(n)
    BY <1>1 DEF Recorded
<1>3. /\ \A f \in Protocol : f \in KafkaFindings
      /\ \A f \in TransportFindings : f \in KafkaFindings
    BY DEF KafkaFindings
<1>4. OutcomeInv
    BY DEF KafkaGraphInv
<1>5. CASE \A a \in Addr : ~paths[a].conn
  <2>1. \E f \in TransportFindings : Notable(f)
      BY <1>1, <1>2, <1>5, SweepExplains DEF KafkaInv
  <2> QED
      BY <1>3, <2>1
<1>6. ASSUME NEW a \in Addr, paths[a].conn
      PROVE  \/ \E f \in KafkaFindings : Notable(f)
             \/ auth.class \in {"UNSUPPORTED", "MECHANISM_UNSUPPORTED"}
  <2>1. /\ apiVersions[a] # NoNode
        /\ apiVersions[a].state = "PASS" => handshake[a] # NoNode
      BY <1>6 DEF KafkaGraphInv, AskedInv, Final
  <2>2. \/ apiVersions[a].state = "FAIL" \/ handshake[a].state = "FAIL"
        \/ handshake[a].state = "PASS"
      BY <1>2, <2>1 DEF KafkaGraphInv, OutcomeInv, Decided
  <2>3. CASE apiVersions[a].state = "FAIL" \/ handshake[a].state = "FAIL"
      BY <1>3, <1>4, <2>3, ProtocolClaimsAreMade
  <2>4. CASE handshake[a].state = "PASS"
    <3>1. auth # NoNode
        BY <1>1, <2>4 DEF KafkaInv, MetadataInv, Final
    <3>2. \/ auth.state = "PASS" \/ auth.state = "FAIL" \/ auth.state = "SKIPPED"
          \/ auth.class \in {"UNSUPPORTED", "MECHANISM_UNSUPPORTED"}
        BY <1>2, <3>1 DEF KafkaGraphInv, OutcomeInv, AuthOutcome, Decided, Beyond
    <3>3. CASE auth.state = "PASS"
      <4>1. metadata.state = "FAIL"
          BY <1>2, <3>3 DEF KafkaGraphInv, RecordInv, OutcomeInv, Decided, Final
      <4> QED
          BY <1>3, <1>4, <4>1, ProtocolClaimsAreMade
    <3>4. CASE auth.state = "FAIL" \/ auth.state = "SKIPPED"
        BY <1>3, <1>4, <3>4, ProtocolClaimsAreMade
    <3> QED
        BY <3>2, <3>3, <3>4
  <2> QED
      BY <2>2, <2>3, <2>4
<1> QED
    BY <1>5, <1>6

\* An endpoint whose sweep is known was reached or was not, ...
LEMMA ResolvedIsClassified ==
    ASSUME NEW b \in advertised, Settled(b), b # "unusable", ctx = "live",
           advertisementResolved(swept[b])
    PROVE  /\ classifyAdvertised(b) \in {"reached", "notReached"}
           /\ classifyAdvertised(b) = "reached" <=>
                \E a \in pathsOf(b) : reachedTerminal(b, a)
<1>1. /\ advertisedEv(b).state = "PASS"
      /\ swept[b].done /\ ~CutShort(swept[b].dns) /\ Connections(swept[b]) = pathsOf(b)
    BY KafkaEvFacts DEF advertisementResolved, Connections, pathsOf
<1>2. \A e \in failedLookups(b) : /\ e.state = swept[b].dns.state /\ ~unknownLocal(e)
    BY <1>1, OwnersFacts, KafkaEvFacts DEF unknownLocal, CutShort
<1>3. CASE swept[b].dns.state = "FAIL"
  <2>1. \E e \in failedLookups(b) : e.state = "FAIL"
      BY <1>2, <1>3, OwnersFacts
  <2>2. pathsOf(b) = {}
      BY <1>3, SettledPaths
  <2>3. classifyAdvertised(b) = "notReached"
      BY <1>1, <1>2, <2>1 DEF classifyAdvertised
  <2> QED
      BY <2>2, <2>3
<1>4. CASE swept[b].dns.state # "FAIL"
  <2>1. ~\E e \in failedLookups(b) : e.state = "FAIL"
      BY <1>2, <1>4
  <2>2. pathsOf(b) # {}
      BY <1>1, <1>4 DEF advertisementResolved
  <2>3. CASE \E a \in pathsOf(b) : reachedTerminal(b, a)
    <3>1. classifyAdvertised(b) = "reached"
        BY <1>1, <1>2, <2>1, <2>2, <2>3 DEF classifyAdvertised
    <3> QED
        BY <2>3, <3>1
  <2>4. CASE \A a \in pathsOf(b) : ~reachedTerminal(b, a)
    <3>1. \A a \in pathsOf(b) : ~reachedTransport(swept[b], a)
      <4> SUFFICES ASSUME NEW a \in pathsOf(b), reachedTransport(swept[b], a) PROVE FALSE
          OBVIOUS
      <4>1. swept[b].tls[a].state = "PASS"
          BY SettledPaths DEF reachedTransport, NoNode
      <4> QED
          BY <2>4, <4>1, SettledPaths
    <3>2. \A a \in pathsOf(b) : ~CutShort(swept[b].tcp[a]) /\ ~CutShort(swept[b].tls[a])
        BY <1>1, <1>4, <3>1 DEF advertisementResolved
    <3>3. \A a \in pathsOf(b) : ~unknownLocal(pathEv(b, a)) /\ ~unknownLocal(terminalEv(b, a))
        BY <3>2, KafkaEvFacts DEF unknownLocal, CutShort
    <3>4. classifyAdvertised(b) = "notReached"
        BY <1>1, <1>2, <2>1, <2>2, <2>4, <3>3 DEF classifyAdvertised
    <3> QED
        BY <2>4, <3>4
  <2> QED
      BY <2>3, <2>4
<1> QED
    BY <1>3, <1>4

\* ... and has an ERROR of its own if it was not.
LEMMA UnreachedIsClaimed ==
    ASSUME NEW b, Settled(b), b # "unusable", ctx = "live", advertisementResolved(swept[b]),
           \A a \in pathsOf(b) : ~reachedTerminal(b, a)
    PROVE  \E f \in evaluate(b) : Problem(f) /\ f.subject = Endpoint(b)
<1> DEFINE left == \E e \in SweptEvidence(b) : isIncomplete(e)
           refs == {metadataEv, advertisedEv(b)} \cup owners(b)
<1>1. /\ swept[b].done /\ ~CutShort(swept[b].dns) /\ Connections(swept[b]) = pathsOf(b)
      /\ TruthfulSweep(swept[b])
    BY NotSweptFacts DEF advertisementResolved, Connections, pathsOf, Settled
<1>2. \A a \in pathsOf(b) : ~reachedTransport(swept[b], a)
  <2> SUFFICES ASSUME NEW a \in pathsOf(b), reachedTransport(swept[b], a) PROVE FALSE
      OBVIOUS
  <2>1. swept[b].tls[a].state = "PASS"
      BY SettledPaths DEF reachedTransport, NoNode
  <2> QED
      BY <2>1, SettledPaths
<1>3. \/ swept[b].dns.state = "FAIL" /\ pathsOf(b) = {}
      \/ /\ pathsOf(b) # {}
         /\ \A a \in pathsOf(b) : ~CutShort(swept[b].tcp[a]) /\ ~CutShort(swept[b].tls[a])
    BY <1>1, <1>2, SettledPaths DEF advertisementResolved
<1>4. \A a \in pathsOf(b) : ~isIncomplete(pathEv(b, a)) /\ ~isIncomplete(terminalEv(b, a))
  <2> SUFFICES ASSUME NEW a \in pathsOf(b)
               PROVE  ~isIncomplete(pathEv(b, a)) /\ ~isIncomplete(terminalEv(b, a))
      OBVIOUS
  <2>1. swept[b].tcp[a].state \in {"PASS", "FAIL"} /\ swept[b].tls[a].state # "UNKNOWN"
      BY <1>3, SettledPaths
  <2>2. swept[b].tls[a].state = "SKIPPED" => swept[b].tls[a].class \notin BudgetClasses
      BY <1>1, SettledPaths DEF TruthfulSweep, BudgetClasses
  <2> QED
      BY <2>1, <2>2, KafkaEvFacts DEF isIncomplete
<1>5. failedOwners(b) # {}
  <2>1. CASE swept[b].dns.state = "FAIL"
    <3>1. rootEv(b) \in failedLookups(b) /\ rootEv(b).state = "FAIL"
        BY <2>1, OwnersFacts, KafkaEvFacts
    <3> QED
        BY <3>1 DEF failedOwners, owners
  <2>2. CASE pathsOf(b) # {}
    <3>1. PICK a \in pathsOf(b) : TRUE
        BY <2>2
    <3>2. owner(b, a) \in owners(b)
        BY OwnersFacts
    <3>3. owner(b, a).state = "FAIL"
        BY <1>4, SettledPaths, KafkaEvFacts DEF owner, isIncomplete
    <3> QED
        BY <3>2, <3>3 DEF failedOwners
  <2> QED
      BY <1>3, <2>1, <2>2
<1>6. ~left
  <2>1. ~isIncomplete(rootEv(b))
    <3>1. swept[b].dns.state # "UNKNOWN" /\ swept[b].dns.state # "SKIPPED"
        BY <1>1 DEF TruthfulSweep, Explicit
    <3> QED
        BY <3>1, KafkaEvFacts DEF isIncomplete
  <2>2. \A a \in Addr \ pathsOf(b) : pathEv(b, a).state = "NONE" /\ terminalEv(b, a).state = "NONE"
    <3>1. pathsOf(b) = swept[b].located
        BY SettledPaths
    <3>2. \A a \in Addr \ pathsOf(b) : swept[b].tcp[a] = NoNode /\ swept[b].tls[a] = NoNode
        BY <1>1, <3>1 DEF TruthfulSweep
    <3>3. NoNode.state = "NONE"
        BY NotSweptFacts
    <3> HIDE DEF left, refs
    <3>4. ASSUME NEW a \in Addr \ pathsOf(b)
          PROVE  pathEv(b, a).state = "NONE" /\ terminalEv(b, a).state = "NONE"
      <4>1. swept[b].tcp[a].state = "NONE" /\ swept[b].tls[a].state = "NONE"
          BY <3>2, <3>3
      <4> QED
          BY <4>1, KafkaEvFacts
    <3> QED
        BY <3>4
  <2> QED
      BY <1>4, <2>1, <2>2 DEF SweptEvidence, RecordedIn
<1>7. evaluate(b) = {Finding("KAFKA_ADVERTISED_ENDPOINT_UNREACHABLE", "ERROR", 6, Endpoint(b), refs)}
    BY <1>5, <1>6 DEF evaluate
<1> HIDE DEF refs
<1> QED
    BY <1>7, FindingFacts DEF Problem

\* After Metadata, an endpoint was reached or has an ERROR of its own.
LEMMA TopologyExplained ==
    ASSUME KafkaInv, KafkaGraphInv, stage = "done", ~incomplete, metadata.state = "PASS",
           NEW b \in advertised
    PROVE  /\ classifyAdvertised(b) # "notMeasured"
           /\ classifyAdvertised(b) = "reached" <=>
                \A f \in KafkaFindings : ~(Problem(f) /\ f.subject = Endpoint(b))
<1>1. /\ ctx = "live"
      /\ \A c \in Usable : advertisementResolved(swept[c])
    BY DEF KafkaInv, SweptInv, incompleteKafkaRun
<1>2. \A c \in advertised : Settled(c)
    BY AdvertisedSettled
<1>3. \A f \in evaluate(b) \cup evaluateUsability(b) : f \in KafkaFindings
    BY DEF KafkaFindings
<1>4. CASE b = "unusable"
  <2>1. classifyAdvertised(b) = "notReached" /\ advertisedEv(b).state = "FAIL"
      BY <1>4, KafkaEvFacts DEF classifyAdvertised
  <2>2. Finding("KAFKA_ADVERTISED_ENDPOINT_UNUSABLE", "ERROR", 6, Endpoint(b),
                {metadataEv, advertisedEv(b)}) \in evaluateUsability(b)
      BY <2>1 DEF evaluateUsability
  <2> QED
      BY <1>3, <2>1, <2>2, FindingFacts DEF Problem
<1>5. CASE b # "unusable"
  <2>1. advertisementResolved(swept[b])
      BY <1>1, <1>5 DEF Usable
  <2>2. /\ classifyAdvertised(b) \in {"reached", "notReached"}
        /\ classifyAdvertised(b) = "reached" <=> \E a \in pathsOf(b) : reachedTerminal(b, a)
      BY <1>1, <1>2, <1>5, <2>1, ResolvedIsClassified
  <2>3. CASE \A a \in pathsOf(b) : ~reachedTerminal(b, a)
    <3>1. \E f \in evaluate(b) : Problem(f) /\ f.subject = Endpoint(b)
        BY <1>1, <1>2, <1>5, <2>1, <2>3, UnreachedIsClaimed
    <3> QED
        BY <1>3, <2>2, <2>3, <3>1
  <2>4. CASE \E a \in pathsOf(b) : reachedTerminal(b, a)
    <3> SUFFICES ASSUME NEW f \in KafkaFindings, Problem(f), f.subject = Endpoint(b)
                 PROVE  FALSE
        BY <2>2, <2>4
    <3>1. f \notin FailureBoundary(KafkaEvidence)
        BY BoundaryFacts DEF Problem
    <3>2. PICK c \in advertised : f \in evaluate(c) \cup evaluateUsability(c)
        BY <3>1, TopologyFindings DEF TopologyClaim
    <3>3. CASE f \in evaluate(c)
      <4>1. c = b
          BY <1>2, <3>3, EvaluateClaims, EndpointSubjects
      <4> QED
          BY <1>2, <2>4, <3>3, <4>1, EvaluateClaims
    <3>4. CASE f \in evaluateUsability(c)
      <4>1. c = b /\ c = "unusable"
          BY <3>4, UsabilityClaims, EndpointSubjects
      <4> QED
          BY <1>5, <4>1
    <3> QED
        BY <3>2, <3>3, <3>4
  <2> QED
      BY <2>3, <2>4
<1> QED
    BY <1>4, <1>5

\* A finished Kafka run is faithful, whatever a cluster advertises and wherever
\* its budget ends: an ERROR rests on nodes that failed and on none the budget
\* left open, an endpoint is called unreachable only if the network decided so
\* of each address of it, a complete run reached each advertised endpoint or
\* has an ERROR of its own for it, and without Metadata it says what stopped it.
THEOREM KafkaRunIsFaithful == KafkaSpec => []KafkaRunFaithful
<1>1. KafkaInv /\ KafkaGraphInv => KafkaRunFaithful
  <2> SUFFICES ASSUME KafkaInv, KafkaGraphInv PROVE KafkaRunFaithful
      OBVIOUS
  <2>1. CASE stage = "done"
    <3>1. KafkaFindingsGrounded
        BY <2>1, KafkaGrounded
    <3>2. ~incomplete /\ metadata.state # "PASS" =>
            \/ \E f \in KafkaFindings : Notable(f)
            \/ auth.class \in {"UNSUPPORTED", "MECHANISM_UNSUPPORTED"}
        BY <2>1, BootstrapExplained
    <3>3. ASSUME ~incomplete, metadata.state = "PASS", NEW b \in advertised
          PROVE  /\ classifyAdvertised(b) # "notMeasured"
                 /\ (classifyAdvertised(b) = "reached") =
                      (\A f \in KafkaFindings : ~(Problem(f) /\ f.subject = Endpoint(b)))
        BY <2>1, <3>3, TopologyExplained
    <3> QED
        BY <3>1, <3>2, <3>3 DEF KafkaRunFaithful, KafkaExplained
  <2>2. CASE stage # "done"
      BY <2>2 DEF KafkaRunFaithful, KafkaFindingsGrounded, KafkaExplained
  <2> QED
      BY <2>1, <2>2
<1> QED
    BY <1>1, KafkaInvariant, KafkaGraphInvariant, PTL
=============================================================================
