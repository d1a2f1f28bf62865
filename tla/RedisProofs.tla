----------------------------- MODULE RedisProofs -----------------------------
(***************************************************************************)
(* The credential and the sockets of a Redis run, for any set of addresses *)
(* and whatever the endpoints answer. Beside the sweep's own invariant the *)
(* inductive invariant says, stage by stage, which connections the run has *)
(* taken, what each session said, and what is decided before AUTH.         *)
(***************************************************************************)
EXTENDS RedisRules, TransportProofs

RedisStages == {"sweep", "paths", "hello", "helloRead", "select", "authenticate", "auth",
                "authRead", "identify", "identifyRead", "ping", "pinging", "pingRead",
                "leave", "done"}

\* The stages up to the one that sends the credential.
BeforeAuth == {"sweep", "paths", "hello", "helloRead", "select", "authenticate"}
InHello    == {"hello", "helloRead"}
AfterAuth  == RedisStages \ (BeforeAuth \cup {"done"})
Selected   == (AfterAuth \cup {"authenticate"}) \ {"leave"}

Replies == {"answered", "accepted", "rejected", "refused", "pong", "noperm", "stale"}
               \cup Refusals \cup Unanswered
Saying  == {"none"} \cup Peers \cup Refusals

RedisNodes == [state : {"NONE", "PASS", "FAIL", "UNKNOWN", "SKIPPED"},
               class : {"NONE", "TARGET", "REJECTED", "CANCELLED", "LOCAL_TIMEOUT",
                        "UNSUPPORTED", "AUTHZ_DENIED", "UNEXPECTED", "POLICY",
                        "INPUT_MISSING", "PREREQUISITE"}]

RedisTypeOK ==
    /\ credential \in BOOLEAN
    /\ peer \in [Addr -> Peers]
    /\ stage \in RedisStages
    /\ todo \subseteq Addr
    /\ at \in Addr
    /\ reply \in Replies
    /\ stage \in {"helloRead", "identifyRead"} =>
         reply \in {"answered"} \cup Refusals \cup Unanswered
    /\ said \in [Addr -> Saying]
    /\ hello \in [Addr -> RedisNodes]
    /\ identity \in RedisNodes /\ auth \in RedisNodes /\ ping \in RedisNodes
    /\ pingBlocked \in BOOLEAN
    /\ attempts \in {0, 1}

\* Which connections the run has, stage by stage.
SocketInv ==
    /\ stage = "sweep" => held = {} /\ pc # "closed" /\ HasSession = {}
    /\ stage \notin {"sweep", "done"} => pc = "returned"
    /\ stage = "done" => pc = "closed" /\ held = {}
    /\ \A a \in HasSession : ~Connected(paths[a])
    /\ stage \in InHello =>
         at \notin HasSession /\ held = HasSession \cup {at} /\ ~Connected(paths[at])
    /\ stage \in {"paths", "select"} => held = HasSession
    /\ held \subseteq HasSession \cup {at}
    /\ stage \notin InHello => held \subseteq HasSession
    /\ stage \in Selected => at \in HasSession
    /\ stage \in {"paths"} \cup InHello => \A a \in todo : Connected(paths[a])

\* What is decided before the credential is sent, and holds of it afterwards.
SecretInv ==
    /\ stage \in BeforeAuth => attempts = 0
    /\ stage \in BeforeAuth =>
         \A a \in Addr : hello[a].state = "PASS" => said[a] = peer[a]
    /\ stage = "authenticate" => said[at] # "sentinel"
    /\ attempts = 1 => /\ stage \notin BeforeAuth
                       /\ credential
                       /\ channel[at] = "tls_verified"
                       /\ hello[at].state = "PASS" => peer[at] # "sentinel"

RedisInv == RedisTypeOK /\ SocketInv /\ SecretInv

-----------------------------------------------------------------------------
(* The classifications.                                                    *)

LEMMA BrokenNode ==
    ASSUME NEW r, NEW e
    PROVE  /\ classifyBroken(r, e) \in RedisNodes
           /\ classifyBroken(r, e).state \in {"UNKNOWN", "FAIL"}
  BY DEF classifyBroken, RedisNodes, Node

LEMMA HelloNode ==
    ASSUME NEW r, NEW e
    PROVE  /\ classifyHello(r, e) \in RedisNodes
           /\ classifyHello(r, e).state \in {"PASS", "UNKNOWN", "FAIL"}
           /\ classifyHello(r, e).state = "PASS" <=> r = "answered"
  BY BrokenNode DEF classifyHello, Refusals, RedisNodes, Node

LEMMA AuthNode ==
    ASSUME NEW r, NEW e
    PROVE  /\ classifyAuth(r, e) \in RedisNodes
           /\ classifyAuth(r, e).state \in {"PASS", "UNKNOWN", "FAIL"}
  BY BrokenNode DEF classifyAuth, RedisNodes, Node

LEMMA PingNode ==
    ASSUME NEW r, NEW e
    PROVE  /\ classifyPing(r, e) \in RedisNodes
           /\ classifyPing(r, e).state \in {"PASS", "UNKNOWN", "FAIL"}
  BY BrokenNode DEF classifyPing, RedisNodes, Node

LEMMA OtherNodes ==
    /\ NoNode \in RedisNodes /\ NoNode.state = "NONE"
    /\ \A c \in {"POLICY", "INPUT_MISSING", "PREREQUISITE"} :
         Node("SKIPPED", c) \in RedisNodes /\ Node("SKIPPED", c).state = "SKIPPED"
  BY DEF NoNode, Node, RedisNodes

LEMMA HelloSaysType ==
    ASSUME NEW a \in Addr, NEW r \in {"answered"} \cup Refusals, peer \in [Addr -> Peers]
    PROVE  /\ HelloSays(a, r) \in Saying /\ HelloSays(a, r) # "none"
           /\ r = "answered" => HelloSays(a, r) = peer[a]
           /\ HelloSays(a, r) = "sentinel" => r = "answered"
  BY DEF HelloSays, Saying, Refusals, Peers

-----------------------------------------------------------------------------
(* The invariant.                                                          *)

LEMMA RedisInvInit == RedisInit => SweepInv /\ RedisInv
<1> SUFFICES ASSUME RedisInit PROVE SweepInv /\ RedisInv
    OBVIOUS
<1>1. SweepInv /\ held = {} /\ pc # "closed"
    BY SweepInit DEF RedisInit, TransportInit
<1>2. at \in Addr
    BY AddrAssumption DEF RedisInit
<1>3. RedisTypeOK
    BY <1>2, OtherNodes DEF RedisInit, RedisTypeOK, RedisStages, Replies, Saying
<1>4. SocketInv /\ SecretInv
    BY <1>1, OtherNodes DEF RedisInit, SocketInv, SecretInv, HasSession, BeforeAuth, InHello, Selected,
        AfterAuth
<1> QED
    BY <1>1, <1>3, <1>4 DEF RedisInv

\* The transport phase leaves the journey alone, and the sockets of a journey
\* that has begun.
LEMMA TransportingKeepsInv ==
    ASSUME SweepInv, RedisInv, Transporting
    PROVE  SweepInv' /\ RedisInv'
<1>1. SweepInv' /\ UNCHANGED redisVars /\ stage # "done"
    BY SweepRunStep DEF Transporting
<1>2. CASE stage = "sweep"
  <2>1. held' = {} /\ pc' # "closed"
      BY <1>1, <1>2, RunStepTakesNothing DEF Transporting, RedisInv, SocketInv
  <2> QED
      BY <1>1, <1>2, <2>1
      DEF redisVars, redisGraph, RedisInv, RedisTypeOK, SocketInv, SecretInv, HasSession,
          BeforeAuth, InHello, Selected, AfterAuth
<1>3. CASE stage # "sweep"
  <2>1. UNCHANGED <<pc, paths, channel, held>>
      BY <1>1, <1>3, RunStepAfterReturn DEF Transporting, RedisInv, SocketInv, ownerVars
  <2> QED
      BY <1>1, <1>3, <2>1
      DEF redisVars, redisGraph, RedisInv, RedisTypeOK, SocketInv, SecretInv, HasSession
<1> QED
    BY <1>2, <1>3

\* Stages and observations that touch no connection.
LEMMA QuietStageKeepsSweep ==
    ASSUME SweepInv, UNCHANGED transportVars
    PROVE  SweepInv' /\ UNCHANGED <<pc, paths, channel, held, open>>
  BY SweepQuiet DEF transportVars, ownerVars

LEMMA HelloingKeepsInv ==
    ASSUME SweepInv, RedisInv, Helloing
    PROVE  SweepInv' /\ RedisInv'
<1> USE DEF redisVars, redisGraph, runVars, RedisInv, RedisStages, BeforeAuth, InHello,
            Selected, AfterAuth
<1>1. CASE BeginPaths
  <2>1. SweepInv' /\ UNCHANGED <<pc, paths, channel, held>>
      BY <1>1, QuietStageKeepsSweep DEF BeginPaths
  <2>2. RedisTypeOK'
      BY <1>1 DEF BeginPaths, RedisTypeOK
  <2> QED
      BY <1>1, <2>1, <2>2 DEF BeginPaths, SocketInv, SecretInv, HasSession
<1>2. ASSUME NEW a \in Addr, SendHello(a) PROVE SweepInv' /\ RedisInv'
  <2>1. pc = "returned" /\ Connected(paths[a]) /\ a \notin HasSession
      BY <1>2 DEF SendHello, SocketInv, RedisTypeOK
  <2>2. SweepInv'
      BY <1>2, <2>1, SweepTakesPath DEF SendHello, JourneyKeeps, TakesPath
  <2>3. /\ paths'[a] = TakeConn(paths[a]) /\ ~Connected(paths'[a])
        /\ \A b \in Addr : b # a => paths'[b] = paths[b]
      BY <1>2, HolderFacts DEF SendHello, SweepInv, TransportTypeOK
  <2>4. RedisTypeOK'
      BY <1>2 DEF SendHello, RedisTypeOK
  <2>5. HasSession' = HasSession /\ HasSession \subseteq Addr
      BY <1>2 DEF SendHello, HasSession
  <2>6. SocketInv'
      BY <1>2, <2>1, <2>3, <2>5 DEF SendHello, SocketInv, RedisTypeOK
  <2>7. SecretInv'
      BY <1>2 DEF SendHello, SecretInv
  <2> QED
      BY <2>2, <2>4, <2>6, <2>7
<1>3. ASSUME NEW r \in {"answered"} \cup Refusals \cup Unanswered, HelloReturns(r)
      PROVE  SweepInv' /\ RedisInv'
  <2>1. SweepInv' /\ UNCHANGED <<pc, paths, channel, held>>
      BY <1>3, QuietStageKeepsSweep DEF HelloReturns
  <2>2. RedisTypeOK'
      BY <1>3 DEF HelloReturns, RedisTypeOK, Replies
  <2> QED
      BY <1>3, <2>1, <2>2 DEF HelloReturns, SocketInv, SecretInv, HasSession
<1>4. CASE RecordHello
  <2>0. /\ at \in Addr /\ pc = "returned" /\ at \notin HasSession /\ ~Connected(paths[at])
        /\ held = HasSession \cup {at} /\ stage' = "paths" /\ HasSession \subseteq Addr
        /\ hello' = [hello EXCEPT ![at] = classifyHello(reply, ctx)]
        /\ UNCHANGED <<pc, paths, todo, peer, at, attempts, channel, credential>>
      BY <1>4 DEF RecordHello, RedisTypeOK, SocketInv, HasSession
  <2>1. /\ \A b \in Addr : b # at => hello'[b] = hello[b]
        /\ hello'[at].state = "PASS" <=> reply = "answered"
      BY <2>0, HelloNode DEF RedisTypeOK
  <2>2. CASE reply \in Unanswered
    <3>1. UNCHANGED said /\ held' = held \ {at} /\ open' = open \ {at} /\ reply # "answered"
        BY <1>4, <2>2 DEF RecordHello, Unanswered, Broken
    <3>2. SweepInv'
        BY <1>4, <2>0, <3>1, SweepGivesUp DEF RecordHello, JourneyKeeps, GivesUp
    <3>3. RedisTypeOK'
        BY <1>4, <2>0, <3>1, HelloNode DEF RecordHello, RedisTypeOK
    <3> QED
        BY <2>0, <2>1, <3>1, <3>2, <3>3 DEF SocketInv, SecretInv, HasSession
  <2>3. CASE reply \notin Unanswered
    <3>1. /\ said' = [said EXCEPT ![at] = HelloSays(at, reply)]
          /\ UNCHANGED <<held, open>>
        BY <1>4, <2>3 DEF RecordHello
    <3>2. reply \in {"answered"} \cup Refusals
        BY <1>4, <2>3 DEF RecordHello, RedisTypeOK
    <3>3. SweepInv'
        BY <1>4, <3>1, SweepQuiet DEF RecordHello, transportVars, ownerVars
    <3>4. /\ said'[at] # "none" /\ said'[at] \in Saying
          /\ reply = "answered" => said'[at] = peer[at]
          /\ \A b \in Addr : b # at => said'[b] = said[b]
          /\ HasSession' = HasSession \cup {at}
        BY <2>0, <3>1, <3>2, HelloSaysType DEF RedisTypeOK, HasSession
    <3>5. RedisTypeOK'
        BY <1>4, <2>0, <3>1, <3>4, HelloNode DEF RecordHello, RedisTypeOK
    <3> QED
        BY <2>0, <2>1, <3>1, <3>3, <3>4, <3>5 DEF SocketInv, SecretInv
  <2> QED
      BY <2>2, <2>3
<1>5. CASE PathsDone
  <2>1. SweepInv' /\ UNCHANGED <<pc, paths, channel, held>>
      BY <1>5, QuietStageKeepsSweep DEF PathsDone
  <2>2. RedisTypeOK'
      BY <1>5 DEF PathsDone, RedisTypeOK
  <2> QED
      BY <1>5, <2>1, <2>2 DEF PathsDone, SocketInv, SecretInv, HasSession
<1> QED
    BY <1>1, <1>2, <1>3, <1>4, <1>5 DEF Helloing

\* A step that only moves on, towards or past PING, keeps the invariant.
LEMMA MovingOnKeepsInv ==
    ASSUME SweepInv, RedisInv, RedisTypeOK',
           UNCHANGED <<transportVars, credential, peer, at, said, hello, attempts>>,
           stage \in Selected \cup {"select"}, stage' \in AfterAuth,
           stage = "select" => stage' = "leave"
    PROVE  SweepInv' /\ RedisInv'
<1>1. SweepInv' /\ UNCHANGED <<pc, paths, channel, held>>
    BY QuietStageKeepsSweep
<1>2. HasSession' = HasSession
    BY DEF HasSession
<1> QED
    BY <1>1, <1>2 DEF RedisInv, SocketInv, SecretInv, Selected, AfterAuth, BeforeAuth, InHello,
                   RedisStages

\* IsChosen picks one of the sessions.
LEMMA ChosenIsCandidate ==
    ASSUME NEW a, NEW S, NEW D, NEW w, IsChosen(a, S, D, w)
    PROVE  a \in S
  BY DEF IsChosen, Eligible, Preferred

LEMMA AuthenticatingKeepsInv ==
    ASSUME SweepInv, RedisInv, Authenticating
    PROVE  SweepInv' /\ RedisInv'
<1> USE DEF redisVars, redisGraph, runVars, Selected, AfterAuth, RedisStages, BeforeAuth,
            InHello
<1>1. ASSUME NEW a \in Addr, Select(a) PROVE SweepInv' /\ RedisInv'
  <2>0. /\ a \in HasSession /\ pc = "returned" /\ held = HasSession /\ HasSession' = HasSession
        /\ HasSession \subseteq Addr /\ at' = a /\ attempts = 0 /\ stage' \notin InHello
        /\ UNCHANGED <<pc, paths, said, attempts, credential, channel, hello, peer>>
        /\ \A b \in HasSession : ~Connected(paths[b])
        /\ stage' \in {"leave", "ping", "authenticate"}
      BY <1>1, ChosenIsCandidate DEF Select, RedisInv, SocketInv, SecretInv, HasSession
  <2>1. SweepInv'
    <3>1. GivesUp(HasSession \ {a}) /\ JourneyKeeps
        BY <1>1 DEF Select, GivesUp, JourneyKeeps
    <3> QED
        BY <2>0, <3>1, SweepGivesUp
  <2>2. RedisTypeOK'
      BY <1>1 DEF Select, RedisInv, RedisTypeOK
  <2>3. SocketInv'
      BY <1>1, <2>0 DEF Select, SocketInv
  <2>4. SecretInv'
      BY <1>1, <2>0 DEF Select, RedisInv, SecretInv, IsSentinel
  <2> QED
      BY <2>1, <2>2, <2>3, <2>4 DEF RedisInv
<1>2. CASE NothingToSelect
  <2>1. RedisTypeOK'
      BY <1>2 DEF NothingToSelect, RedisInv, RedisTypeOK
  <2> QED
      BY <1>2, <2>1, MovingOnKeepsInv DEF NothingToSelect
<1>3. CASE Withhold
  <2>1. RedisTypeOK'
      BY <1>3, OtherNodes DEF Withhold, RedisInv, RedisTypeOK
  <2> QED
      BY <1>3, <2>1, MovingOnKeepsInv DEF Withhold
<1>4. CASE SendAuth
  <2>1. SweepInv' /\ UNCHANGED <<pc, paths, channel, held>>
      BY <1>4, QuietStageKeepsSweep DEF SendAuth
  <2>2. attempts = 0 /\ attempts' = 1
      BY <1>4 DEF SendAuth, RedisInv, SecretInv
  <2>3. RedisTypeOK'
      BY <1>4, <2>2 DEF SendAuth, RedisInv, RedisTypeOK
  <2>4. SocketInv'
      BY <1>4, <2>1 DEF SendAuth, RedisInv, SocketInv, HasSession
  <2>5. SecretInv'
      BY <1>4, <2>1, <2>2
      DEF SendAuth, PermitsCredentials, RedisInv, SecretInv, RedisTypeOK
  <2> QED
      BY <2>1, <2>3, <2>4, <2>5 DEF RedisInv
<1>5. ASSUME NEW r \in {"accepted", "rejected", "refused"} \cup Unanswered, AuthReturns(r)
      PROVE  SweepInv' /\ RedisInv'
  <2>1. RedisTypeOK'
      BY <1>5 DEF AuthReturns, RedisInv, RedisTypeOK, Replies
  <2> QED
      BY <1>5, <2>1, MovingOnKeepsInv DEF AuthReturns
<1>6. CASE RecordAuth
  <2>1. RedisTypeOK' /\ stage' \in AfterAuth
      BY <1>6, AuthNode DEF RecordAuth, RedisInv, RedisTypeOK
  <2> QED
      BY <1>6, <2>1, MovingOnKeepsInv DEF RecordAuth
<1>7. ASSUME NEW r \in {"answered"} \cup Refusals \cup Unanswered, IdentifyReturns(r)
      PROVE  SweepInv' /\ RedisInv'
  <2>1. RedisTypeOK'
      BY <1>7 DEF IdentifyReturns, RedisInv, RedisTypeOK, Replies
  <2> QED
      BY <1>7, <2>1, MovingOnKeepsInv DEF IdentifyReturns
<1>8. CASE RecordIdentity
  <2>1. SweepInv' /\ UNCHANGED <<pc, paths, channel, held>>
      BY <1>8, QuietStageKeepsSweep DEF RecordIdentity
  <2>2. /\ said' \in [Addr -> Saying]
        /\ HasSession \subseteq HasSession' /\ HasSession' \subseteq HasSession \cup {at}
    <3>1. CASE reply \in Unanswered
        BY <1>8, <3>1 DEF RecordIdentity, RedisInv, RedisTypeOK, HasSession
    <3>2. CASE reply \notin Unanswered
      <4>1. HelloSays(at, reply) \in Saying /\ HelloSays(at, reply) # "none"
          BY <1>8, <3>2, HelloSaysType DEF RecordIdentity, RedisInv, RedisTypeOK
      <4> QED
          BY <1>8, <3>2, <4>1 DEF RecordIdentity, RedisInv, RedisTypeOK, HasSession
    <3> QED
        BY <3>1, <3>2
  <2>3. RedisTypeOK' /\ stage' \in AfterAuth
      BY <1>8, <2>2, HelloNode DEF RecordIdentity, RedisInv, RedisTypeOK
  <2>4. \A a \in HasSession' : ~Connected(paths[a])
      BY <1>8, <2>2 DEF RecordIdentity, RedisInv, SocketInv
  <2>5. SocketInv'
      BY <1>8, <2>1, <2>2, <2>3, <2>4 DEF RecordIdentity, RedisInv, SocketInv
  <2>6. SecretInv'
      BY <1>8, <2>1, <2>3 DEF RecordIdentity, RedisInv, SecretInv
  <2> QED
      BY <2>1, <2>3, <2>5, <2>6 DEF RedisInv
<1> QED
    BY <1>1, <1>2, <1>3, <1>4, <1>5, <1>6, <1>7, <1>8 DEF Authenticating

LEMMA PingingKeepsInv ==
    ASSUME SweepInv, RedisInv, Pinging
    PROVE  SweepInv' /\ RedisInv'
<1> USE DEF redisVars, redisGraph, runVars, Selected, AfterAuth, RedisStages, BeforeAuth
<1>1. CASE SkipPing
  <2>1. RedisTypeOK'
      BY <1>1, OtherNodes DEF SkipPing, RedisInv, RedisTypeOK
  <2> QED
      BY <1>1, <2>1, MovingOnKeepsInv DEF SkipPing
<1>2. CASE SendPing
  <2>1. RedisTypeOK'
      BY <1>2 DEF SendPing, RedisInv, RedisTypeOK
  <2> QED
      BY <1>2, <2>1, MovingOnKeepsInv DEF SendPing
<1>3. ASSUME NEW r \in {"pong", "noperm", "refused", "stale"} \cup Unanswered, PingReturns(r)
      PROVE  SweepInv' /\ RedisInv'
  <2>1. RedisTypeOK'
      BY <1>3 DEF PingReturns, RedisInv, RedisTypeOK, Replies
  <2> QED
      BY <1>3, <2>1, MovingOnKeepsInv DEF PingReturns
<1>4. CASE RecordPing
  <2>1. RedisTypeOK'
      BY <1>4, PingNode DEF RecordPing, RedisInv, RedisTypeOK
  <2> QED
      BY <1>4, <2>1, MovingOnKeepsInv DEF RecordPing
<1> QED
    BY <1>1, <1>2, <1>3, <1>4 DEF Pinging

LEMMA LeaveKeepsInv ==
    ASSUME SweepInv, RedisInv, Leave
    PROVE  SweepInv' /\ RedisInv'
<1> USE DEF redisVars, redisGraph, runVars, RedisStages, BeforeAuth, InHello, Selected,
            AfterAuth
<1>1. /\ pc = "returned" /\ held \subseteq HasSession
      /\ \A b \in HasSession : ~Connected(paths[b])
      /\ HasSession' = HasSession /\ HasSession \subseteq Addr
    BY DEF Leave, RedisInv, SocketInv, HasSession
<1>2. SweepInv'
  <2>1. LeavesSweep(HasSession) /\ JourneyKeeps
      BY DEF Leave, LeavesSweep, JourneyKeeps
  <2> QED
      BY <1>1, <2>1, SweepLeaves
<1>3. RedisTypeOK' /\ held' = {} /\ pc' = "closed" /\ stage' = "done"
    BY <1>1 DEF Leave, RedisInv, RedisTypeOK
<1>4. \A a \in Addr : ~Connected(paths'[a])
    BY HolderFacts DEF Leave, SweepInv, TransportTypeOK
<1>5. SocketInv'
    BY <1>1, <1>3, <1>4 DEF SocketInv
<1>6. SecretInv'
    BY <1>3 DEF Leave, RedisInv, SecretInv
<1> QED
    BY <1>2, <1>3, <1>5, <1>6 DEF RedisInv

LEMMA RedisStep == SweepInv /\ RedisInv /\ [RedisNext]_journeyVars => SweepInv' /\ RedisInv'
<1> SUFFICES ASSUME SweepInv, RedisInv, [RedisNext]_journeyVars PROVE SweepInv' /\ RedisInv'
    OBVIOUS
<1>1. CASE UNCHANGED journeyVars
  <2>1. SweepInv' /\ UNCHANGED <<pc, paths, channel, held>>
      BY <1>1, QuietStageKeepsSweep DEF journeyVars
  <2> QED
      BY <1>1, <2>1
      DEF journeyVars, redisVars, redisGraph, RedisInv, RedisTypeOK, SocketInv, SecretInv,
          HasSession
<1> QED
    BY <1>1, TransportingKeepsInv, HelloingKeepsInv, AuthenticatingKeepsInv, PingingKeepsInv,
       LeaveKeepsInv
    DEF RedisNext, RedisOver

THEOREM RedisInvariant == RedisSpec => [](SweepInv /\ RedisInv)
  BY RedisInvInit, RedisStep, PTL DEF RedisSpec

\* ADR 0064 for any set of addresses and any answers: in a run the credential
\* crosses at most one connection once, only over a channel whose peer that
\* connection's own handshake verified, never to a self-declared Sentinel.
THEOREM RedisCredentialCrossesOnce == RedisSpec => []CredentialDiscipline
<1>1. SweepInv /\ RedisInv => CredentialDiscipline
  <2> SUFFICES ASSUME SweepInv, RedisInv PROVE CredentialDiscipline
      OBVIOUS
  <2>1. attempts = 1 => pc # "failed" /\ at \in Addr
      BY DEF RedisInv, RedisTypeOK, SocketInv, SecretInv, BeforeAuth, RedisStages
  <2> QED
      BY <2>1
      DEF CredentialDiscipline, RedisInv, RedisTypeOK, SecretInv, SweepInv, ChannelInv
<1> QED
    BY <1>1, RedisInvariant, PTL

\* No socket of a Redis run outlives it, for any set of addresses: broken
\* HELLOs, sessions given up at selection and paths never reached included.
THEOREM RedisSocketsEndWithTheRun == RedisSpec => []NoSocketOutlivesRun
<1>1. SweepInv /\ RedisInv => NoSocketOutlivesRun
  <2> SUFFICES ASSUME SweepInv, RedisInv PROVE NoSocketOutlivesRun
      OBVIOUS
  <2>1. CASE stage = "done"
      BY <2>1, ReturnedSockets DEF SweepInv, RedisInv, SocketInv, NoSocketOutlivesRun
  <2>2. CASE stage \notin {"sweep", "done"}
    <3>1. ASSUME NEW a \in open PROVE (a \in held) # Connected(paths[a])
      <4>1. /\ a \in held => ~Connected(paths[a])
            /\ Connected(paths[a]) \/ a \in held
          BY <2>2, ReturnedSockets DEF SweepInv, RedisInv, SocketInv
      <4> QED
          BY <4>1 DEF Connected
    <3> QED
        BY <2>2, <3>1 DEF NoSocketOutlivesRun
  <2>3. CASE stage = "sweep"
      BY <2>3 DEF NoSocketOutlivesRun
  <2> QED
      BY <2>1, <2>2, <2>3
<1> QED
    BY <1>1, RedisInvariant, PTL
-----------------------------------------------------------------------------
(* What the nodes of the graph can say, and when.                          *)

\* A step that was tried has a verdict, or met svcdoctor's own limit.
Tried(n) == Decided(n) \/ (n.state = "UNKNOWN" /\ n.class = "UNSUPPORTED")

AuthWithheld(n) == n.state = "SKIPPED" /\ n.class \in {"POLICY", "INPUT_MISSING"}
PingRefused(n)  == n.state = "UNKNOWN" /\ n.class \in {"AUTHZ_DENIED", "UNEXPECTED"}

OutcomeInv ==
    /\ \A a \in Addr : said[a] = "none" =>
         hello[a] = NoNode \/ (Tried(hello[a]) /\ hello[a].state # "PASS")
    /\ auth = NoNode \/ Tried(auth) \/ AuthWithheld(auth)
    /\ ping = NoNode \/ Tried(ping) \/ PingRefused(ping) \/ ping.state = "SKIPPED"

\* Every completed path was asked, or waits, unless the budget ended; and a
\* session is on a completed path.
AskedInv ==
    /\ stage = "sweep" /\ pc # "failed" => WholePaths
    /\ stage \in {"paths"} \cup InHello =>
         \A a \in Addr : paths[a].conn =>
            hello[a] # NoNode \/ a \in todo \/ (stage \in InHello /\ a = at)
    /\ stage \notin {"sweep", "paths"} \cup InHello /\ ctx = "live" =>
         \A a \in Addr : paths[a].conn => hello[a] # NoNode
    /\ stage \in InHello => paths[at].conn
    /\ \A a \in HasSession : paths[a].conn

\* PING comes last, after whatever authentication there was.
PingInv ==
    /\ stage \notin {"leave", "done"} => ping = NoNode /\ ~pingBlocked
    /\ stage \in {"pinging", "pingRead"} => ~IsBlocked
    /\ ping # NoNode => at \in HasSession
    /\ PingAfterAuthentication

\* The selected endpoint said it is a Sentinel, before or after AUTH.
MetSentinel == peer[at] = "sentinel" /\ (hello[at].state = "PASS" \/ identity.state = "PASS")

\* A Sentinel is not pinged; and a run with budget left that did not come to
\* PING met one, or had no session.
SentinelInv ==
    /\ stage \in BeforeAuth \cup {"auth", "authRead", "identify", "identifyRead"} =>
         identity = NoNode
    /\ stage \in BeforeAuth => \A a \in Addr : said[a] = "sentinel" =>
                               hello[a].state = "PASS" /\ peer[a] = "sentinel"
    /\ stage \in Selected \/ ping # NoNode => ~MetSentinel
    /\ stage \in {"leave", "done"} /\ ctx = "live" =>
         ping # NoNode \/ MetSentinel \/ HasSession = {}
    /\ stage = "done" => (incomplete <=> incompleteRun(Recorded, FALSE))

RedisGraphInv ==
    EvidenceInv /\ OutcomeInv /\ AskedInv /\ PingInv /\ SentinelInv

LEMMA TriedFacts ==
    ASSUME NEW r, NEW e \in {"live"} \cup Endings
    PROVE  /\ Tried(classifyBroken(r, e)) /\ classifyBroken(r, e).state # "PASS"
           /\ r \in Unanswered => Tried(classifyHello(r, e)) /\ classifyHello(r, e).state # "PASS"
           /\ classifyHello(r, e) # NoNode
           /\ Tried(classifyAuth(r, e))
           /\ Tried(classifyPing(r, e)) \/ PingRefused(classifyPing(r, e))
<1>1. Tried(classifyBroken(r, e)) /\ classifyBroken(r, e).state # "PASS"
    BY DEF classifyBroken, Node, Tried, Decided, CutShort, BudgetClasses, Endings
<1>2. r \in Unanswered => classifyHello(r, e) = classifyBroken(r, e)
    BY DEF classifyHello, Unanswered, Broken, Refusals
<1>3. classifyHello(r, e) # NoNode
    BY HelloNode, OtherNodes
<1>4. Tried(classifyAuth(r, e))
    BY <1>1 DEF classifyAuth, Node, Tried, Decided
<1>5. Tried(classifyPing(r, e)) \/ PingRefused(classifyPing(r, e))
    BY <1>1 DEF classifyPing, Node, Tried, Decided, PingRefused
<1> QED
    BY <1>1, <1>2, <1>3, <1>4, <1>5

LEMMA RedisGraphInit == RedisInit => RedisGraphInv
<1> SUFFICES ASSUME RedisInit PROVE RedisGraphInv
    OBVIOUS
<1>1. EvidenceInv /\ WholePaths
    BY EvidenceInit, WholeInit DEF RedisInit
<1>2. /\ \A a \in Addr : said[a] = "none" /\ hello[a] = NoNode
      /\ HasSession = {} /\ identity.state = "NONE" /\ ping = NoNode
    BY OtherNodes DEF RedisInit, HasSession
<1>3. OutcomeInv
    BY <1>2 DEF RedisInit, OutcomeInv
<1>4. AskedInv /\ PingInv
    BY <1>1, <1>2 DEF RedisInit, AskedInv, InHello, PingInv, PingAfterAuthentication
<1>5. SentinelInv
    BY <1>2 DEF RedisInit, SentinelInv, Selected, AfterAuth, BeforeAuth, RedisStages
<1> QED
    BY <1>1, <1>3, <1>4, <1>5 DEF RedisGraphInv

LEMMA TransportingKeepsGraph ==
    ASSUME SweepInv, RedisInv, RedisGraphInv, Transporting
    PROVE  RedisGraphInv'
<1> USE DEF redisVars, redisGraph
<1>1. /\ UNCHANGED <<peer, stage, todo, at, said, hello, identity, auth, ping, pingBlocked,
                     incomplete>>
      /\ stage # "done" /\ HasSession' = HasSession
    BY DEF Transporting, HasSession
<1>2. EvidenceInv' /\ (ctx' = "live" => ctx = "live")
    BY EvidenceRunStep, BudgetStaysEnded DEF Transporting, RedisGraphInv, SweepInv
<1>3. stage # "sweep" => UNCHANGED <<pc, paths>>
    BY <1>1, RunStepAfterReturn DEF Transporting, RedisInv, SocketInv, ownerVars
<1>4. stage = "sweep" /\ pc' # "failed" => WholePaths'
  <2>1. pc' # "failed" => pc # "failed"
      BY FailureIsFinal DEF Transporting
  <2> QED
      BY <2>1, WholeRunStep DEF Transporting, RedisGraphInv, AskedInv, SweepInv
<1>5. OutcomeInv' /\ PingInv'
    BY <1>1 DEF RedisGraphInv, OutcomeInv, PingInv, PingAfterAuthentication, IsBlocked
<1>6. SentinelInv'
    BY <1>1, <1>2 DEF RedisGraphInv, SentinelInv, MetSentinel
<1>7. AskedInv'
    BY <1>1, <1>2, <1>3, <1>4 DEF RedisGraphInv, AskedInv, RedisInv, SocketInv, InHello
<1> QED
    BY <1>2, <1>5, <1>6, <1>7 DEF RedisGraphInv

\* A step before the selection that records nothing and takes no connection.
LEMMA QuietHelloKeepsGraph ==
    ASSUME SweepInv, RedisInv, RedisGraphInv, AskedInv',
           UNCHANGED <<transportVars, peer, at, said, redisGraph>>,
           stage \in {"sweep", "paths"} \cup InHello, stage' \in {"paths", "select"} \cup InHello
    PROVE  RedisGraphInv'
<1> USE DEF redisGraph
<1>1. EvidenceInv'
    BY EvidenceQuiet DEF RedisGraphInv
<1>2. OutcomeInv' /\ PingInv'
    BY DEF RedisGraphInv, OutcomeInv, PingInv, PingAfterAuthentication, InHello
<1>3. SentinelInv'
    BY DEF RedisGraphInv, SentinelInv, InHello, BeforeAuth, Selected, AfterAuth, RedisStages,
           PingInv
<1> QED
    BY <1>1, <1>2, <1>3 DEF RedisGraphInv

LEMMA HelloingKeepsGraph ==
    ASSUME SweepInv, RedisInv, RedisGraphInv, Helloing
    PROVE  RedisGraphInv'
<1> USE DEF redisGraph, InHello
<1>1. CASE BeginPaths
  <2>1. UNCHANGED <<ctx, pc, paths>> /\ HasSession' = HasSession
      BY <1>1 DEF BeginPaths, transportVars, clockVars, ownerVars, HasSession
  <2>2. AskedInv'
      BY <1>1, <2>1 DEF BeginPaths, RedisGraphInv, AskedInv, WholePaths
  <2> QED
      BY <1>1, <2>2, QuietHelloKeepsGraph DEF BeginPaths
<1>2. ASSUME NEW a \in Addr, SendHello(a) PROVE RedisGraphInv'
  <2>1. /\ pc = "returned" /\ paths[a].conn /\ HasSession' = HasSession
        /\ HasSession \subseteq Addr
      BY <1>2 DEF SendHello, RedisInv, SocketInv, Connected, HasSession
  <2>2. EvidenceInv'
      BY <1>2, <2>1, EvidenceJourneyStep DEF SendHello, runVars, JourneyKeeps, RedisGraphInv
  <2>3. \A b \in Addr : paths'[b].conn = paths[b].conn
      BY <1>2, HolderConn DEF SendHello, SweepInv, TransportTypeOK
  <2>4. OutcomeInv' /\ PingInv'
    <3>1. OutcomeInv'
        BY <1>2 DEF SendHello, RedisGraphInv, OutcomeInv
    <3>2. ping = NoNode /\ ping' = NoNode /\ stage' = "hello" /\ ~pingBlocked'
        BY <1>2 DEF SendHello, RedisGraphInv, PingInv
    <3> QED
        BY <3>1, <3>2 DEF PingInv, PingAfterAuthentication
  <2>5. SentinelInv'
      BY <1>2
      DEF SendHello, RedisGraphInv, PingInv, SentinelInv, BeforeAuth, Selected, AfterAuth
  <2>6. AskedInv'
      BY <1>2, <2>1, <2>3 DEF SendHello, RedisGraphInv, AskedInv
  <2> QED
      BY <2>2, <2>4, <2>5, <2>6 DEF RedisGraphInv
<1>3. ASSUME NEW r, HelloReturns(r) PROVE RedisGraphInv'
  <2>1. UNCHANGED <<ctx, pc, paths>> /\ HasSession' = HasSession
      BY <1>3 DEF HelloReturns, transportVars, clockVars, ownerVars, HasSession
  <2>2. AskedInv'
      BY <1>3, <2>1 DEF HelloReturns, RedisGraphInv, AskedInv
  <2> QED
      BY <1>3, <2>2, QuietHelloKeepsGraph DEF HelloReturns
<1>4. CASE RecordHello
  <2>1. /\ pc = "returned" /\ at \in Addr /\ at \notin HasSession /\ stage' = "paths"
        /\ UNCHANGED <<ctx, pc, paths, todo, at, peer, identity, auth, ping, pingBlocked>>
        /\ stage = "helloRead" /\ ctx \in {"live"} \cup Endings
        /\ hello'[at] = classifyHello(reply, ctx)
        /\ \A b \in Addr : b # at => hello'[b] = hello[b]
      BY <1>4
      DEF RecordHello, runVars, clockVars, RedisInv, RedisTypeOK, SocketInv, SweepInv,
          TransportTypeOK
  <2>2. EvidenceInv'
      BY <1>4, <2>1, EvidenceJourneyStep DEF RecordHello, runVars, JourneyKeeps, RedisGraphInv
  <2>3. /\ \A b \in Addr : b # at => said'[b] = said[b]
        /\ said'[at] = "none" => Tried(hello'[at]) /\ hello'[at].state # "PASS"
        /\ said'[at] = "sentinel" => hello'[at].state = "PASS" /\ peer[at] = "sentinel"
    <3>1. CASE reply \in Unanswered
      <4>1. said' = said /\ said[at] = "none"
          BY <1>4, <2>1, <3>1 DEF RecordHello, HasSession
      <4> QED
          BY <2>1, <3>1, <4>1, TriedFacts
    <3>2. CASE reply \notin Unanswered
      <4>1. said' = [said EXCEPT ![at] = HelloSays(at, reply)]
            /\ reply \in {"answered"} \cup Refusals
          BY <1>4, <3>2 DEF RecordHello, RedisInv, RedisTypeOK
      <4>2. /\ said'[at] = HelloSays(at, reply)
            /\ \A b \in Addr : b # at => said'[b] = said[b]
          BY <2>1, <4>1 DEF RedisInv, RedisTypeOK
      <4>3. /\ HelloSays(at, reply) # "none"
            /\ HelloSays(at, reply) = "sentinel" => reply = "answered" /\ peer[at] = "sentinel"
          BY <2>1, <4>1, HelloSaysType DEF RedisInv, RedisTypeOK
      <4> QED
          BY <2>1, <4>2, <4>3, HelloNode
    <3> QED
        BY <3>1, <3>2
  <2>4. HasSession' \subseteq HasSession \cup {at} /\ hello'[at] # NoNode
      BY <2>1, <2>3, TriedFacts DEF HasSession
  <2>5. OutcomeInv'
      BY <2>1, <2>3 DEF RedisGraphInv, OutcomeInv
  <2>6. PingInv'
    <3>1. ping = NoNode /\ ~pingBlocked
        BY <2>1 DEF RedisGraphInv, PingInv
    <3> QED
        BY <2>1, <3>1 DEF PingInv, PingAfterAuthentication
  <2>7. SentinelInv'
    <3>1. ping = NoNode /\ identity = NoNode
        BY <2>1 DEF RedisGraphInv, PingInv, SentinelInv, BeforeAuth
    <3>2. \A a \in Addr : said'[a] = "sentinel" => hello'[a].state = "PASS" /\ peer'[a] = "sentinel"
        BY <2>1, <2>3 DEF RedisGraphInv, SentinelInv, BeforeAuth
    <3> QED
        BY <2>1, <3>1, <3>2 DEF SentinelInv, BeforeAuth, Selected, AfterAuth
  <2>8. AskedInv'
      BY <2>1, <2>4 DEF RedisGraphInv, AskedInv
  <2> QED
      BY <2>2, <2>5, <2>6, <2>7, <2>8 DEF RedisGraphInv
<1>5. CASE PathsDone
  <2>1. UNCHANGED <<ctx, pc, paths>> /\ HasSession' = HasSession
      BY <1>5 DEF PathsDone, transportVars, clockVars, ownerVars, HasSession
  <2>2. AskedInv'
      BY <1>5, <2>1 DEF PathsDone, RedisGraphInv, AskedInv
  <2> QED
      BY <1>5, <2>2, QuietHelloKeepsGraph DEF PathsDone
<1> QED
    BY <1>1, <1>2, <1>3, <1>4, <1>5 DEF Helloing

\* One session goes on, unless the budget ended or it is a Sentinel; or there
\* is none.
LEMMA SelectingKeepsGraph ==
    ASSUME SweepInv, RedisInv, RedisGraphInv, NothingToSelect \/ \E a \in Addr : Select(a)
    PROVE  RedisGraphInv'
<1> USE DEF redisGraph, InHello
<1>0. stage = "select" /\ UNCHANGED <<peer, said, hello, identity, auth, ping, pingBlocked>>
    BY DEF NothingToSelect, Select
<1>1. /\ pc = "returned" /\ stage = "select" /\ ping = NoNode /\ ~pingBlocked
      /\ identity = NoNode
      /\ UNCHANGED <<peer, said, hello, identity, auth, ping, pingBlocked>>
      /\ HasSession' = HasSession
  <2>1. pc = "returned"
      BY <1>0 DEF RedisInv, SocketInv
  <2>2. ping = NoNode /\ ~pingBlocked
      BY <1>0 DEF RedisGraphInv, PingInv
  <2>3. identity = NoNode
      BY <1>0 DEF RedisGraphInv, SentinelInv, BeforeAuth
  <2> QED
      BY <1>0, <2>1, <2>2, <2>3 DEF HasSession
<1>2. CASE NothingToSelect
  <2>1. UNCHANGED <<ctx, pc, paths, at>> /\ EvidenceInv'
      BY <1>2, EvidenceQuiet
      DEF NothingToSelect, RedisGraphInv, transportVars, clockVars, ownerVars
  <2>2. OutcomeInv' /\ PingInv'
      BY <1>1, <1>2
      DEF NothingToSelect, RedisGraphInv, OutcomeInv, PingInv, PingAfterAuthentication
  <2>3. AskedInv'
      BY <1>1, <1>2, <2>1 DEF NothingToSelect, RedisGraphInv, AskedInv
  <2>4. SentinelInv'
      BY <1>1, <1>2
      DEF NothingToSelect, RedisGraphInv, SentinelInv, BeforeAuth, Selected, AfterAuth
  <2> QED
      BY <2>1, <2>2, <2>3, <2>4 DEF RedisGraphInv
<1>3. ASSUME NEW a \in Addr, Select(a) PROVE RedisGraphInv'
  <2>1. /\ a \in HasSession /\ at' = a /\ UNCHANGED <<ctx, pc, paths>>
        /\ stage' \in {"leave", "ping", "authenticate"}
        /\ stage' = "leave" => ctx # "live" \/ said[a] = "sentinel"
        /\ stage' # "leave" => said[a] # "sentinel"
      BY <1>3, ChosenIsCandidate DEF Select, runVars, clockVars, IsSentinel
  <2>2. EvidenceInv'
      BY <1>1, <1>3, EvidenceJourneyStep DEF Select, runVars, JourneyKeeps, RedisGraphInv
  <2>3. OutcomeInv' /\ PingInv'
      BY <1>1, <2>1 DEF RedisGraphInv, OutcomeInv, PingInv, PingAfterAuthentication
  <2>4. AskedInv'
      BY <1>1, <2>1 DEF RedisGraphInv, AskedInv
  <2>5. /\ said[a] = "sentinel" => hello[a].state = "PASS" /\ peer[a] = "sentinel"
        /\ hello[a].state = "PASS" => said[a] = peer[a]
        /\ identity.state # "PASS"
      BY <1>1, OtherNodes DEF RedisGraphInv, SentinelInv, RedisInv, SecretInv, BeforeAuth
  <2>6. SentinelInv'
      BY <1>1, <2>1, <2>5
      DEF RedisGraphInv, SentinelInv, MetSentinel, BeforeAuth, Selected, AfterAuth, RedisStages
  <2> QED
      BY <2>2, <2>3, <2>4, <2>6 DEF RedisGraphInv
<1> QED
    BY <1>2, <1>3

\* A step past the selection keeps what was asked of the paths.
LEMMA PastSelectionKeepsGraph ==
    ASSUME SweepInv, RedisInv, RedisGraphInv,
           UNCHANGED <<transportVars, peer, at, hello>>,
           stage \in Selected, stage' \in AfterAuth,
           \A a \in Addr : said'[a] = "none" <=> said[a] = "none",
           auth' = auth \/ Tried(auth') \/ AuthWithheld(auth'),
           ping' = ping \/ Tried(ping') \/ PingRefused(ping') \/ ping'.state = "SKIPPED",
           PingInv', SentinelInv'
    PROVE  RedisGraphInv'
<1>1. UNCHANGED <<ctx, pc, paths>> /\ EvidenceInv'
    BY EvidenceQuiet DEF RedisGraphInv, transportVars, clockVars, ownerVars
<1>2. HasSession' = HasSession
    BY DEF HasSession
<1>3. OutcomeInv'
    BY DEF RedisGraphInv, OutcomeInv
<1>4. AskedInv'
    BY <1>1, <1>2
    DEF RedisGraphInv, AskedInv, Selected, AfterAuth, BeforeAuth, InHello, RedisStages
<1> QED
    BY <1>1, <1>3, <1>4 DEF RedisGraphInv

LEMMA AuthenticatingKeepsGraph ==
    ASSUME SweepInv, RedisInv, RedisGraphInv, Authenticating
    PROVE  RedisGraphInv'
<1> USE DEF redisGraph, Selected, AfterAuth, BeforeAuth, RedisStages
<1>0. stage \notin {"leave", "done"} => ping = NoNode /\ ~pingBlocked
    BY DEF RedisGraphInv, PingInv
<1>1. ASSUME UNCHANGED <<transportVars, peer, at, said, hello, identity, ping, pingBlocked>>,
             auth' = auth \/ Tried(auth') \/ AuthWithheld(auth'),
             stage \in {"authenticate", "auth", "authRead", "identify"},
             stage' \in {"auth", "authRead", "identify", "identifyRead", "ping"}
      PROVE  RedisGraphInv'
  <2>1. PingInv'
      BY <1>0, <1>1 DEF PingInv, PingAfterAuthentication
  <2>2. SentinelInv'
      BY <1>0, <1>1 DEF RedisGraphInv, SentinelInv, MetSentinel
  <2> QED
      BY <1>1, <2>1, <2>2, PastSelectionKeepsGraph
<1>2. CASE Withhold
  <2>1. AuthWithheld(auth')
      BY <1>2 DEF Withhold, AuthWithheld, Node
  <2> QED
      BY <1>1, <1>2, <2>1 DEF Withhold
<1>3. CASE SendAuth
    BY <1>1, <1>3 DEF SendAuth
<1>4. ASSUME NEW r, AuthReturns(r) \/ IdentifyReturns(r) PROVE RedisGraphInv'
    BY <1>1, <1>4 DEF AuthReturns, IdentifyReturns
<1>5. CASE RecordAuth
  <2>1. Tried(auth')
      BY <1>5, TriedFacts DEF RecordAuth, SweepInv, TransportTypeOK
  <2> QED
      BY <1>1, <1>5, <2>1 DEF RecordAuth
<1>6. CASE RecordIdentity
  <2>1. /\ at \in Addr /\ said[at] # "none" /\ peer' = peer /\ at' = at /\ hello' = hello
        /\ ping' = NoNode /\ ~pingBlocked' /\ stage' \in {"leave", "ping"}
      BY <1>0, <1>6 DEF RecordIdentity, RedisInv, RedisTypeOK, SocketInv, HasSession
  <2>2. \A a \in Addr : said'[a] = "none" <=> said[a] = "none"
    <3>1. CASE reply \in Unanswered
        BY <1>6, <3>1 DEF RecordIdentity
    <3>2. CASE reply \notin Unanswered
      <4>1. reply \in {"answered"} \cup Refusals
            /\ said' = [said EXCEPT ![at] = HelloSays(at, reply)]
          BY <1>6, <3>2 DEF RecordIdentity, RedisInv, RedisTypeOK
      <4>2. HelloSays(at, reply) # "none"
          BY <2>1, <4>1, HelloSaysType DEF RedisInv, RedisTypeOK
      <4> QED
          BY <2>1, <4>1, <4>2 DEF RedisInv, RedisTypeOK
    <3> QED
        BY <3>1, <3>2
  <2>3. PingInv'
      BY <2>1 DEF PingInv, PingAfterAuthentication
  <2>4. /\ identity'.state = "PASS" <=> reply = "answered"
        /\ stage' = "leave" <=> reply = "answered" /\ peer[at] = "sentinel"
        /\ ~MetSentinel
      BY <1>6, HelloNode DEF RecordIdentity, RedisGraphInv, SentinelInv
  <2>5. MetSentinel' <=> stage' = "leave"
      BY <2>1, <2>4 DEF MetSentinel
  <2>6. SentinelInv'
      BY <2>1, <2>5 DEF SentinelInv
  <2> QED
      BY <1>6, <2>1, <2>2, <2>3, <2>6, PastSelectionKeepsGraph DEF RecordIdentity
<1> QED
    BY <1>2, <1>3, <1>4, <1>5, <1>6, SelectingKeepsGraph DEF Authenticating

LEMMA PingingKeepsGraph ==
    ASSUME SweepInv, RedisInv, RedisGraphInv, Pinging
    PROVE  RedisGraphInv'
<1> USE DEF redisGraph, Selected, AfterAuth, BeforeAuth, RedisStages
<1>0. /\ stage \notin {"leave", "done"} => ping = NoNode /\ ~pingBlocked
      /\ stage \in Selected => at \in HasSession /\ ~MetSentinel
    BY DEF RedisGraphInv, PingInv, SentinelInv, RedisInv, SocketInv
<1>1. CASE SkipPing
  <2>1. ping'.state = "SKIPPED" /\ ping' # NoNode /\ HasSession' = HasSession
      BY <1>1, OtherNodes DEF SkipPing, HasSession
  <2>2. auth # NoNode /\ auth.state \in {"FAIL", "UNKNOWN", "SKIPPED"}
      BY <1>1
      DEF SkipPing, IsBlocked, RedisGraphInv, OutcomeInv, Tried, Decided, CutShort, AuthWithheld
  <2>3. PingInv'
      BY <1>0, <1>1, <2>1, <2>2 DEF SkipPing, PingInv, PingAfterAuthentication
  <2>4. SentinelInv'
      BY <1>0, <1>1, <2>1 DEF SkipPing, SentinelInv, MetSentinel
  <2> QED
      BY <1>1, <2>1, <2>3, <2>4, PastSelectionKeepsGraph DEF SkipPing
<1>2. ASSUME SendPing \/ \E r : PingReturns(r) PROVE RedisGraphInv'
  <2>1. /\ UNCHANGED <<transportVars, peer, at, said, hello, identity, auth, ping, pingBlocked>>
        /\ stage \in {"ping", "pinging"} /\ stage' \in {"pinging", "pingRead"} /\ ~IsBlocked
      BY <1>2 DEF SendPing, PingReturns, RedisGraphInv, PingInv
  <2>2. PingInv'
      BY <1>0, <2>1 DEF PingInv, PingAfterAuthentication, IsBlocked
  <2>3. SentinelInv'
      BY <1>0, <2>1 DEF SentinelInv, MetSentinel
  <2> QED
      BY <2>1, <2>2, <2>3, PastSelectionKeepsGraph
<1>3. CASE RecordPing
  <2>1. /\ Tried(ping') \/ PingRefused(ping')
        /\ ping'.state \in {"PASS", "UNKNOWN", "FAIL"}
      BY <1>3, TriedFacts, PingNode DEF RecordPing, SweepInv, TransportTypeOK
  <2>2. ping' # NoNode /\ HasSession' = HasSession
      BY <1>3, <2>1, OtherNodes DEF RecordPing, HasSession
  <2>3. ~IsBlocked /\ auth' = auth /\ pingBlocked' = FALSE
    <3>1. ~IsBlocked /\ ~pingBlocked
        BY <1>3 DEF RecordPing, RedisGraphInv, PingInv
    <3>2. pingBlocked \in BOOLEAN
        BY DEF RedisInv, RedisTypeOK
    <3> QED
        BY <1>3, <3>1, <3>2 DEF RecordPing
  <2>4. PingInv'
      BY <1>0, <1>3, <2>1, <2>2, <2>3
      DEF RecordPing, PingInv, PingAfterAuthentication, IsBlocked
  <2>5. SentinelInv'
      BY <1>0, <1>3, <2>2 DEF RecordPing, SentinelInv, MetSentinel
  <2> QED
      BY <1>3, <2>1, <2>4, <2>5, PastSelectionKeepsGraph DEF RecordPing
<1> QED
    BY <1>1, <1>2, <1>3 DEF Pinging

LEMMA LeaveKeepsGraph ==
    ASSUME SweepInv, RedisInv, RedisGraphInv, Leave
    PROVE  RedisGraphInv'
<1> USE DEF redisGraph, Selected, AfterAuth, BeforeAuth, InHello, RedisStages
<1>1. /\ pc = "returned" /\ stage = "leave" /\ stage' = "done"
      /\ UNCHANGED <<ctx, dns, tcp, tls, peer, at, said, hello, identity, auth, ping, pingBlocked>>
      /\ HasSession' = HasSession /\ HasSession \subseteq Addr
    BY DEF Leave, runVars, clockVars, graphVars, RedisInv, SocketInv, HasSession
<1>2. EvidenceInv'
    BY <1>1, EvidenceJourneyStep DEF Leave, runVars, JourneyKeeps, RedisGraphInv
<1>3. \A b \in Addr : paths'[b].conn = paths[b].conn
    BY HolderConn DEF Leave, SweepInv, TransportTypeOK
<1>4. incomplete' <=> incompleteRun(Recorded, FALSE)'
    BY <1>1 DEF Leave, incompleteRun, Recorded, SweepNodes
<1>5. OutcomeInv' /\ PingInv'
    BY <1>1 DEF RedisGraphInv, OutcomeInv, PingInv, PingAfterAuthentication
<1>6. AskedInv'
    BY <1>1, <1>3 DEF RedisGraphInv, AskedInv
<1>7. SentinelInv'
    BY <1>1, <1>4 DEF RedisGraphInv, SentinelInv, MetSentinel
<1> QED
    BY <1>2, <1>5, <1>6, <1>7 DEF RedisGraphInv

LEMMA RedisGraphStep ==
    SweepInv /\ RedisInv /\ RedisGraphInv /\ [RedisNext]_journeyVars => RedisGraphInv'
<1> SUFFICES ASSUME SweepInv, RedisInv, RedisGraphInv, [RedisNext]_journeyVars
             PROVE  RedisGraphInv'
    OBVIOUS
<1>1. CASE UNCHANGED journeyVars
  <2> USE DEF journeyVars, redisVars, redisGraph
  <2>1. UNCHANGED <<ctx, pc, paths, dns, tcp, tls>> /\ EvidenceInv' /\ HasSession' = HasSession
      BY <1>1, EvidenceQuiet
      DEF transportVars, clockVars, graphVars, ownerVars, RedisGraphInv, HasSession
  <2>2. OutcomeInv' /\ PingInv'
      BY <1>1, <2>1
      DEF RedisGraphInv, OutcomeInv, PingInv, PingAfterAuthentication, IsBlocked
  <2>3. AskedInv'
      BY <1>1, <2>1 DEF RedisGraphInv, AskedInv, WholePaths
  <2>4. SentinelInv'
      BY <1>1, <2>1
      DEF RedisGraphInv, SentinelInv, MetSentinel, incompleteRun, Recorded, SweepNodes
  <2> QED
      BY <2>1, <2>2, <2>3, <2>4 DEF RedisGraphInv
<1> QED
    BY <1>1, TransportingKeepsGraph, HelloingKeepsGraph, AuthenticatingKeepsGraph,
       PingingKeepsGraph, LeaveKeepsGraph
    DEF RedisNext, RedisOver

-----------------------------------------------------------------------------
(* What the rules make of the graph.                                       *)

LEMMA RedisEvFacts ==
    /\ \A a \in Addr : /\ helloEv(a).step = "redis.hello" /\ helloEv(a).layer = 4
                       /\ helloEv(a).subject = Address(a)
                       /\ helloEv(a).state = hello[a].state
                       /\ helloEv(a).class = hello[a].class
    /\ identityEv.step = "redis.hello" /\ identityEv.layer = 4
    /\ identityEv.subject = Address(at) /\ identityEv.state = identity.state
    /\ authEv.step = "redis.authentication" /\ authEv.layer = 5
    /\ authEv.subject = Address(at)
    /\ authEv.state = auth.state /\ authEv.class = auth.class
    /\ pingEv.step = "redis.ping" /\ pingEv.layer = 5 /\ pingEv.subject = Address(at)
    /\ pingEv.state = ping.state /\ pingEv.class = ping.class
  BY RecordedFacts DEF helloEv, identityEv, authEv, pingEv

\* The nodes of each step, and no others.
LEMMA RedisNodesAt ==
    /\ \A e \in nodesAt(RedisEvidence, "redis.hello") :
          e \in RedisEvidence /\ (e = identityEv \/ \E a \in Addr : e = helloEv(a))
    /\ \A e \in nodesAt(RedisEvidence, "redis.authentication") :
          e \in RedisEvidence /\ e = authEv
    /\ \A e \in nodesAt(RedisEvidence, "redis.ping") : e \in RedisEvidence /\ e = pingEv
    /\ \A a \in Addr : hello[a].state # "NONE" =>
          helloEv(a) \in nodesAt(RedisEvidence, "redis.hello")
    /\ identity.state # "NONE" => identityEv \in nodesAt(RedisEvidence, "redis.hello")
    /\ auth.state # "NONE" => authEv \in nodesAt(RedisEvidence, "redis.authentication")
    /\ ping.state # "NONE" => pingEv \in nodesAt(RedisEvidence, "redis.ping")
    /\ \A e \in RedisEvidence : e.layer \in 0..6
  BY RedisEvFacts, SweepSteps DEF RedisEvidence, RecordedIn, nodesAt

\* A finding about one step's node: what it rests on, and about whom.
RedisClaim(f, e, severities) ==
    /\ e \in RedisEvidence /\ f.refs = {e} /\ f.subject = e.subject /\ f.layer = e.layer
    /\ f.severity \in severities /\ ~CutShort(e)

\* The claims the two evaluations may make, and of which nodes.
LEMMA AuthenticationFacts ==
    ASSUME NEW e
    PROVE  /\ \A c \in evaluateAuthentication(e) :
                /\ c[2] \in {"ERROR", "WARN"} /\ ~CutShort(e)
                /\ c[2] = "ERROR" => e.state = "FAIL"
           /\ e.state = "FAIL" \/ AuthWithheld(e) => evaluateAuthentication(e) # {}
<1>1. CASE e.state = "SKIPPED" /\ e.class = "POLICY"
  <2>1. evaluateAuthentication(e) = {<<"REDIS_CREDENTIAL_WITHHELD", "WARN">>}
      BY <1>1 DEF evaluateAuthentication
  <2> QED
      BY <1>1, <2>1 DEF CutShort
<1>2. CASE e.state = "SKIPPED" /\ e.class = "INPUT_MISSING"
  <2>1. evaluateAuthentication(e) = {<<"REDIS_CREDENTIAL_NOT_CONFIGURED", "WARN">>}
      BY <1>2 DEF evaluateAuthentication
  <2> QED
      BY <1>2, <2>1 DEF CutShort
<1>3. CASE e.state = "FAIL" /\ e.class = "REJECTED"
  <2>1. evaluateAuthentication(e) = {<<"REDIS_CREDENTIALS_REJECTED", "ERROR">>}
      BY <1>3 DEF evaluateAuthentication
  <2> QED
      BY <1>3, <2>1 DEF CutShort
<1>4. CASE e.state = "FAIL" /\ e.class # "REJECTED"
  <2>1. evaluateAuthentication(e) = {<<"REDIS_AUTHENTICATION_NOT_COMPLETED", "ERROR">>}
      BY <1>4 DEF evaluateAuthentication
  <2> QED
      BY <1>4, <2>1 DEF CutShort
<1>5. CASE e.state # "FAIL" /\ ~AuthWithheld(e)
  <2>1. evaluateAuthentication(e) = {}
      BY <1>5 DEF evaluateAuthentication, AuthWithheld
  <2> QED
      BY <1>5, <2>1
<1> QED
    BY <1>1, <1>2, <1>3, <1>4, <1>5 DEF AuthWithheld

LEMMA PingFacts ==
    ASSUME NEW e
    PROVE  /\ \A c \in evaluatePing(e) : /\ c[2] \in {"ERROR", "WARN"} /\ ~CutShort(e)
                                         /\ c[2] = "ERROR" => e.state = "FAIL"
           /\ e.state = "FAIL" \/ PingRefused(e) => evaluatePing(e) # {}
<1>1. CASE e.state = "UNKNOWN" /\ e.class = "AUTHZ_DENIED"
  <2>1. evaluatePing(e) = {<<"REDIS_COMMAND_NOT_PERMITTED", "WARN">>}
      BY <1>1 DEF evaluatePing
  <2> QED
      BY <1>1, <2>1 DEF CutShort, BudgetClasses
<1>2. CASE e.state = "UNKNOWN" /\ e.class = "UNEXPECTED"
  <2>1. evaluatePing(e) = {<<"REDIS_ENDPOINT_NOT_SERVING", "WARN">>}
      BY <1>2 DEF evaluatePing
  <2> QED
      BY <1>2, <2>1 DEF CutShort, BudgetClasses
<1>3. CASE e.state = "FAIL"
  <2>1. evaluatePing(e) = {<<"REDIS_PING_NOT_COMPLETED", "ERROR">>}
      BY <1>3 DEF evaluatePing
  <2> QED
      BY <1>3, <2>1 DEF CutShort
<1>4. CASE e.state # "FAIL" /\ ~PingRefused(e)
  <2>1. evaluatePing(e) = {}
      BY <1>4 DEF evaluatePing, PingRefused
  <2> QED
      BY <1>4, <2>1
<1> QED
    BY <1>1, <1>2, <1>3, <1>4 DEF PingRefused

LEMMA HelloClaims ==
    ASSUME NEW f \in HelloRule
    PROVE  /\ f.code = "REDIS_PROTOCOL_NOT_ESTABLISHED"
           /\ \E e \in RedisEvidence : RedisClaim(f, e, {"ERROR"}) /\ e.state = "FAIL"
<1>1. PICK e \in nodesAt(RedisEvidence, "redis.hello") :
        /\ e.state = "FAIL"
        /\ f = Finding("REDIS_PROTOCOL_NOT_ESTABLISHED", "ERROR", 4, e.subject, {e})
    BY DEF HelloRule
<1>2. e.layer = 4 /\ e \in RedisEvidence
    BY RedisNodesAt, RedisEvFacts
<1> QED
    BY <1>1, <1>2, FindingFacts DEF RedisClaim, CutShort

\* Only a HELLO that passed says an endpoint is a Sentinel: of the selected
\* one, this is the Sentinel the journey stopped at.
LEMMA SentinelClaims ==
    ASSUME RedisTypeOK, NEW f \in SentinelRule
    PROVE  /\ \E e \in RedisEvidence : RedisClaim(f, e, {"ERROR"}) /\ SaysSentinel(e)
           /\ f.subject = Address(at) => MetSentinel
<1>1. PICK e \in nodesAt(RedisEvidence, "redis.hello") :
        /\ SaysSentinel(e)
        /\ f = Finding("REDIS_ENDPOINT_IS_SENTINEL", "ERROR", 4, e.subject, {e})
    BY DEF SentinelRule
<1>2. e.layer = 4 /\ e \in RedisEvidence /\ e.state = "PASS"
    BY <1>1, RedisNodesAt, RedisEvFacts DEF SaysSentinel
<1>3. f.subject = e.subject /\ RedisClaim(f, e, {"ERROR"})
    BY <1>1, <1>2, FindingFacts DEF RedisClaim, CutShort
<1>4. ASSUME e.subject = Address(at) PROVE MetSentinel
  <2>1. peer[at] = "sentinel"
      BY <1>1, <1>4 DEF SaysSentinel, Address
  <2>2. CASE e = identityEv
      BY <1>2, <2>1, <2>2, RedisEvFacts DEF MetSentinel
  <2>3. ASSUME NEW a \in Addr, e = helloEv(a) PROVE MetSentinel
    <3>1. a = at
        BY <1>4, <2>3, RedisEvFacts, SubjectFacts
    <3> QED
        BY <1>2, <2>1, <2>3, <3>1, RedisEvFacts DEF MetSentinel
  <2> QED
      BY <2>2, <2>3, RedisNodesAt
<1> QED
    BY <1>1, <1>2, <1>3, <1>4

LEMMA AuthClaims ==
    ASSUME NEW f \in ClaimsOf(nodesAt(RedisEvidence, "redis.authentication"),
                              evaluateAuthentication)
    PROVE  /\ RedisClaim(f, authEv, {"ERROR", "WARN"})
           /\ f.severity = "ERROR" => auth.state = "FAIL"
<1>1. PICK e \in nodesAt(RedisEvidence, "redis.authentication") :
        \E c \in evaluateAuthentication(e) : f = Finding(c[1], c[2], e.layer, e.subject, {e})
    BY DEF ClaimsOf
<1>2. PICK c \in evaluateAuthentication(e) : f = Finding(c[1], c[2], e.layer, e.subject, {e})
    BY <1>1
<1>3. /\ c[2] \in {"ERROR", "WARN"} /\ ~CutShort(e)
      /\ c[2] = "ERROR" => e.state = "FAIL"
    BY AuthenticationFacts
<1>4. e = authEv /\ e \in RedisEvidence
    BY RedisNodesAt
<1> QED
    BY <1>2, <1>3, <1>4, RedisEvFacts, FindingFacts DEF RedisClaim

LEMMA PingClaims ==
    ASSUME NEW f \in ClaimsOf(nodesAt(RedisEvidence, "redis.ping"), evaluatePing)
    PROVE  /\ RedisClaim(f, pingEv, {"ERROR", "WARN"})
           /\ f.severity = "ERROR" => ping.state = "FAIL"
<1>1. PICK e \in nodesAt(RedisEvidence, "redis.ping") :
        \E c \in evaluatePing(e) : f = Finding(c[1], c[2], e.layer, e.subject, {e})
    BY DEF ClaimsOf
<1>2. PICK c \in evaluatePing(e) : f = Finding(c[1], c[2], e.layer, e.subject, {e})
    BY <1>1
<1>3. /\ c[2] \in {"ERROR", "WARN"} /\ ~CutShort(e)
      /\ c[2] = "ERROR" => e.state = "FAIL"
    BY PingFacts
<1>4. e = pingEv /\ e \in RedisEvidence
    BY RedisNodesAt
<1> QED
    BY <1>2, <1>3, <1>4, RedisEvFacts, FindingFacts DEF RedisClaim

\* Each node that says something is wrong has its claim.
LEMMA RedisClaimsAreMade ==
    /\ \A a \in Addr : hello[a].state = "FAIL" => \E f \in RedisFindings : Notable(f)
    /\ auth.state = "FAIL" \/ AuthWithheld(auth) => \E f \in RedisFindings : Notable(f)
    /\ ping.state = "FAIL" \/ PingRefused(ping) => \E f \in RedisFindings : Notable(f)
    /\ at \in Addr /\ MetSentinel => \E f \in RedisFindings : Notable(f)
<1>1. ASSUME NEW a \in Addr, hello[a].state = "FAIL" PROVE \E f \in RedisFindings : Notable(f)
  <2>1. helloEv(a) \in nodesAt(RedisEvidence, "redis.hello") /\ helloEv(a).state = "FAIL"
      BY <1>1, RedisNodesAt, RedisEvFacts
  <2>2. Finding("REDIS_PROTOCOL_NOT_ESTABLISHED", "ERROR", 4, helloEv(a).subject, {helloEv(a)})
          \in HelloRule
      BY <2>1 DEF HelloRule
  <2> QED
      BY <2>2, FindingFacts DEF RedisFindings, Notable
<1>2. ASSUME auth.state = "FAIL" \/ AuthWithheld(auth) PROVE \E f \in RedisFindings : Notable(f)
  <2> DEFINE F(b, e) == Finding(b[1], b[2], e.layer, e.subject, {e})
             Claims(e) == {F(b, e) : b \in evaluateAuthentication(e)}
             C == ClaimsOf(nodesAt(RedisEvidence, "redis.authentication"),
                           evaluateAuthentication)
  <2>1. authEv \in nodesAt(RedisEvidence, "redis.authentication")
      BY <1>2, RedisNodesAt DEF AuthWithheld
  <2>2. PICK c \in evaluateAuthentication(authEv) : c[2] \in {"ERROR", "WARN"}
      BY <1>2, RedisEvFacts, AuthenticationFacts DEF AuthWithheld
  <2>3. C = UNION {Claims(e) : e \in nodesAt(RedisEvidence, "redis.authentication")}
      BY Zenon DEF ClaimsOf
  <2>4. F(c, authEv) \in Claims(authEv) /\ F(c, authEv).severity \in {"ERROR", "WARN"}
      BY <2>2, FindingFacts
  <2> HIDE DEF F, Claims
  <2>5. F(c, authEv) \in C
      BY <2>1, <2>3, <2>4
  <2> QED
      BY <2>4, <2>5 DEF RedisFindings, Notable
<1>3. ASSUME ping.state = "FAIL" \/ PingRefused(ping) PROVE \E f \in RedisFindings : Notable(f)
  <2> DEFINE F(b, e) == Finding(b[1], b[2], e.layer, e.subject, {e})
             Claims(e) == {F(b, e) : b \in evaluatePing(e)}
             C == ClaimsOf(nodesAt(RedisEvidence, "redis.ping"), evaluatePing)
  <2>1. pingEv \in nodesAt(RedisEvidence, "redis.ping")
      BY <1>3, RedisNodesAt DEF PingRefused
  <2>2. PICK c \in evaluatePing(pingEv) : c[2] \in {"ERROR", "WARN"}
      BY <1>3, RedisEvFacts, PingFacts DEF PingRefused
  <2>3. C = UNION {Claims(e) : e \in nodesAt(RedisEvidence, "redis.ping")}
      BY Zenon DEF ClaimsOf
  <2>4. F(c, pingEv) \in Claims(pingEv) /\ F(c, pingEv).severity \in {"ERROR", "WARN"}
      BY <2>2, FindingFacts
  <2> HIDE DEF F, Claims
  <2>5. F(c, pingEv) \in C
      BY <2>1, <2>3, <2>4
  <2> QED
      BY <2>4, <2>5 DEF RedisFindings, Notable
<1>4. ASSUME at \in Addr, MetSentinel PROVE \E f \in RedisFindings : Notable(f)
  <2>1. PICK e \in nodesAt(RedisEvidence, "redis.hello") :
          e.state = "PASS" /\ e.step = "redis.hello" /\ e.subject = Address(at)
      BY <1>4, RedisNodesAt, RedisEvFacts DEF MetSentinel
  <2>2. SaysSentinel(e)
      BY <1>4, <2>1 DEF SaysSentinel, MetSentinel, Address
  <2>3. Finding("REDIS_ENDPOINT_IS_SENTINEL", "ERROR", 4, e.subject, {e}) \in SentinelRule
      BY <2>2 DEF SentinelRule
  <2> QED
      BY <2>3, FindingFacts DEF RedisFindings, Notable
<1> QED
    BY <1>1, <1>2, <1>3, <1>4

LEMMA RedisGrounded ==
    ASSUME SweepInv, RedisInv, RedisGraphInv, stage = "done"
    PROVE  RedisFindingsGrounded
<1> SUFFICES ASSUME NEW f \in RedisFindings
             PROVE  /\ f.refs # {} /\ f.refs \subseteq RedisEvidence
                    /\ Notable(f) => \A e \in f.refs : ~CutShort(e)
                    /\ Problem(f) => \E e \in f.refs :
                         \/ e.state = "FAIL" /\ FirstBrokenLayer(RedisEvidence) <= f.layer
                         \/ SaysSentinel(e)
                    /\ Problem(f) /\ f.subject = Address(at) /\ ping.state = "PASS" =>
                         f.code = "REDIS_PROTOCOL_NOT_ESTABLISHED"
    BY Zenon DEF RedisFindingsGrounded, RefsResolve
<1>1. SweepEvidence \subseteq RedisEvidence /\ pc = "closed" /\ at \in Addr
    BY DEF RedisEvidence, RedisInv, RedisTypeOK, SocketInv
<1>2. \A e \in RedisEvidence : e.state = "FAIL" => FirstBrokenLayer(RedisEvidence) <= e.layer
    BY RedisNodesAt, BrokenLayerIsLeast
<1>3. ping.state = "PASS" => tls[at].state # "FAIL" /\ auth.state # "FAIL" /\ ~MetSentinel
  <2> SUFFICES ASSUME ping.state = "PASS"
               PROVE  tls[at].state # "FAIL" /\ auth.state # "FAIL" /\ ~MetSentinel
      OBVIOUS
  <2>1. ping # NoNode
      BY OtherNodes
  <2>2. paths[at].conn /\ ~MetSentinel
      BY <2>1 DEF RedisGraphInv, AskedInv, PingInv, SentinelInv
  <2>3. tls[at].state # "FAIL"
      BY <1>1, <2>2, OtherNodes DEF SweepInv, AccountInv, Accounted
  <2>4. auth = NoNode \/ auth.state = "PASS"
      BY <2>1 DEF RedisGraphInv, PingInv, PingAfterAuthentication
  <2> QED
      BY <2>2, <2>3, <2>4, OtherNodes
<1>4. CASE f \in FailureBoundary(RedisEvidence)
    BY <1>4, BoundaryFacts DEF Notable, Problem
<1>5. CASE f \in TransportFindings
  <2>1. SweepClaim(f, SweepEvidence)
      BY <1>1, <1>5, SweepClaims DEF RedisGraphInv
  <2> QED
      BY <1>1, <1>2, <1>3, <2>1 DEF SweepClaim, CutShort
<1>6. CASE f \in HelloRule
    BY <1>2, <1>6, HelloClaims DEF RedisClaim
<1>7. CASE f \in SentinelRule
    BY <1>3, <1>7, SentinelClaims DEF RedisClaim, RedisInv
<1>8. CASE f \in ClaimsOf(nodesAt(RedisEvidence, "redis.authentication"),
                          evaluateAuthentication)
    BY <1>2, <1>3, <1>8, AuthClaims, RedisEvFacts DEF RedisClaim, Problem
<1>9. CASE f \in ClaimsOf(nodesAt(RedisEvidence, "redis.ping"), evaluatePing)
    BY <1>2, <1>9, PingClaims, RedisEvFacts DEF RedisClaim, Problem
<1> QED
    BY <1>4, <1>5, <1>6, <1>7, <1>8, <1>9 DEF RedisFindings

LEMMA RedisIsExplained ==
    ASSUME SweepInv, RedisInv, RedisGraphInv, stage = "done", ~incomplete, ping.state # "PASS"
    PROVE  \/ \E f \in RedisFindings : Notable(f)
           \/ \E e \in RedisEvidence : e.class = "UNSUPPORTED"
<1>1. /\ ctx = "live" /\ pc = "closed" /\ at \in Addr
      /\ \A n \in Recorded : ~CutShort(n)
    BY DEF RedisGraphInv, SentinelInv, incompleteRun, RedisInv, RedisTypeOK, SocketInv
<1>2. /\ ~CutShort(auth) /\ ~CutShort(ping) /\ \A a \in Addr : ~CutShort(hello[a])
      /\ \A n \in SweepNodes : ~CutShort(n)
    BY <1>1 DEF Recorded
<1>3. /\ \A a \in Addr : hello[a].state # "NONE" => helloEv(a) \in RedisEvidence
      /\ auth.state # "NONE" => authEv \in RedisEvidence
      /\ ping.state # "NONE" => pingEv \in RedisEvidence
    BY RedisNodesAt
<1>4. CASE ping # NoNode /\ ping.state # "SKIPPED"
  <2>1. \/ ping.state = "FAIL" \/ PingRefused(ping)
        \/ ping.state = "UNKNOWN" /\ ping.class = "UNSUPPORTED"
      BY <1>2, <1>4 DEF RedisGraphInv, OutcomeInv, Tried, Decided
  <2> QED
      BY <1>3, <2>1, RedisClaimsAreMade, RedisEvFacts
<1>5. CASE ping # NoNode /\ ping.state = "SKIPPED"
  <2>1. auth # NoNode /\ auth.state # "PASS"
      BY <1>5, OtherNodes DEF RedisGraphInv, PingInv, PingAfterAuthentication
  <2>2. \/ auth.state = "FAIL" \/ AuthWithheld(auth)
        \/ auth.state = "UNKNOWN" /\ auth.class = "UNSUPPORTED"
      BY <1>2, <2>1 DEF RedisGraphInv, OutcomeInv, Tried, Decided
  <2> QED
      BY <1>3, <2>2, RedisClaimsAreMade, RedisEvFacts
<1>6. CASE MetSentinel
    BY <1>1, <1>6, RedisClaimsAreMade
<1>7. CASE HasSession = {}
  <2>1. CASE \A a \in Addr : ~paths[a].conn
    <3>1. \E f \in TransportFindings : Notable(f)
        BY <1>1, <1>2, <2>1, SweepExplains DEF RedisGraphInv
    <3> QED
        BY <3>1 DEF RedisFindings
  <2>2. ASSUME NEW a \in Addr, paths[a].conn
        PROVE  \/ \E f \in RedisFindings : Notable(f)
               \/ \E e \in RedisEvidence : e.class = "UNSUPPORTED"
    <3>1. said[a] = "none" /\ hello[a] # NoNode
        BY <1>1, <1>7, <2>2 DEF HasSession, RedisGraphInv, AskedInv, InHello
    <3>2. hello[a].state = "FAIL" \/ (hello[a].state = "UNKNOWN" /\ hello[a].class = "UNSUPPORTED")
        BY <1>2, <3>1 DEF RedisGraphInv, OutcomeInv, Tried, Decided
    <3> QED
        BY <1>3, <3>2, RedisClaimsAreMade, RedisEvFacts
  <2> QED
      BY <2>1, <2>2
<1> QED
    BY <1>1, <1>4, <1>5, <1>6, <1>7 DEF RedisGraphInv, SentinelInv

LEMMA RedisUnmeasured ==
    ASSUME SweepInv, RedisInv, RedisGraphInv
    PROVE  UnmeasuredIsIncomplete
<1> SUFFICES ASSUME stage = "done", ~incomplete
             PROVE  /\ \A a \in located : tcp[a].state # "SKIPPED"
                    /\ \A a \in Addr : paths[a].conn => hello[a] # NoNode
                    /\ \A n \in Recorded : ~CutShort(n)
    BY DEF UnmeasuredIsIncomplete
<1>1. ctx = "live" /\ \A n \in Recorded : ~CutShort(n)
    BY DEF RedisGraphInv, SentinelInv, incompleteRun
<1>2. \A a \in located : tcp[a].state # "SKIPPED"
    BY <1>1 DEF RedisGraphInv, EvidenceInv, SweepInv, TransportTypeOK
<1>3. \A a \in Addr : paths[a].conn => hello[a] # NoNode
    BY <1>1 DEF RedisGraphInv, AskedInv, InHello
<1> QED
    BY <1>1, <1>2, <1>3

\* A finished Redis run is faithful, for any set of addresses, any answers and
\* any moment at which its budget ends: what was not measured makes it
\* incomplete, PING follows the authentication there was, an ERROR rests on a
\* failure at or below the layer the summary calls broken or on the Sentinel's
\* own word, and a complete run without PING's answer says why.
THEOREM RedisRunIsFaithful == RedisSpec => []RedisRunFaithful
<1>1. RedisSpec => []RedisGraphInv
  <2>1. RedisSpec => [](SweepInv /\ RedisInv) /\ RedisGraphInv /\ [][RedisNext]_journeyVars
      BY RedisInvariant, RedisGraphInit DEF RedisSpec
  <2> QED
      BY <2>1, RedisGraphStep, PTL
<1>2. SweepInv /\ RedisInv /\ RedisGraphInv => RedisRunFaithful
  <2> SUFFICES ASSUME SweepInv, RedisInv, RedisGraphInv PROVE RedisRunFaithful
      OBVIOUS
  <2>1. UnmeasuredIsIncomplete /\ PingAfterAuthentication
      BY RedisUnmeasured DEF RedisGraphInv, PingInv
  <2>2. RedisFindingsGrounded
    <3>1. CASE stage = "done"
        BY <3>1, RedisGrounded
    <3>2. CASE stage # "done"
        BY <3>2 DEF RedisFindingsGrounded
    <3> QED
        BY <3>1, <3>2
  <2>3. RedisExplained
      BY RedisIsExplained DEF RedisExplained
  <2> QED
      BY <2>1, <2>2, <2>3 DEF RedisRunFaithful
<1> QED
    BY <1>1, <1>2, RedisInvariant, PTL
=============================================================================
