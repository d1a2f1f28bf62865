---------------------------- MODULE BrokersProofs ----------------------------
(***************************************************************************)
(* Two journeys, each on its own: RabbitMQ's, which sends one credential   *)
(* and settles a frame size, and the Kubernetes run, which reads lists     *)
(* under ceilings with a kubeconfig that may change under it. For any set  *)
(* of addresses, any ceilings, any slices and whatever is answered.        *)
(***************************************************************************)
EXTENDS RabbitMQRules, Kubernetes, TransportProofs, RankingProofs

-----------------------------------------------------------------------------
(* RabbitMQ: the inductive invariant.                                      *)

InStart       == {"start", "startRead"}
BeforeStartOk == {"sweep", "paths", "select", "authenticate"} \cup InStart
Negotiating   == {"auth", "tuneOk", "authRead"}
InOpen        == {"opening", "closing", "acking", "openRead"}
RabbitStages  == BeforeStartOk \cup Negotiating \cup InOpen \cup {"leave", "done"}

RabbitNodes ==
    [state : {"NONE", "PASS", "FAIL", "UNKNOWN", "SKIPPED"},
     class : {"NONE", "TARGET", "REJECTED", "CANCELLED", "LOCAL_TIMEOUT", "UNSUPPORTED",
              "UNSUPPORTED_CAPABILITY", "INPUT_MISSING", "POLICY", "MECHANISM_NOT_OFFERED",
              "NOT_FOUND", "AUTHZ_DENIED", "LIMIT_REACHED", "NOT_PERMITTED"}]

RabbitTypeOK ==
    /\ credential \in {"none", "usable", "unusable"}
    /\ plain \subseteq Addr
    /\ stage \in RabbitStages
    /\ todo \subseteq Addr /\ at \in Addr /\ sessions \subseteq Addr
    /\ offer \in FrameSizes /\ selected \in Nat /\ ceiling \in Nat
    /\ start \in [Addr -> RabbitNodes]
    /\ auth \in RabbitNodes /\ opened \in RabbitNodes
    /\ attempts \in {0, 1}

\* Which connections the run has, stage by stage.
RabbitSocketInv ==
    /\ stage = "sweep" => held = {} /\ pc # "closed" /\ sessions = {}
    /\ stage \notin {"sweep", "done"} => pc = "returned"
    /\ stage = "done" => pc = "closed"
    /\ \A a \in sessions : ~Connected(paths[a])
    /\ stage \in InStart => /\ at \notin sessions /\ ~Connected(paths[at])
                            /\ held = sessions \cup {at}
    /\ stage \notin InStart => held = sessions
    /\ stage = "done" => held = {}
    /\ stage \in {"authenticate"} \cup Negotiating \cup InOpen => at \in sessions
    /\ stage \in {"paths"} \cup InStart => \A a \in todo : Connected(paths[a])

\* What is decided before the credential is sent, and what its acceptance
\* leads to.
RabbitSecretInv ==
    /\ stage \in BeforeStartOk => attempts = 0
    /\ attempts = 1 => credential = "usable" /\ at \in plain /\ channel[at] = "tls_verified"
    /\ stage = "auth" => credential # "none" /\ (credential = "usable" => attempts = 1)
    /\ stage = "tuneOk" => attempts = 1
    /\ stage = "authRead" /\ reply = "accepted" => attempts = 1
    /\ stage \in InOpen => attempts = 1 /\ auth.state = "PASS"
    /\ opened # NoNode => attempts = 1 /\ auth.state = "PASS" /\ stage \in {"leave", "done"}

\* The frame size is settled once, by Tune-Ok, from an offer that can be met.
TuneInv ==
    /\ stage \in BeforeStartOk \cup Negotiating => auth.class # "UNSUPPORTED_CAPABILITY"
    /\ stage \in BeforeStartOk \cup {"auth", "tuneOk"} =>
         selected = 0 /\ ceiling = preTunePayloadMax
    /\ stage = "tuneOk" => ~TuneUnsupported(offer)
    /\ stage = "authRead" /\ reply = "floor" => TuneUnsupported(offer)
    /\ TuneIsHonoured

RabbitInv == RabbitTypeOK /\ RabbitSocketInv /\ RabbitSecretInv /\ TuneInv

-----------------------------------------------------------------------------
(* The negotiation and the classifications.                                *)

\* Of every size a broker may offer.
LEMMA SelectTuneFacts ==
    ASSUME NEW o \in FrameSizes
    PROVE  /\ TuneUnsupported(o) => o \in 1..(specFrameMinSize - 1)
           /\ ~TuneUnsupported(o) =>
                /\ SelectTune(o) \in Nat /\ SelectTune(o) >= specFrameMinSize
                /\ SelectTune(o) - frameOverhead <=
                     negotiated(preTunePayloadMax, SelectTune(o) - frameOverhead)
                /\ negotiated(preTunePayloadMax, SelectTune(o) - frameOverhead) \in Nat
                /\ o # 0 => SelectTune(o) <= o
  BY DEF FrameSizes, TuneUnsupported, SelectTune, negotiated, specFrameMinSize,
         postTuneFrameMax, frameOverhead, preTunePayloadMax

LEMMA RabbitBrokenNode ==
    ASSUME NEW r, NEW e
    PROVE  /\ classifyBroken(r, e) \in RabbitNodes
           /\ classifyBroken(r, e).state # "PASS"
           /\ classifyBroken(r, e).class # "UNSUPPORTED_CAPABILITY"
  BY DEF classifyBroken, RabbitNodes, Node

LEMMA RabbitNodeFacts ==
    ASSUME NEW r, NEW e
    PROVE  /\ classifyStart(r, e) \in RabbitNodes
           /\ classifyAuth(r, e) \in RabbitNodes
           /\ classifyAuth(r, e).state = "PASS" <=> r = "accepted"
           /\ classifyAuth(r, e).class = "UNSUPPORTED_CAPABILITY" => r = "floor"
           /\ classifyOpen(r, e) \in RabbitNodes
<1>1. classifyStart(r, e) \in RabbitNodes
    BY RabbitBrokenNode DEF classifyStart, RabbitNodes, Node
<1>2. /\ classifyAuth(r, e) \in RabbitNodes
      /\ classifyAuth(r, e).state = "PASS" <=> r = "accepted"
      /\ classifyAuth(r, e).class = "UNSUPPORTED_CAPABILITY" => r = "floor"
    BY RabbitBrokenNode DEF classifyAuth, RabbitNodes, Node
<1>3. classifyOpen(r, e) \in RabbitNodes
    BY RabbitBrokenNode DEF classifyOpen, RabbitNodes, Node
<1> QED
    BY <1>1, <1>2, <1>3

LEMMA RabbitOtherNodes ==
    /\ NoNode \in RabbitNodes /\ NoNode.class = "NONE"
    /\ Withheld \in RabbitNodes /\ Withheld.class # "UNSUPPORTED_CAPABILITY"
    /\ Withheld = NoNode <=>
         credential # "none" /\ at \in plain /\ PermitsCredentials(channel[at])
  BY DEF NoNode, Node, RabbitNodes, Withheld

-----------------------------------------------------------------------------
(* RabbitMQ: every step keeps the invariant.                               *)

LEMMA RabbitInvInit == RabbitInit => SweepInv /\ RabbitInv
<1> SUFFICES ASSUME RabbitInit PROVE SweepInv /\ RabbitInv
    OBVIOUS
<1> USE DEF RabbitStages, BeforeStartOk, InStart, Negotiating, InOpen
<1>1. SweepInv /\ held = {} /\ pc # "closed"
    BY SweepInit DEF RabbitInit, TransportInit
<1>2. at \in Addr
    BY AddrAssumption DEF RabbitInit
<1>3. RabbitTypeOK
    BY <1>2, RabbitOtherNodes
    DEF RabbitInit, RabbitTypeOK, FrameSizes, preTunePayloadMax, frameOverhead
<1>4. RabbitSocketInv /\ RabbitSecretInv
    BY <1>1 DEF RabbitInit, RabbitSocketInv, RabbitSecretInv
<1>5. TuneInv
    BY RabbitOtherNodes DEF RabbitInit, TuneInv, TuneIsHonoured
<1> QED
    BY <1>1, <1>3, <1>4, <1>5 DEF RabbitInv

LEMMA RabbitQuiet ==
    ASSUME SweepInv, UNCHANGED transportVars
    PROVE  SweepInv' /\ UNCHANGED <<params, ctx, pc, paths, channel, held, open>>
  BY SweepQuiet DEF transportVars, clockVars, ownerVars

\* A step that touches no connection and stays on its path, or has none.
LEMMA RabbitMovesOn ==
    ASSUME SweepInv, RabbitInv, RabbitTypeOK', RabbitSecretInv', TuneInv',
           UNCHANGED <<transportVars, todo, at, sessions>>,
           \/ stage \in InStart /\ stage' \in InStart
           \/ /\ stage \notin InStart \cup {"sweep", "done"}
              /\ stage' \in {"select", "leave"} \cup Negotiating \cup InOpen
              /\ stage' \in Negotiating \cup InOpen =>
                   stage \in {"authenticate"} \cup Negotiating \cup InOpen
    PROVE  SweepInv' /\ RabbitInv'
<1> USE DEF RabbitStages, BeforeStartOk, InStart, Negotiating, InOpen
<1>1. SweepInv' /\ UNCHANGED <<params, ctx, pc, paths, channel, held, open>>
    BY RabbitQuiet
<1>2. RabbitSocketInv'
    BY <1>1 DEF RabbitInv, RabbitSocketInv
<1> QED
    BY <1>1, <1>2 DEF RabbitInv

LEMMA RabbitTransportingKeepsInv ==
    ASSUME SweepInv, RabbitInv, Transporting
    PROVE  SweepInv' /\ RabbitInv'
<1> USE DEF RabbitStages, BeforeStartOk, InStart, Negotiating, InOpen, rabbitVars, tuneVars,
            rabbitGraph
<1>1. /\ SweepInv' /\ stage # "done"
      /\ UNCHANGED <<credential, plain, stage, todo, at, reply, offer, selected, ceiling,
                     sessions, start, auth, opened, attempts>>
    BY SweepRunStep DEF Transporting
<1>2. held' = held /\ (pc # "closed" => pc' # "closed")
    BY RunStepTakesNothing DEF Transporting
<1>3. stage # "sweep" => UNCHANGED <<pc, paths, channel>>
    BY <1>1, RunStepAfterReturn DEF Transporting, RabbitInv, RabbitSocketInv, ownerVars
<1>4. RabbitTypeOK' /\ TuneInv'
    BY <1>1 DEF RabbitInv, RabbitTypeOK, TuneInv, TuneIsHonoured
<1>5. RabbitSocketInv'
    BY <1>1, <1>2, <1>3 DEF RabbitInv, RabbitSocketInv
<1>6. RabbitSecretInv'
    BY <1>1, <1>3 DEF RabbitInv, RabbitSecretInv
<1> QED
    BY <1>1, <1>4, <1>5, <1>6 DEF RabbitInv

LEMMA RabbitStartingKeepsInv ==
    ASSUME SweepInv, RabbitInv, Starting
    PROVE  SweepInv' /\ RabbitInv'
<1> USE DEF RabbitStages, BeforeStartOk, InStart, Negotiating, InOpen, tuneVars, rabbitGraph
<1>1. CASE BeginPaths
  <2>1. SweepInv' /\ UNCHANGED <<params, ctx, pc, paths, channel, held, open>>
      BY <1>1, RabbitQuiet DEF BeginPaths
  <2>2. RabbitTypeOK' /\ TuneInv'
      BY <1>1 DEF BeginPaths, RabbitInv, RabbitTypeOK, TuneInv, TuneIsHonoured
  <2>3. RabbitSocketInv' /\ RabbitSecretInv'
      BY <1>1, <2>1 DEF BeginPaths, RabbitInv, RabbitSocketInv, RabbitSecretInv
  <2> QED
      BY <2>1, <2>2, <2>3 DEF RabbitInv
<1>2. ASSUME NEW a \in Addr, SendHeader(a) PROVE SweepInv' /\ RabbitInv'
  <2>1. pc = "returned" /\ Connected(paths[a]) /\ a \notin sessions /\ held = sessions
      BY <1>2 DEF SendHeader, RabbitInv, RabbitSocketInv
  <2>2. SweepInv'
    <3>1. JourneyKeeps /\ TakesPath(a)
        BY <1>2 DEF SendHeader, sweptVars, JourneyKeeps, TakesPath
    <3> QED
        BY <2>1, <3>1, SweepTakesPath
  <2>3. ~Connected(paths'[a]) /\ \A b \in Addr : b # a => paths'[b] = paths[b]
      BY <1>2, HolderFacts DEF SendHeader, SweepInv, TransportTypeOK
  <2>4. RabbitTypeOK' /\ TuneInv'
      BY <1>2 DEF SendHeader, RabbitInv, RabbitTypeOK, TuneInv, TuneIsHonoured
  <2>5. RabbitSocketInv'
      BY <1>2, <2>1, <2>3 DEF SendHeader, RabbitInv, RabbitTypeOK, RabbitSocketInv
  <2>6. RabbitSecretInv'
      BY <1>2 DEF SendHeader, RabbitInv, RabbitSecretInv
  <2> QED
      BY <2>2, <2>4, <2>5, <2>6 DEF RabbitInv
<1>3. ASSUME NEW r, StartReturns(r) PROVE SweepInv' /\ RabbitInv'
  <2>1. RabbitTypeOK' /\ TuneInv'
      BY <1>3 DEF StartReturns, RabbitInv, RabbitTypeOK, TuneInv, TuneIsHonoured
  <2>2. RabbitSecretInv'
      BY <1>3 DEF StartReturns, RabbitInv, RabbitSecretInv
  <2> QED
      BY <1>3, <2>1, <2>2, RabbitMovesOn DEF StartReturns
<1>4. CASE RecordStart
  <2>1. /\ pc = "returned" /\ at \notin sessions /\ ~Connected(paths[at]) /\ at \in Addr
        /\ held = sessions \cup {at} /\ stage' = "paths" /\ sessions \subseteq Addr
        /\ UNCHANGED <<pc, paths, todo, at, channel, auth, opened, attempts, credential, plain>>
      BY <1>4 DEF RecordStart, sweptVars, RabbitInv, RabbitTypeOK, RabbitSocketInv
  <2>2. SweepInv'
    <3>1. CASE reply = "started"
        BY <1>4, <3>1, SweepQuiet
        DEF RecordStart, sweptVars, transportVars, ownerVars
    <3>2. CASE reply # "started"
      <4>1. JourneyKeeps /\ GivesUp({at})
          BY <1>4, <3>2 DEF RecordStart, sweptVars, JourneyKeeps, GivesUp
      <4> QED
          BY <2>1, <4>1, SweepGivesUp
    <3> QED
        BY <3>1, <3>2
  <2>3. RabbitTypeOK'
    <3>1. classifyStart(reply, ctx) \in RabbitNodes
        BY RabbitNodeFacts
    <3> QED
        BY <1>4, <3>1 DEF RecordStart, RabbitInv, RabbitTypeOK
  <2>4. TuneInv'
      BY <1>4 DEF RecordStart, RabbitInv, TuneInv, TuneIsHonoured
  <2>5. RabbitSocketInv'
    <3>1. /\ held' = sessions'
          /\ sessions' \subseteq sessions \cup {at}
        BY <1>4, <2>1 DEF RecordStart
    <3> QED
        BY <1>4, <2>1, <3>1 DEF RecordStart, RabbitInv, RabbitSocketInv
  <2>6. RabbitSecretInv'
      BY <1>4, <2>1 DEF RecordStart, RabbitInv, RabbitSecretInv
  <2> QED
      BY <2>2, <2>3, <2>4, <2>5, <2>6 DEF RabbitInv
<1>5. CASE PathsDone
  <2>1. RabbitTypeOK' /\ TuneInv'
      BY <1>5 DEF PathsDone, RabbitInv, RabbitTypeOK, TuneInv, TuneIsHonoured
  <2>2. RabbitSecretInv'
      BY <1>5, RabbitQuiet DEF PathsDone, RabbitInv, RabbitSecretInv
  <2> QED
      BY <1>5, <2>1, <2>2, RabbitMovesOn DEF PathsDone
<1> QED
    BY <1>1, <1>2, <1>3, <1>4, <1>5 DEF Starting

LEMMA RabbitSelectKeepsInv ==
    ASSUME SweepInv, RabbitInv, NEW a \in Addr, Select(a)
    PROVE  SweepInv' /\ RabbitInv'
<1> USE DEF RabbitStages, BeforeStartOk, InStart, Negotiating, InOpen, tuneVars, rabbitGraph
<1>1. /\ a \in sessions /\ pc = "returned" /\ held = sessions
      /\ \A b \in sessions : ~Connected(paths[b])
      /\ stage' \in {"leave", "authenticate"}
  <2>1. a \in sessions
      BY DEF Select, IsChosen, Eligible, Preferred
  <2> QED
      BY <2>1 DEF Select, RabbitInv, RabbitSocketInv
<1>2. SweepInv'
  <2>1. JourneyKeeps /\ GivesUp(sessions \ {a})
      BY DEF Select, sweptVars, JourneyKeeps, GivesUp
  <2> QED
      BY <1>1, <2>1, SweepGivesUp
<1>3. RabbitTypeOK' /\ TuneInv'
    BY <1>1 DEF Select, RabbitInv, RabbitTypeOK, TuneInv, TuneIsHonoured
<1>4. RabbitSocketInv'
    BY <1>1 DEF Select, RabbitInv, RabbitSocketInv
<1>5. RabbitSecretInv'
    BY <1>1 DEF Select, RabbitInv, RabbitSecretInv
<1> QED
    BY <1>2, <1>3, <1>4, <1>5 DEF RabbitInv

\* Start-Ok is answered, or is not.
LEMMA RabbitStartOkKeepsInv ==
    ASSUME SweepInv, RabbitInv, NEW r, r \notin {"accepted", "floor"},
           NEW o \in FrameSizes, StartOkReturns(r, o)
    PROVE  SweepInv' /\ RabbitInv'
<1> USE DEF RabbitStages, BeforeStartOk, InStart, Negotiating, InOpen, tuneVars, rabbitGraph
<1>1. UNCHANGED <<channel, ctx>>
    BY RabbitQuiet DEF StartOkReturns
<1>2. RabbitTypeOK'
    BY DEF StartOkReturns, RabbitInv, RabbitTypeOK
<1>3. RabbitSecretInv'
    BY <1>1 DEF StartOkReturns, RabbitInv, RabbitTypeOK, RabbitSecretInv
<1>4. TuneInv'
    BY DEF StartOkReturns, RabbitInv, TuneInv, TuneIsHonoured
<1> QED
    BY <1>2, <1>3, <1>4, RabbitMovesOn DEF StartOkReturns

LEMMA RabbitTuneOkKeepsInv ==
    ASSUME SweepInv, RabbitInv, NEW r \in {"accepted"} \cup Broken, TuneOkReturns(r)
    PROVE  SweepInv' /\ RabbitInv'
<1> USE DEF RabbitStages, BeforeStartOk, InStart, Negotiating, InOpen, tuneVars, rabbitGraph
<1>1. UNCHANGED <<channel, ctx>>
    BY RabbitQuiet DEF TuneOkReturns
<1>2. /\ offer \in FrameSizes /\ ~TuneUnsupported(offer) /\ ceiling = preTunePayloadMax
      /\ selected = 0
    BY DEF TuneOkReturns, RabbitInv, RabbitTypeOK, TuneInv
<1>3. /\ selected' \in Nat /\ ceiling' \in Nat
      /\ selected' # 0 => /\ selected' - frameOverhead <= ceiling'
                          /\ selected' >= specFrameMinSize
                          /\ offer # 0 => selected' <= offer
    BY <1>2, SelectTuneFacts DEF TuneOkReturns, RabbitInv, RabbitTypeOK
<1>4. RabbitTypeOK'
    BY <1>3 DEF TuneOkReturns, RabbitInv, RabbitTypeOK
<1>5. RabbitSecretInv'
    BY <1>1 DEF TuneOkReturns, RabbitInv, RabbitSecretInv
<1>6. reply' # "floor"
    BY DEF TuneOkReturns, Broken
<1>7. TuneInv'
    BY <1>3, <1>6 DEF TuneOkReturns, RabbitInv, TuneInv, TuneIsHonoured
<1> QED
    BY <1>4, <1>5, <1>7, RabbitMovesOn DEF TuneOkReturns

LEMMA RabbitAuthenticatingKeepsInv ==
    ASSUME SweepInv, RabbitInv, Authenticating
    PROVE  SweepInv' /\ RabbitInv'
<1> USE DEF RabbitStages, BeforeStartOk, InStart, Negotiating, InOpen, tuneVars, rabbitGraph
<1>1. CASE NothingToSelect
  <2>1. RabbitTypeOK' /\ TuneInv'
      BY <1>1 DEF NothingToSelect, RabbitInv, RabbitTypeOK, TuneInv, TuneIsHonoured
  <2>2. RabbitSecretInv'
      BY <1>1, RabbitQuiet DEF NothingToSelect, RabbitInv, RabbitSecretInv
  <2> QED
      BY <1>1, <2>1, <2>2, RabbitMovesOn DEF NothingToSelect
<1>2. CASE Withhold
  <2>1. RabbitTypeOK' /\ TuneInv'
      BY <1>2, RabbitOtherNodes
      DEF Withhold, RabbitInv, RabbitTypeOK, TuneInv, TuneIsHonoured
  <2>2. RabbitSecretInv'
      BY <1>2, RabbitQuiet DEF Withhold, RabbitInv, RabbitSecretInv
  <2> QED
      BY <1>2, <2>1, <2>2, RabbitMovesOn DEF Withhold
<1>3. CASE SendStartOk
  <2>1. RabbitTypeOK' /\ TuneInv'
      BY <1>3 DEF SendStartOk, RabbitInv, RabbitTypeOK, RabbitSecretInv, TuneInv, TuneIsHonoured
  <2>2. credential # "none" /\ at \in plain /\ channel[at] = "tls_verified"
      BY <1>3, RabbitOtherNodes DEF SendStartOk, PermitsCredentials
  <2>3. RabbitSecretInv'
      BY <1>3, <2>2, RabbitQuiet DEF SendStartOk, RabbitInv, RabbitSecretInv
  <2> QED
      BY <1>3, <2>1, <2>3, RabbitMovesOn DEF SendStartOk
<1>4. CASE RecordAuth
  <2>1. /\ auth' \in RabbitNodes
        /\ reply = "accepted" => auth'.state = "PASS"
        /\ auth'.class = "UNSUPPORTED_CAPABILITY" => reply = "floor"
      BY <1>4, RabbitNodeFacts DEF RecordAuth, TuneFailure
  <2>2. auth'.class = "UNSUPPORTED_CAPABILITY" => offer \in 1..(specFrameMinSize - 1)
      BY <1>4, <2>1, SelectTuneFacts DEF RecordAuth, RabbitInv, RabbitTypeOK, TuneInv
  <2>3. RabbitTypeOK'
      BY <1>4, <2>1 DEF RecordAuth, RabbitInv, RabbitTypeOK
  <2>4. TuneInv'
      BY <1>4, <2>2 DEF RecordAuth, RabbitInv, TuneInv, TuneIsHonoured
  <2>5. RabbitSecretInv'
      BY <1>4, <2>1, RabbitQuiet DEF RecordAuth, RabbitInv, RabbitSecretInv
  <2> QED
      BY <1>4, <2>3, <2>4, <2>5, RabbitMovesOn DEF RecordAuth
<1>5. ASSUME NEW o \in FrameSizes, StartOkReturns("tune", o) PROVE SweepInv' /\ RabbitInv'
  <2>1. "tune" \notin {"accepted", "floor"}
      OBVIOUS
  <2> QED
      BY <1>5, <2>1, RabbitStartOkKeepsInv
<1>6. ASSUME NEW r \in {"secure", "invalid"} \cup AuthRefusals \cup Broken, StartOkReturns(r, 0)
      PROVE  SweepInv' /\ RabbitInv'
  <2>1. r \notin {"accepted", "floor"} /\ 0 \in FrameSizes
      BY DEF AuthRefusals, Broken, FrameSizes
  <2> QED
      BY <1>6, <2>1, RabbitStartOkKeepsInv
<1> QED
    BY <1>1, <1>2, <1>3, <1>4, <1>5, <1>6, RabbitSelectKeepsInv, RabbitTuneOkKeepsInv
    DEF Authenticating

\* Past an accepted credential the virtual host is asked for, once.
LEMMA RabbitOpeningKeepsInv ==
    ASSUME SweepInv, RabbitInv, Opening
    PROVE  SweepInv' /\ RabbitInv'
<1> USE DEF RabbitStages, BeforeStartOk, InStart, Negotiating, InOpen, tuneVars, rabbitGraph
<1>1. CASE RecordOpen
  <2>1. opened' \in RabbitNodes
      BY <1>1, RabbitNodeFacts DEF RecordOpen
  <2>2. RabbitTypeOK' /\ TuneInv'
      BY <1>1, <2>1 DEF RecordOpen, RabbitInv, RabbitTypeOK, TuneInv, TuneIsHonoured
  <2>3. RabbitSecretInv'
      BY <1>1, RabbitQuiet DEF RecordOpen, RabbitInv, RabbitSecretInv
  <2> QED
      BY <1>1, <2>2, <2>3, RabbitMovesOn DEF RecordOpen
<1>2. ASSUME AckClose \/ (\E answered \in BOOLEAN : GracefulClose(answered)) \/ (\E r : OpenReturns(r))
      PROVE  SweepInv' /\ RabbitInv'
  <2>1. /\ stage \in InOpen /\ stage' \in InOpen
        /\ UNCHANGED <<transportVars, credential, plain, todo, at, tuneVars, sessions,
                       rabbitGraph, attempts>>
      BY <1>2 DEF AckClose, GracefulClose, OpenReturns
  <2>2. RabbitTypeOK' /\ TuneInv'
      BY <2>1 DEF RabbitInv, RabbitTypeOK, TuneInv, TuneIsHonoured
  <2>3. RabbitSecretInv'
      BY <2>1, RabbitQuiet DEF RabbitInv, RabbitSecretInv
  <2> QED
      BY <2>1, <2>2, <2>3, RabbitMovesOn
<1> QED
    BY <1>1, <1>2 DEF Opening

LEMMA RabbitLeaveKeepsInv ==
    ASSUME SweepInv, RabbitInv, Leave
    PROVE  SweepInv' /\ RabbitInv'
<1> USE DEF RabbitStages, BeforeStartOk, InStart, Negotiating, InOpen, tuneVars, rabbitGraph
<1>1. /\ pc = "returned" /\ held = sessions /\ stage = "leave"
      /\ \A b \in sessions : ~Connected(paths[b])
    BY DEF Leave, RabbitInv, RabbitSocketInv
<1>2. SweepInv'
  <2>1. JourneyKeeps /\ LeavesSweep(sessions)
      BY DEF Leave, sweptVars, JourneyKeeps, LeavesSweep
  <2> QED
      BY <1>1, <2>1, SweepLeaves
<1>3. RabbitTypeOK' /\ TuneInv'
    BY DEF Leave, RabbitInv, RabbitTypeOK, TuneInv, TuneIsHonoured
<1>4. RabbitSocketInv'
    BY <1>1 DEF Leave, RabbitSocketInv
<1>5. RabbitSecretInv'
    BY DEF Leave, sweptVars, RabbitInv, RabbitSecretInv
<1> QED
    BY <1>2, <1>3, <1>4, <1>5 DEF RabbitInv

LEMMA RabbitStep ==
    SweepInv /\ RabbitInv /\ [RabbitNext]_rabbitRunVars => SweepInv' /\ RabbitInv'
<1> SUFFICES ASSUME SweepInv, RabbitInv, [RabbitNext]_rabbitRunVars
             PROVE  SweepInv' /\ RabbitInv'
    OBVIOUS
<1>1. CASE UNCHANGED rabbitRunVars
  <2>1. SweepInv' /\ UNCHANGED <<params, ctx, pc, paths, channel, held, open>>
      BY <1>1, RabbitQuiet DEF rabbitRunVars
  <2>2. RabbitTypeOK' /\ TuneInv'
      BY <1>1
      DEF rabbitRunVars, rabbitVars, tuneVars, rabbitGraph, RabbitInv, RabbitTypeOK, TuneInv,
          TuneIsHonoured
  <2>3. RabbitSocketInv' /\ RabbitSecretInv'
      BY <1>1, <2>1
      DEF rabbitRunVars, rabbitVars, tuneVars, rabbitGraph, RabbitInv, RabbitSocketInv,
          RabbitSecretInv
  <2> QED
      BY <2>1, <2>2, <2>3 DEF RabbitInv
<1> QED
    BY <1>1, RabbitTransportingKeepsInv, RabbitStartingKeepsInv, RabbitAuthenticatingKeepsInv,
       RabbitOpeningKeepsInv, RabbitLeaveKeepsInv
    DEF RabbitNext, RabbitOver

THEOREM RabbitInvariant == RabbitSpec => [](SweepInv /\ RabbitInv)
  BY RabbitInvInit, RabbitStep, PTL DEF RabbitSpec

\* For any set of addresses and any answers: the password leaves svcdoctor at
\* most once, over a channel its own handshake verified, to a broker that
\* offered PLAIN, and the virtual host is asked for only once it was taken.
THEOREM RabbitCredentialIsDisciplined == RabbitSpec => []RabbitCredentialDiscipline
<1>1. SweepInv /\ RabbitInv => RabbitCredentialDiscipline
  <2> SUFFICES ASSUME SweepInv, RabbitInv PROVE RabbitCredentialDiscipline
      OBVIOUS
  <2>1. attempts = 1 => pc # "failed" /\ at \in Addr
      BY DEF RabbitInv, RabbitTypeOK, RabbitSocketInv, RabbitSecretInv, BeforeStartOk
  <2> QED
      BY <2>1
      DEF RabbitCredentialDiscipline, RabbitInv, RabbitTypeOK, RabbitSecretInv, SweepInv,
          ChannelInv
<1> QED
    BY <1>1, RabbitInvariant, PTL

\* After Tune-Ok the reader accepts every frame the broker may send, the size
\* is within both limits, and no offer without a limit is refused.
THEOREM RabbitHonoursTune == RabbitSpec => []TuneIsHonoured
<1>1. SweepInv /\ RabbitInv => TuneIsHonoured
    BY DEF RabbitInv, TuneInv
<1> QED
    BY <1>1, RabbitInvariant, PTL

\* No socket of a RabbitMQ run outlives it, and while it goes on each belongs
\* to the sweep or to a session: connections given up at selection, paths
\* never reached and the deferred closes included.
THEOREM RabbitSocketsEndWithTheRun == RabbitSpec => []RabbitSocketsClosed
<1>1. SweepInv /\ RabbitInv => RabbitSocketsClosed
  <2> SUFFICES ASSUME SweepInv, RabbitInv PROVE RabbitSocketsClosed
      OBVIOUS
  <2>1. stage = "done" => open = {}
      BY ReturnedSockets DEF SweepInv, RabbitInv, RabbitSocketInv
  <2>2. ASSUME stage \notin {"sweep", "done"}, NEW a \in open
        PROVE  (a \in held) # Connected(paths[a])
    <3>1. /\ a \in held => ~Connected(paths[a])
          /\ Connected(paths[a]) \/ a \in held
        BY <2>2, ReturnedSockets DEF SweepInv, RabbitInv, RabbitSocketInv
    <3> QED
        BY <3>1 DEF Connected
  <2> QED
      BY <2>1, <2>2 DEF RabbitSocketsClosed
<1> QED
    BY <1>1, RabbitInvariant, PTL

-----------------------------------------------------------------------------
(* RabbitMQ: what the nodes of the graph can say, and when.                *)

\* The reasons not to try, or not to be able to.
Declined(n) ==
    \/ n.state = "SKIPPED" /\ n.class \in {"INPUT_MISSING", "POLICY"}
    \/ n.state = "UNKNOWN" /\ n.class \in {"MECHANISM_NOT_OFFERED", "UNSUPPORTED_CAPABILITY"}
    \/ n.state = "UNKNOWN" /\ n.class = "INPUT_MISSING" /\ credential = "unusable"

RabbitReplyInv ==
    /\ ctxErr \in {"live"} \cup Endings
    /\ reply # "limit"
    /\ stage = "authRead" /\ reply = "invalid" => credential = "unusable"

RabbitOutcomeInv ==
    /\ \A a \in Addr : start[a] = NoNode \/ Decided(start[a])
    /\ auth = NoNode \/ Decided(auth) \/ Declined(auth)
    /\ opened = NoNode \/ Decided(opened)

\* A session is a path that was started, and until one is selected every
\* started path is a session.
StartedInv ==
    /\ \A a \in sessions : start[a].state = "PASS"
    /\ attempts = 1 => start[at].state = "PASS"
    /\ stage \in {"sweep", "paths", "select"} \cup InStart =>
         \A a \in Addr : start[a].state = "PASS" => a \in sessions

\* Every completed path was tried, or waits, unless the budget ended.
PathsTriedInv ==
    /\ stage = "sweep" /\ pc # "failed" => WholePaths
    /\ stage \in {"paths"} \cup InStart =>
         \A a \in Addr : paths[a].conn =>
            start[a] # NoNode \/ a \in todo \/ (stage \in InStart /\ a = at)
    /\ stage = "select" /\ ctx = "live" => \A a \in Addr : paths[a].conn => start[a] # NoNode

\* A run with budget left went as far as what it met allows.
AsFarAsItGoesInv ==
    /\ stage \in {"leave", "done"} /\ ctx = "live" =>
         \/ auth # NoNode /\ (auth.state = "PASS" => opened # NoNode)
         \/ \A a \in Addr : start[a].state # "PASS" /\ (paths[a].conn => start[a] # NoNode)
    /\ stage = "done" => (incomplete <=> incompleteRun(RabbitRecorded, FALSE))

RabbitGraphInv ==
    /\ EvidenceInv /\ RabbitReplyInv /\ RabbitOutcomeInv /\ StartedInv /\ PathsTriedInv
    /\ AsFarAsItGoesInv

LEMMA VerdictFacts ==
    ASSUME NEW r, r # "limit", NEW e \in {"live"} \cup Endings
    PROVE  /\ Decided(classifyBroken(r, e)) /\ classifyBroken(r, e).state # "PASS"
           /\ Decided(classifyStart(r, e))
           /\ classifyStart(r, e).state = "PASS" <=> r = "started"
           /\ \/ Decided(classifyAuth(r, e))
              \/ /\ classifyAuth(r, e).state = "UNKNOWN"
                 /\ \/ classifyAuth(r, e).class = "UNSUPPORTED_CAPABILITY"
                    \/ classifyAuth(r, e).class = "INPUT_MISSING" /\ r = "invalid"
           /\ Decided(classifyOpen(r, e))
<1>1. Decided(classifyBroken(r, e)) /\ classifyBroken(r, e).state # "PASS"
    BY DEF classifyBroken, Node, Decided, CutShort, BudgetClasses, Endings
<1>2. /\ Decided(classifyStart(r, e))
      /\ classifyStart(r, e).state = "PASS" <=> r = "started"
    BY <1>1 DEF classifyStart, Node, Decided
<1>3. \/ Decided(classifyAuth(r, e))
      \/ /\ classifyAuth(r, e).state = "UNKNOWN"
         /\ \/ classifyAuth(r, e).class = "UNSUPPORTED_CAPABILITY"
            \/ classifyAuth(r, e).class = "INPUT_MISSING" /\ r = "invalid"
    BY <1>1 DEF classifyAuth, Node, Decided
<1>4. Decided(classifyOpen(r, e))
    BY <1>1 DEF classifyOpen, Node, Decided
<1> QED
    BY <1>1, <1>2, <1>3, <1>4

\* What was recorded is there.
LEMMA VerdictIsRecorded ==
    /\ NoNode.state = "NONE"
    /\ \A n : Decided(n) \/ Declined(n) => n # NoNode /\ n.state # "NONE"
  BY DEF NoNode, Decided, Declined, CutShort

LEMMA RabbitGraphInit == RabbitInit => RabbitGraphInv
<1> SUFFICES ASSUME RabbitInit PROVE RabbitGraphInv
    OBVIOUS
<1>1. EvidenceInv /\ WholePaths
    BY EvidenceInit, WholeInit DEF RabbitInit
<1>2. \A a \in Addr : start[a] = NoNode /\ start[a].state # "PASS"
    BY VerdictIsRecorded DEF RabbitInit
<1>3. RabbitReplyInv
    BY DEF RabbitInit, RabbitReplyInv
<1>4. RabbitOutcomeInv /\ StartedInv
    BY <1>2 DEF RabbitInit, RabbitOutcomeInv, StartedInv
<1>5. PathsTriedInv /\ AsFarAsItGoesInv
    BY <1>1 DEF RabbitInit, PathsTriedInv, AsFarAsItGoesInv, InStart
<1> QED
    BY <1>1, <1>3, <1>4, <1>5 DEF RabbitGraphInv

LEMMA TransportingKeepsGraph ==
    ASSUME SweepInv, RabbitInv, RabbitGraphInv, Transporting
    PROVE  RabbitGraphInv'
<1> USE DEF rabbitVars, tuneVars, rabbitGraph
<1>1. /\ UNCHANGED <<credential, stage, todo, at, reply, ctxErr, sessions, start, auth, opened,
                     attempts, incomplete>>
      /\ stage # "done"
    BY DEF Transporting
<1>2. EvidenceInv' /\ (ctx' = "live" => ctx = "live")
    BY EvidenceRunStep, BudgetStaysEnded DEF Transporting, RabbitGraphInv, SweepInv
<1>3. stage # "sweep" => UNCHANGED <<pc, paths>>
    BY <1>1, RunStepAfterReturn DEF Transporting, RabbitInv, RabbitSocketInv, ownerVars
<1>4. stage = "sweep" /\ pc' # "failed" => WholePaths'
  <2>1. pc' # "failed" => pc # "failed"
      BY FailureIsFinal DEF Transporting
  <2> QED
      BY <2>1, WholeRunStep DEF Transporting, RabbitGraphInv, PathsTriedInv, SweepInv
<1>5. RabbitReplyInv' /\ RabbitOutcomeInv'
    BY <1>1 DEF RabbitGraphInv, RabbitReplyInv, RabbitOutcomeInv, Declined
<1>6. StartedInv' /\ AsFarAsItGoesInv'
    BY <1>1, <1>2, <1>3 DEF RabbitGraphInv, StartedInv, AsFarAsItGoesInv
<1>7. PathsTriedInv'
    BY <1>1, <1>2, <1>3, <1>4 DEF RabbitGraphInv, PathsTriedInv, InStart
<1> QED
    BY <1>2, <1>5, <1>6, <1>7 DEF RabbitGraphInv

LEMMA StartingKeepsGraph ==
    ASSUME SweepInv, RabbitInv, RabbitGraphInv, Starting
    PROVE  RabbitGraphInv'
<1> USE DEF RabbitStages, BeforeStartOk, InStart, Negotiating, InOpen, tuneVars, rabbitGraph
<1>1. CASE BeginPaths
  <2>1. UNCHANGED <<ctx, pc, paths>> /\ EvidenceInv'
      BY <1>1, RabbitQuiet, EvidenceQuiet DEF BeginPaths, RabbitGraphInv
  <2>2. RabbitReplyInv' /\ RabbitOutcomeInv'
      BY <1>1 DEF BeginPaths, RabbitGraphInv, RabbitReplyInv, RabbitOutcomeInv, Declined
  <2>3. StartedInv' /\ AsFarAsItGoesInv'
      BY <1>1 DEF BeginPaths, RabbitGraphInv, StartedInv, AsFarAsItGoesInv
  <2>4. PathsTriedInv'
      BY <1>1, <2>1 DEF BeginPaths, RabbitGraphInv, PathsTriedInv, WholePaths
  <2> QED
      BY <2>1, <2>2, <2>3, <2>4 DEF RabbitGraphInv
<1>2. ASSUME NEW a \in Addr, SendHeader(a) PROVE RabbitGraphInv'
  <2>1. pc = "returned" /\ attempts = 0
      BY <1>2 DEF SendHeader, RabbitInv, RabbitSocketInv, RabbitSecretInv
  <2>2. EvidenceInv'
      BY <1>2, <2>1, EvidenceJourneyStep DEF SendHeader, sweptVars, JourneyKeeps, RabbitGraphInv
  <2>3. \A b \in Addr : paths'[b].conn = paths[b].conn
      BY <1>2, HolderConn DEF SendHeader, SweepInv, TransportTypeOK
  <2>4. RabbitReplyInv' /\ RabbitOutcomeInv'
      BY <1>2 DEF SendHeader, RabbitGraphInv, RabbitReplyInv, RabbitOutcomeInv, Declined
  <2>5. StartedInv' /\ AsFarAsItGoesInv'
      BY <1>2, <2>1 DEF SendHeader, RabbitGraphInv, StartedInv, AsFarAsItGoesInv
  <2>6. PathsTriedInv'
      BY <1>2, <2>3 DEF SendHeader, RabbitGraphInv, PathsTriedInv
  <2> QED
      BY <2>2, <2>4, <2>5, <2>6 DEF RabbitGraphInv
<1>3. ASSUME NEW r \in {"started"} \cup Broken, StartReturns(r) PROVE RabbitGraphInv'
  <2>1. UNCHANGED <<ctx, pc, paths>> /\ EvidenceInv'
      BY <1>3, RabbitQuiet, EvidenceQuiet DEF StartReturns, RabbitGraphInv
  <2>2. RabbitReplyInv' /\ RabbitOutcomeInv'
      BY <1>3
      DEF StartReturns, Broken, RabbitGraphInv, RabbitReplyInv, RabbitOutcomeInv, Declined
  <2>3. StartedInv' /\ AsFarAsItGoesInv'
      BY <1>3 DEF StartReturns, RabbitGraphInv, StartedInv, AsFarAsItGoesInv
  <2>4. PathsTriedInv'
      BY <1>3, <2>1 DEF StartReturns, RabbitGraphInv, PathsTriedInv
  <2> QED
      BY <2>1, <2>2, <2>3, <2>4 DEF RabbitGraphInv
<1>4. CASE RecordStart
  <2>1. /\ pc = "returned" /\ attempts = 0 /\ at \in Addr /\ at \notin sessions
        /\ UNCHANGED <<ctx, pc, paths, todo, at, attempts, reply, ctxErr, credential, auth, opened>>
        /\ stage = "startRead" /\ stage' = "paths"
      BY <1>4
      DEF RecordStart, sweptVars, clockVars, RabbitInv, RabbitTypeOK, RabbitSocketInv,
          RabbitSecretInv
  <2>2. EvidenceInv'
      BY <1>4, <2>1, EvidenceJourneyStep
      DEF RecordStart, sweptVars, JourneyKeeps, RabbitGraphInv
  <2>3. /\ \A b \in Addr : b # at => start'[b] = start[b]
        /\ Decided(start'[at]) /\ start'[at] # NoNode
        /\ start'[at].state = "PASS" <=> reply = "started"
    <3>1. start'[at] = classifyStart(reply, ctx) /\ \A b \in Addr : b # at => start'[b] = start[b]
        BY <1>4, <2>1 DEF RecordStart, RabbitInv, RabbitTypeOK
    <3>2. reply # "limit" /\ ctx \in {"live"} \cup Endings
        BY DEF RabbitGraphInv, RabbitReplyInv, SweepInv, TransportTypeOK
    <3> QED
        BY <3>1, <3>2, VerdictFacts, VerdictIsRecorded
  <2>4. sessions' = IF reply = "started" THEN sessions \cup {at} ELSE sessions
      BY <1>4 DEF RecordStart
  <2>5. RabbitReplyInv' /\ RabbitOutcomeInv'
      BY <2>1, <2>3 DEF RabbitGraphInv, RabbitReplyInv, RabbitOutcomeInv, Declined
  <2>6. StartedInv' /\ AsFarAsItGoesInv'
    <3>1. sessions \subseteq Addr
        BY DEF RabbitInv, RabbitTypeOK
    <3> QED
        BY <2>1, <2>3, <2>4, <3>1 DEF RabbitGraphInv, StartedInv, AsFarAsItGoesInv
  <2>7. PathsTriedInv'
      BY <2>1, <2>3 DEF RabbitGraphInv, PathsTriedInv
  <2> QED
      BY <2>2, <2>5, <2>6, <2>7 DEF RabbitGraphInv
<1>5. CASE PathsDone
  <2>1. UNCHANGED <<ctx, pc, paths>> /\ EvidenceInv'
      BY <1>5, RabbitQuiet, EvidenceQuiet DEF PathsDone, RabbitGraphInv
  <2>2. RabbitReplyInv' /\ RabbitOutcomeInv'
      BY <1>5 DEF PathsDone, RabbitGraphInv, RabbitReplyInv, RabbitOutcomeInv, Declined
  <2>3. StartedInv' /\ AsFarAsItGoesInv'
      BY <1>5 DEF PathsDone, RabbitGraphInv, StartedInv, AsFarAsItGoesInv
  <2>4. PathsTriedInv'
      BY <1>5, <2>1 DEF PathsDone, RabbitGraphInv, PathsTriedInv
  <2> QED
      BY <2>1, <2>2, <2>3, <2>4 DEF RabbitGraphInv
<1> QED
    BY <1>1, <1>2, <1>3, <1>4, <1>5 DEF Starting

\* One of the started paths goes on, or none started.
LEMMA SelectingKeepsGraph ==
    ASSUME SweepInv, RabbitInv, RabbitGraphInv, NothingToSelect \/ \E a \in Addr : Select(a)
    PROVE  RabbitGraphInv'
<1> USE DEF RabbitStages, BeforeStartOk, InStart, Negotiating, InOpen, tuneVars, rabbitGraph
<1>1. /\ pc = "returned" /\ attempts = 0 /\ stage = "select"
    BY DEF NothingToSelect, Select, RabbitInv, RabbitSocketInv, RabbitSecretInv
<1>2. CASE NothingToSelect
  <2>1. UNCHANGED <<ctx, pc, paths>> /\ EvidenceInv'
      BY <1>2, RabbitQuiet, EvidenceQuiet DEF NothingToSelect, RabbitGraphInv
  <2>2. RabbitReplyInv' /\ RabbitOutcomeInv'
      BY <1>2 DEF NothingToSelect, RabbitGraphInv, RabbitReplyInv, RabbitOutcomeInv, Declined
  <2>3. StartedInv' /\ PathsTriedInv'
      BY <1>2 DEF NothingToSelect, RabbitGraphInv, StartedInv, PathsTriedInv
  <2>4. AsFarAsItGoesInv'
      BY <1>2, <2>1
      DEF NothingToSelect, RabbitGraphInv, StartedInv, PathsTriedInv, AsFarAsItGoesInv
  <2> QED
      BY <2>1, <2>2, <2>3, <2>4 DEF RabbitGraphInv
<1>3. ASSUME NEW a \in Addr, Select(a) PROVE RabbitGraphInv'
  <2>1. a \in sessions
      BY <1>3 DEF Select, IsChosen, Eligible, Preferred
  <2>2. /\ UNCHANGED <<ctx, pc, paths, attempts, reply, ctxErr, credential, start, auth, opened>>
        /\ at' = a /\ sessions' = {a} /\ stage' \in {"leave", "authenticate"}
        /\ stage' = "leave" => ctx' # "live"
      BY <1>3 DEF Select, sweptVars, clockVars
  <2>3. EvidenceInv'
      BY <1>1, <1>3, EvidenceJourneyStep DEF Select, sweptVars, JourneyKeeps, RabbitGraphInv
  <2>4. RabbitReplyInv' /\ RabbitOutcomeInv'
      BY <2>2 DEF RabbitGraphInv, RabbitReplyInv, RabbitOutcomeInv, Declined
  <2>5. StartedInv' /\ PathsTriedInv' /\ AsFarAsItGoesInv'
      BY <1>1, <2>1, <2>2 DEF RabbitGraphInv, StartedInv, PathsTriedInv, AsFarAsItGoesInv
  <2> QED
      BY <2>3, <2>4, <2>5 DEF RabbitGraphInv
<1> QED
    BY <1>2, <1>3

\* A step past the selection: what it records is a verdict or a refusal of its
\* own, and it leaves only with one.
LEMMA PastSelectionKeepsGraph ==
    ASSUME SweepInv, RabbitInv, RabbitGraphInv, RabbitReplyInv',
           UNCHANGED <<transportVars, credential, todo, at, sessions, start>>,
           stage \in {"authenticate"} \cup Negotiating \cup InOpen,
           stage' \in {"leave"} \cup Negotiating \cup InOpen,
           auth' = auth \/ Decided(auth') \/ Declined(auth'),
           opened' = opened \/ Decided(opened'),
           stage' = "leave" /\ ctx = "live" =>
              auth' # NoNode /\ (auth'.state = "PASS" => opened' # NoNode)
    PROVE  RabbitGraphInv'
<1> USE DEF RabbitStages, BeforeStartOk, InStart, Negotiating, InOpen
<1>1. UNCHANGED <<ctx, pc, paths>> /\ EvidenceInv'
    BY RabbitQuiet, EvidenceQuiet DEF RabbitGraphInv
<1>2. at \in sessions
    BY DEF RabbitInv, RabbitSocketInv
<1>3. RabbitOutcomeInv'
    BY DEF RabbitGraphInv, RabbitOutcomeInv, Declined
<1>4. StartedInv' /\ PathsTriedInv' /\ AsFarAsItGoesInv'
    BY <1>1, <1>2 DEF RabbitGraphInv, StartedInv, PathsTriedInv, AsFarAsItGoesInv
<1> QED
    BY <1>1, <1>3, <1>4 DEF RabbitGraphInv

LEMMA AuthenticatingKeepsGraph ==
    ASSUME SweepInv, RabbitInv, RabbitGraphInv, Authenticating
    PROVE  RabbitGraphInv'
<1> USE DEF RabbitStages, BeforeStartOk, InStart, Negotiating, InOpen, tuneVars, rabbitGraph
<1>1. CASE Withhold
  <2>1. Declined(auth') /\ auth'.state # "PASS" /\ auth' # NoNode
      BY <1>1 DEF Withhold, Withheld, Declined, Node, NoNode
  <2>3. RabbitReplyInv'
      BY <1>1 DEF Withhold, RabbitGraphInv, RabbitReplyInv
  <2> QED
      BY <1>1, <2>1, <2>3, PastSelectionKeepsGraph DEF Withhold
<1>2. CASE SendStartOk
  <2>1. RabbitReplyInv'
      BY <1>2 DEF SendStartOk, RabbitGraphInv, RabbitReplyInv
  <2> QED
      BY <1>2, <2>1, PastSelectionKeepsGraph DEF SendStartOk
<1>3. ASSUME NEW r, r # "limit", NEW o, StartOkReturns(r, o) PROVE RabbitGraphInv'
  <2>1. ctx \in {"live"} \cup Endings
      BY DEF SweepInv, TransportTypeOK
  <2>2. RabbitReplyInv'
      BY <1>3, <2>1 DEF StartOkReturns, RabbitGraphInv, RabbitReplyInv
  <2> QED
      BY <1>3, <2>2, PastSelectionKeepsGraph DEF StartOkReturns
<1>4. ASSUME NEW r \in {"accepted"} \cup Broken, TuneOkReturns(r) PROVE RabbitGraphInv'
  <2>1. RabbitReplyInv'
      BY <1>4 DEF TuneOkReturns, Broken, RabbitGraphInv, RabbitReplyInv
  <2> QED
      BY <1>4, <2>1, PastSelectionKeepsGraph DEF TuneOkReturns
<1>5. CASE RecordAuth
  <2>1. RabbitReplyInv'
      BY <1>5 DEF RecordAuth, RabbitGraphInv, RabbitReplyInv
  <2>2. /\ TuneFailure(reply) # "limit"
        /\ TuneFailure(reply) = "invalid" => credential = "unusable"
        /\ ctxErr \in {"live"} \cup Endings
        /\ TuneFailure(reply) = "accepted" => reply = "accepted"
      BY <1>5 DEF RecordAuth, TuneFailure, RabbitGraphInv, RabbitReplyInv
  <2>3. Decided(auth') \/ Declined(auth')
      BY <1>5, <2>2, VerdictFacts DEF RecordAuth, Declined
  <2>4. auth'.state = "PASS" => reply = "accepted"
      BY <1>5, <2>2, RabbitNodeFacts DEF RecordAuth
  <2>5. auth' # NoNode
      BY <2>3, VerdictIsRecorded
  <2> QED
      BY <1>5, <2>1, <2>3, <2>4, <2>5, PastSelectionKeepsGraph DEF RecordAuth
<1>6. CASE \E o \in FrameSizes : StartOkReturns("tune", o)
    BY <1>3, <1>6
<1>7. CASE \E r \in {"secure", "invalid"} \cup AuthRefusals \cup Broken : StartOkReturns(r, 0)
    BY <1>3, <1>7 DEF AuthRefusals, Broken
<1> QED
    BY <1>1, <1>2, <1>4, <1>5, <1>6, <1>7, SelectingKeepsGraph DEF Authenticating

LEMMA OpeningKeepsGraph ==
    ASSUME SweepInv, RabbitInv, RabbitGraphInv, Opening
    PROVE  RabbitGraphInv'
<1> USE DEF RabbitStages, BeforeStartOk, InStart, Negotiating, InOpen, tuneVars, rabbitGraph
<1>1. ASSUME NEW r \in {"openOk"} \cup OpenRefusals \cup Broken, OpenReturns(r)
      PROVE  RabbitGraphInv'
  <2>1. ctx \in {"live"} \cup Endings
      BY DEF SweepInv, TransportTypeOK
  <2>2. RabbitReplyInv'
      BY <1>1, <2>1 DEF OpenReturns, OpenRefusals, Broken, RabbitGraphInv, RabbitReplyInv
  <2> QED
      BY <1>1, <2>2, PastSelectionKeepsGraph DEF OpenReturns
<1>2. CASE AckClose \/ \E answered \in BOOLEAN : GracefulClose(answered)
  <2>1. RabbitReplyInv'
      BY <1>2 DEF AckClose, GracefulClose, RabbitGraphInv, RabbitReplyInv
  <2> QED
      BY <1>2, <2>1, PastSelectionKeepsGraph DEF AckClose, GracefulClose
<1>3. CASE RecordOpen
  <2>1. RabbitReplyInv'
      BY <1>3 DEF RecordOpen, RabbitGraphInv, RabbitReplyInv
  <2>2. Decided(opened') /\ opened' # NoNode
      BY <1>3, VerdictFacts, VerdictIsRecorded DEF RecordOpen, RabbitGraphInv, RabbitReplyInv
  <2>3. auth' = auth /\ auth # NoNode
      BY <1>3, VerdictIsRecorded DEF RecordOpen, RabbitInv, RabbitSecretInv
  <2> QED
      BY <1>3, <2>1, <2>2, <2>3, PastSelectionKeepsGraph DEF RecordOpen
<1> QED
    BY <1>1, <1>2, <1>3 DEF Opening

LEMMA LeaveKeepsGraph ==
    ASSUME SweepInv, RabbitInv, RabbitGraphInv, Leave
    PROVE  RabbitGraphInv'
<1> USE DEF RabbitStages, BeforeStartOk, InStart, Negotiating, InOpen, tuneVars, rabbitGraph
<1>1. /\ pc = "returned" /\ stage = "leave" /\ stage' = "done"
      /\ UNCHANGED <<ctx, dns, tcp, tls, at, attempts, reply, ctxErr, credential, start, auth,
                     opened>>
    BY DEF Leave, sweptVars, clockVars, graphVars, RabbitInv, RabbitSocketInv
<1>2. EvidenceInv'
    BY <1>1, EvidenceJourneyStep DEF Leave, sweptVars, JourneyKeeps, RabbitGraphInv
<1>3. \A b \in Addr : paths'[b].conn = paths[b].conn
    BY HolderConn DEF Leave, SweepInv, TransportTypeOK
<1>4. incomplete' <=> incompleteRun(RabbitRecorded, FALSE)'
    BY <1>1 DEF Leave, incompleteRun, RabbitRecorded, SweepNodes
<1>5. RabbitReplyInv' /\ RabbitOutcomeInv'
    BY <1>1 DEF RabbitGraphInv, RabbitReplyInv, RabbitOutcomeInv, Declined
<1>6. StartedInv' /\ PathsTriedInv'
    BY <1>1 DEF Leave, RabbitGraphInv, StartedInv, PathsTriedInv
<1>7. AsFarAsItGoesInv'
    BY <1>1, <1>3, <1>4 DEF RabbitGraphInv, AsFarAsItGoesInv
<1> QED
    BY <1>2, <1>5, <1>6, <1>7 DEF RabbitGraphInv

LEMMA RabbitGraphStep ==
    SweepInv /\ RabbitInv /\ RabbitGraphInv /\ [RabbitNext]_rabbitRunVars => RabbitGraphInv'
<1> SUFFICES ASSUME SweepInv, RabbitInv, RabbitGraphInv, [RabbitNext]_rabbitRunVars
             PROVE  RabbitGraphInv'
    OBVIOUS
<1>1. CASE UNCHANGED rabbitRunVars
  <2> USE DEF rabbitRunVars, rabbitVars, rabbitGraph
  <2>1. UNCHANGED <<ctx, pc, paths, dns, tcp, tls>> /\ EvidenceInv'
      BY <1>1, EvidenceQuiet
      DEF transportVars, clockVars, graphVars, ownerVars, RabbitGraphInv
  <2>2. RabbitReplyInv' /\ RabbitOutcomeInv'
      BY <1>1 DEF RabbitGraphInv, RabbitReplyInv, RabbitOutcomeInv, Declined
  <2>3. StartedInv' /\ PathsTriedInv'
      BY <1>1, <2>1 DEF RabbitGraphInv, StartedInv, PathsTriedInv, WholePaths
  <2>4. AsFarAsItGoesInv'
      BY <1>1, <2>1
      DEF RabbitGraphInv, AsFarAsItGoesInv, incompleteRun, RabbitRecorded, SweepNodes
  <2> QED
      BY <2>1, <2>2, <2>3, <2>4 DEF RabbitGraphInv
<1> QED
    BY <1>1, TransportingKeepsGraph, StartingKeepsGraph, AuthenticatingKeepsGraph,
       OpeningKeepsGraph, LeaveKeepsGraph
    DEF RabbitNext, RabbitOver

-----------------------------------------------------------------------------
(* RabbitMQ: what the rules make of the graph.                             *)

LEMMA RabbitEvFacts ==
    /\ \A a \in Addr : /\ startEv(a).step = "rabbitmq.connection_start"
                       /\ startEv(a).subject = Address(a)
                       /\ startEv(a).state = start[a].state
                       /\ CutShort(startEv(a)) <=> CutShort(start[a])
    /\ authEv.step = "rabbitmq.authentication" /\ authEv.subject = Address(at)
    /\ authEv.state = auth.state /\ authEv.class = auth.class
    /\ openEv.step = "rabbitmq.connection_open" /\ openEv.subject = Address(at)
    /\ openEv.state = opened.state /\ openEv.class = opened.class
  BY RecordedFacts DEF startEv, authEv, openEv

\* The nodes of each step, and no others.
LEMMA RabbitNodesAt ==
    /\ \A e \in nodesAt(RabbitEvidence, "rabbitmq.connection_start") :
          e \in RabbitEvidence /\ \E a \in Addr : e = startEv(a)
    /\ \A e \in nodesAt(RabbitEvidence, "rabbitmq.authentication") :
          e \in RabbitEvidence /\ e = authEv
    /\ \A e \in nodesAt(RabbitEvidence, "rabbitmq.connection_open") :
          e \in RabbitEvidence /\ e = openEv
    /\ \A a \in Addr : start[a].state # "NONE" =>
          startEv(a) \in nodesAt(RabbitEvidence, "rabbitmq.connection_start")
    /\ auth.state # "NONE" => authEv \in nodesAt(RabbitEvidence, "rabbitmq.authentication")
    /\ opened.state # "NONE" => openEv \in nodesAt(RabbitEvidence, "rabbitmq.connection_open")
  BY RabbitEvFacts, SweepSteps DEF RabbitEvidence, RecordedIn, nodesAt

\* A finding about one step's node: what it rests on, and about whom.
RabbitClaim(f, e, severities) ==
    /\ e \in RabbitEvidence /\ f.refs = {e} /\ f.subject = e.subject
    /\ f.severity \in severities /\ ~CutShort(e)

\* The claims the two evaluations may make, and of which nodes.
LEMMA AuthenticationFindingFacts ==
    ASSUME NEW e
    PROVE  /\ \A c \in authenticationFinding(e) :
                /\ c[2] \in {"ERROR", "WARN"} /\ ~CutShort(e)
                /\ c[2] = "ERROR" =>
                     \/ e.state = "FAIL"
                     \/ e.state = "UNKNOWN" /\ e.class = "MECHANISM_NOT_OFFERED"
           /\ \/ e.state = "FAIL"
              \/ e.state = "SKIPPED" /\ e.class \in {"INPUT_MISSING", "POLICY"}
              \/ e.state = "UNKNOWN" /\ e.class \in {"MECHANISM_NOT_OFFERED", "UNSUPPORTED_CAPABILITY"}
              => authenticationFinding(e) # {}
<1>1. CASE e.state = "SKIPPED" /\ e.class = "INPUT_MISSING"
  <2>1. authenticationFinding(e) = {<<"RABBITMQ_CREDENTIAL_NOT_CONFIGURED", "WARN">>}
      BY <1>1 DEF authenticationFinding
  <2> QED
      BY <1>1, <2>1 DEF CutShort
<1>2. CASE e.state = "SKIPPED" /\ e.class = "POLICY"
  <2>1. authenticationFinding(e) = {<<"RABBITMQ_CREDENTIAL_WITHHELD", "WARN">>}
      BY <1>2 DEF authenticationFinding
  <2> QED
      BY <1>2, <2>1 DEF CutShort
<1>3. CASE e.state = "UNKNOWN" /\ e.class = "MECHANISM_NOT_OFFERED"
  <2>1. authenticationFinding(e) = {<<"RABBITMQ_AUTH_MECHANISM_NOT_OFFERED", "ERROR">>}
      BY <1>3 DEF authenticationFinding
  <2> QED
      BY <1>3, <2>1 DEF CutShort, BudgetClasses
<1>4. CASE e.state = "UNKNOWN" /\ e.class = "UNSUPPORTED_CAPABILITY"
  <2>1. authenticationFinding(e) =
          {<<"RABBITMQ_AUTHENTICATION_UNSUPPORTED_BY_SVCDOCTOR", "WARN">>}
      BY <1>4 DEF authenticationFinding
  <2> QED
      BY <1>4, <2>1 DEF CutShort, BudgetClasses
<1>5. CASE e.state = "FAIL" /\ e.class = "REJECTED"
  <2>1. authenticationFinding(e) = {<<"RABBITMQ_CREDENTIALS_REJECTED", "ERROR">>}
      BY <1>5 DEF authenticationFinding
  <2> QED
      BY <1>5, <2>1 DEF CutShort
<1>6. CASE e.state = "FAIL" /\ e.class # "REJECTED"
  <2>1. authenticationFinding(e) = {<<"RABBITMQ_AUTHENTICATION_NOT_COMPLETED", "ERROR">>}
      BY <1>6 DEF authenticationFinding
  <2> QED
      BY <1>6, <2>1 DEF CutShort
<1>7. CASE /\ e.state # "FAIL"
           /\ ~(e.state = "SKIPPED" /\ e.class \in {"INPUT_MISSING", "POLICY"})
           /\ ~(/\ e.state = "UNKNOWN"
                /\ e.class \in {"MECHANISM_NOT_OFFERED", "UNSUPPORTED_CAPABILITY"})
  <2>1. authenticationFinding(e) = {}
      BY <1>7 DEF authenticationFinding
  <2> QED
      BY <1>7, <2>1
<1> QED
    BY <1>1, <1>2, <1>3, <1>4, <1>5, <1>6, <1>7

LEMMA ConnectionOpenFindingFacts ==
    ASSUME NEW e
    PROVE  /\ \A c \in connectionOpenFinding(e) : c[2] = "ERROR" /\ e.state = "FAIL"
           /\ e.state = "FAIL" => connectionOpenFinding(e) # {}
<1>1. CASE e.state # "FAIL"
    BY <1>1 DEF connectionOpenFinding
<1>2. CASE e.state = "FAIL" /\ e.class = "NOT_FOUND"
  <2>1. connectionOpenFinding(e) = {<<"RABBITMQ_VHOST_NOT_FOUND", "ERROR">>}
      BY <1>2 DEF connectionOpenFinding
  <2> QED
      BY <1>2, <2>1
<1>3. CASE e.state = "FAIL" /\ e.class = "AUTHZ_DENIED"
  <2>1. connectionOpenFinding(e) = {<<"RABBITMQ_VHOST_ACCESS_REFUSED", "ERROR">>}
      BY <1>3 DEF connectionOpenFinding
  <2> QED
      BY <1>3, <2>1
<1>4. CASE e.state = "FAIL" /\ e.class \in {"LIMIT_REACHED", "NOT_PERMITTED"}
  <2>1. connectionOpenFinding(e) = {<<"RABBITMQ_CONNECTION_NOT_PERMITTED", "ERROR">>}
      BY <1>4 DEF connectionOpenFinding
  <2> QED
      BY <1>4, <2>1
<1>5. CASE /\ e.state = "FAIL"
           /\ e.class \notin {"NOT_FOUND", "AUTHZ_DENIED", "LIMIT_REACHED", "NOT_PERMITTED"}
  <2>1. connectionOpenFinding(e) = {<<"RABBITMQ_CONNECTION_NOT_ESTABLISHED", "ERROR">>}
      BY <1>5 DEF connectionOpenFinding
  <2> QED
      BY <1>5, <2>1
<1> QED
    BY <1>1, <1>2, <1>3, <1>4, <1>5

LEMMA StartClaims ==
    ASSUME NEW f \in ConnectionStart
    PROVE  \E a \in Addr : RabbitClaim(f, startEv(a), {"ERROR"}) /\ start[a].state = "FAIL"
<1> DEFINE Evaluate(e) == IF e.state = "FAIL"
                          THEN {<<"RABBITMQ_CONNECTION_START_NOT_COMPLETED", "ERROR">>} ELSE {}
<1>1. PICK e \in nodesAt(RabbitEvidence, "rabbitmq.connection_start") :
        \E c \in Evaluate(e) : f = Finding(c[1], c[2], e.layer, e.subject, {e})
    BY DEF ConnectionStart, ClaimsOf
<1>2. PICK c \in Evaluate(e) : f = Finding(c[1], c[2], e.layer, e.subject, {e})
    BY <1>1
<1>3. e.state = "FAIL" /\ c[2] = "ERROR"
    BY <1>2
<1>4. PICK a \in Addr : e = startEv(a)
    BY RabbitNodesAt
<1> QED
    BY <1>2, <1>3, <1>4, RabbitNodesAt, RabbitEvFacts, FindingFacts DEF RabbitClaim, CutShort

LEMMA AuthClaims ==
    ASSUME NEW f \in ClaimsOf(nodesAt(RabbitEvidence, "rabbitmq.authentication"),
                              authenticationFinding)
    PROVE  /\ RabbitClaim(f, authEv, {"ERROR", "WARN"})
           /\ f.severity = "ERROR" =>
                \/ auth.state = "FAIL"
                \/ auth.state = "UNKNOWN" /\ auth.class = "MECHANISM_NOT_OFFERED"
<1>1. PICK e \in nodesAt(RabbitEvidence, "rabbitmq.authentication") :
        \E c \in authenticationFinding(e) : f = Finding(c[1], c[2], e.layer, e.subject, {e})
    BY DEF ClaimsOf
<1>2. PICK c \in authenticationFinding(e) : f = Finding(c[1], c[2], e.layer, e.subject, {e})
    BY <1>1
<1>3. /\ c[2] \in {"ERROR", "WARN"} /\ ~CutShort(e)
      /\ c[2] = "ERROR" =>
           \/ e.state = "FAIL"
           \/ e.state = "UNKNOWN" /\ e.class = "MECHANISM_NOT_OFFERED"
    BY AuthenticationFindingFacts
<1>4. e = authEv /\ e \in RabbitEvidence
    BY RabbitNodesAt
<1> QED
    BY <1>2, <1>3, <1>4, RabbitEvFacts, FindingFacts DEF RabbitClaim

LEMMA OpenClaims ==
    ASSUME NEW f \in ClaimsOf(nodesAt(RabbitEvidence, "rabbitmq.connection_open"),
                              connectionOpenFinding)
    PROVE  RabbitClaim(f, openEv, {"ERROR"}) /\ opened.state = "FAIL"
<1>1. PICK e \in nodesAt(RabbitEvidence, "rabbitmq.connection_open") :
        \E c \in connectionOpenFinding(e) : f = Finding(c[1], c[2], e.layer, e.subject, {e})
    BY DEF ClaimsOf
<1>2. PICK c \in connectionOpenFinding(e) : f = Finding(c[1], c[2], e.layer, e.subject, {e})
    BY <1>1
<1>3. e.state = "FAIL" /\ c[2] = "ERROR"
    BY ConnectionOpenFindingFacts
<1>4. e = openEv /\ e \in RabbitEvidence
    BY RabbitNodesAt
<1> QED
    BY <1>2, <1>3, <1>4, RabbitEvFacts, FindingFacts DEF RabbitClaim, CutShort

\* Each node that says something is wrong has its claim.
LEMMA RabbitClaimsAreMade ==
    /\ \A a \in Addr : start[a].state = "FAIL" => \E f \in RabbitFindings : Notable(f)
    /\ auth.state = "FAIL" \/ (Declined(auth) /\ auth.state = "SKIPPED")
         \/ (Declined(auth) /\ auth.class # "INPUT_MISSING") =>
         \E f \in RabbitFindings : Notable(f)
    /\ opened.state = "FAIL" => \E f \in RabbitFindings : Notable(f)
<1>1. ASSUME NEW a \in Addr, start[a].state = "FAIL" PROVE \E f \in RabbitFindings : Notable(f)
  <2> DEFINE c == <<"RABBITMQ_CONNECTION_START_NOT_COMPLETED", "ERROR">>
             Evaluate(e) == IF e.state = "FAIL" THEN {c} ELSE {}
             Claims(e) == {Finding(b[1], b[2], e.layer, e.subject, {e}) : b \in Evaluate(e)}
             f == Finding(c[1], c[2], startEv(a).layer, startEv(a).subject, {startEv(a)})
  <2>1. startEv(a) \in nodesAt(RabbitEvidence, "rabbitmq.connection_start")
        /\ startEv(a).state = "FAIL"
      BY <1>1, RabbitNodesAt, RabbitEvFacts
  <2>2. ConnectionStart =
          UNION {Claims(e) : e \in nodesAt(RabbitEvidence, "rabbitmq.connection_start")}
      BY Zenon DEF ConnectionStart, ClaimsOf
  <2>3. f \in Claims(startEv(a))
      BY <2>1
  <2>4. f.severity = "ERROR"
      BY FindingFacts
  <2> HIDE DEF Claims, f
  <2>5. f \in ConnectionStart
      BY <2>1, <2>2, <2>3
  <2> QED
      BY <2>4, <2>5 DEF RabbitFindings, Notable
<1>2. ASSUME \/ auth.state = "FAIL"
             \/ Declined(auth) /\ auth.state = "SKIPPED"
             \/ Declined(auth) /\ auth.class # "INPUT_MISSING"
      PROVE  \E f \in RabbitFindings : Notable(f)
  <2> DEFINE F(b, e) == Finding(b[1], b[2], e.layer, e.subject, {e})
             Claims(e) == {F(b, e) : b \in authenticationFinding(e)}
             C == ClaimsOf(nodesAt(RabbitEvidence, "rabbitmq.authentication"),
                           authenticationFinding)
  <2>1. authEv \in nodesAt(RabbitEvidence, "rabbitmq.authentication")
      BY <1>2, RabbitNodesAt DEF Declined
  <2>2. PICK c \in authenticationFinding(authEv) : c[2] \in {"ERROR", "WARN"}
      BY <1>2, RabbitEvFacts, AuthenticationFindingFacts DEF Declined
  <2>3. C = UNION {Claims(e) : e \in nodesAt(RabbitEvidence, "rabbitmq.authentication")}
      BY Zenon DEF ClaimsOf
  <2>4. F(c, authEv) \in Claims(authEv) /\ F(c, authEv).severity \in {"ERROR", "WARN"}
      BY <2>2, FindingFacts
  <2> HIDE DEF F, Claims
  <2>5. F(c, authEv) \in C
      BY <2>1, <2>3, <2>4
  <2> QED
      BY <2>4, <2>5 DEF RabbitFindings, Notable
<1>3. ASSUME opened.state = "FAIL" PROVE \E f \in RabbitFindings : Notable(f)
  <2> DEFINE F(b, e) == Finding(b[1], b[2], e.layer, e.subject, {e})
             Claims(e) == {F(b, e) : b \in connectionOpenFinding(e)}
             C == ClaimsOf(nodesAt(RabbitEvidence, "rabbitmq.connection_open"),
                           connectionOpenFinding)
  <2>1. openEv \in nodesAt(RabbitEvidence, "rabbitmq.connection_open")
      BY <1>3, RabbitNodesAt
  <2>2. PICK c \in connectionOpenFinding(openEv) : c[2] = "ERROR"
      BY <1>3, RabbitEvFacts, ConnectionOpenFindingFacts
  <2>3. C = UNION {Claims(e) : e \in nodesAt(RabbitEvidence, "rabbitmq.connection_open")}
      BY Zenon DEF ClaimsOf
  <2>4. F(c, openEv) \in Claims(openEv) /\ F(c, openEv).severity = "ERROR"
      BY <2>2, FindingFacts
  <2> HIDE DEF F, Claims
  <2>5. F(c, openEv) \in C
      BY <2>1, <2>3, <2>4
  <2> QED
      BY <2>4, <2>5 DEF RabbitFindings, Notable
<1> QED
    BY <1>1, <1>2, <1>3

LEMMA RabbitGrounded ==
    ASSUME SweepInv, RabbitInv, RabbitGraphInv, RabbitCredentialDiscipline, stage = "done"
    PROVE  RabbitFindingsGrounded
<1> SUFFICES ASSUME NEW f \in RabbitFindings
             PROVE  /\ f.refs # {} /\ f.refs \subseteq RabbitEvidence
                    /\ Notable(f) => \A e \in f.refs : ~CutShort(e)
                    /\ Problem(f) => \E e \in f.refs :
                         e.state = "FAIL" \/ e.class = "MECHANISM_NOT_OFFERED"
                    /\ Problem(f) /\ f.subject = Address(at) => opened.state # "PASS"
    BY Zenon DEF RabbitFindingsGrounded, RefsResolve
<1>1. SweepEvidence \subseteq RabbitEvidence /\ pc = "closed" /\ at \in Addr
    BY DEF RabbitEvidence, RabbitInv, RabbitTypeOK, RabbitSocketInv
<1>2. opened.state = "PASS" =>
        auth.state = "PASS" /\ tls[at].state = "PASS" /\ start[at].state = "PASS"
  <2>1. opened.state = "PASS" => opened # NoNode
      BY VerdictIsRecorded
  <2> QED
      BY <2>1 DEF RabbitCredentialDiscipline, RabbitGraphInv, StartedInv
<1>3. CASE f \in FailureBoundary(RabbitEvidence)
    BY <1>3, BoundaryFacts DEF Notable, Problem
<1>4. CASE f \in TransportFindings
  <2>1. SweepClaim(f, SweepEvidence)
      BY <1>1, <1>4, SweepClaims DEF RabbitGraphInv
  <2> QED
      BY <1>1, <1>2, <2>1 DEF SweepClaim, CutShort
<1>5. CASE f \in ConnectionStart
  <2>1. PICK a \in Addr : RabbitClaim(f, startEv(a), {"ERROR"}) /\ start[a].state = "FAIL"
      BY <1>5, StartClaims
  <2> QED
      BY <1>1, <1>2, <2>1, RabbitEvFacts, SubjectFacts DEF RabbitClaim
<1>6. CASE f \in ClaimsOf(nodesAt(RabbitEvidence, "rabbitmq.authentication"),
                          authenticationFinding)
    BY <1>2, <1>6, AuthClaims, RabbitEvFacts DEF RabbitClaim, Problem
<1>7. CASE f \in ClaimsOf(nodesAt(RabbitEvidence, "rabbitmq.connection_open"),
                          connectionOpenFinding)
    BY <1>7, OpenClaims, RabbitEvFacts DEF RabbitClaim
<1> QED
    BY <1>3, <1>4, <1>5, <1>6, <1>7 DEF RabbitFindings

LEMMA RabbitIsExplained ==
    ASSUME SweepInv, RabbitInv, RabbitGraphInv, stage = "done", ~incomplete,
           opened.state # "PASS", credential # "unusable"
    PROVE  \E f \in RabbitFindings : Notable(f)
<1>1. /\ ctx = "live" /\ pc = "closed"
      /\ \A n \in RabbitRecorded : ~CutShort(n)
    BY DEF RabbitGraphInv, AsFarAsItGoesInv, incompleteRun, RabbitInv, RabbitSocketInv
<1>2. /\ ~CutShort(auth) /\ ~CutShort(opened) /\ \A a \in Addr : ~CutShort(start[a])
      /\ \A n \in SweepNodes : ~CutShort(n)
    BY <1>1 DEF RabbitRecorded
<1>3. CASE auth # NoNode /\ (auth.state = "PASS" => opened # NoNode)
  <2>1. CASE auth.state = "PASS"
    <3>1. opened.state = "FAIL"
        BY <1>2, <1>3, <2>1 DEF RabbitGraphInv, RabbitOutcomeInv, Decided
    <3> QED
        BY <3>1, RabbitClaimsAreMade
  <2>2. CASE auth.state # "PASS"
    <3>1. auth.state = "FAIL" \/ Declined(auth)
        BY <1>2, <1>3, <2>2 DEF RabbitGraphInv, RabbitOutcomeInv, Decided
    <3>2. Declined(auth) => auth.state = "SKIPPED" \/ auth.class # "INPUT_MISSING"
        BY DEF Declined
    <3> QED
        BY <3>1, <3>2, RabbitClaimsAreMade
  <2> QED
      BY <2>1, <2>2
<1>4. CASE \A a \in Addr : start[a].state # "PASS" /\ (paths[a].conn => start[a] # NoNode)
  <2>1. CASE \A a \in Addr : ~paths[a].conn
    <3>1. \E f \in TransportFindings : Notable(f)
        BY <1>1, <1>2, <2>1, SweepExplains DEF RabbitGraphInv
    <3> QED
        BY <3>1 DEF RabbitFindings
  <2>2. ASSUME NEW a \in Addr, paths[a].conn PROVE \E f \in RabbitFindings : Notable(f)
    <3>1. start[a].state = "FAIL"
        BY <1>2, <1>4, <2>2 DEF RabbitGraphInv, RabbitOutcomeInv, Decided
    <3> QED
        BY <3>1, RabbitClaimsAreMade
  <2> QED
      BY <2>1, <2>2
<1> QED
    BY <1>1, <1>3, <1>4 DEF RabbitGraphInv, AsFarAsItGoesInv

\* A finished RabbitMQ run is faithful, for any set of addresses, any answers
\* and any moment at which its budget ends: its sockets are closed, what it
\* reports rests on failures the endpoint answers for and never calls a virtual
\* host that opened broken, and a complete run that did not open one says why.
THEOREM RabbitRunIsFaithful == RabbitSpec => []RabbitRunFaithful
<1>1. RabbitSpec => []RabbitGraphInv
  <2>1. RabbitSpec => [](SweepInv /\ RabbitInv) /\ RabbitGraphInv /\ [][RabbitNext]_rabbitRunVars
      BY RabbitInvariant, RabbitGraphInit DEF RabbitSpec
  <2> QED
      BY <2>1, RabbitGraphStep, PTL
<1>2. SweepInv /\ RabbitInv /\ RabbitGraphInv /\ RabbitCredentialDiscipline
        => RabbitFindingsGrounded /\ RabbitExplained
    BY RabbitGrounded, RabbitIsExplained DEF RabbitFindingsGrounded, RabbitExplained
<1> QED
    BY <1>1, <1>2, RabbitInvariant, RabbitCredentialIsDisciplined, RabbitSocketsEndWithTheRun, PTL
    DEF RabbitRunFaithful

-----------------------------------------------------------------------------
(* Kubernetes: the inductive invariant.                                    *)

Unconnected   == {"declared", "inspected", "rewritten", "refused"}
Unlisted       == Unconnected \cup {"get", "getting"}
InPods        == {"pods", "podsPage"}
InPublication == {"publication", "publicationPage"}
Ended         == {"record", "done"}
K8sStages     == Unlisted \cup InPods \cup {"between"} \cup InPublication \cup Ended

\* A stage of client.Result. How many slices were observed, and where a list
\* with endpoints stopped, is left to the accumulator.
IsStage(e) ==
    e \in [attempted : BOOLEAN, skip : {e.skip}, failure : {e.failure}, stop : {e.stop},
          pages : 0..MaxPages, observed : {e.observed}]

K8sTypeOK ==
    /\ kdecl \in [inCluster : BOOLEAN, supplied : BOOLEAN]
    /\ kfile \in Contexts
    /\ kstage \in K8sStages
    /\ kctx \in {"live", "deadline", "cancelled"}
    /\ IsStage(access) /\ IsStage(service) /\ IsStage(pods) /\ IsStage(publication)
    /\ kfacts \in [supported : BOOLEAN, selector : BOOLEAN]
    /\ whole \in SUBSET {"pods", "publication"} /\ kincomplete \in BOOLEAN
    /\ served \in [pods : Nat, slices : {served.slices}]
    /\ krequests \in Nat

\* What Connect settled, whatever became of the kubeconfig since.
AuthorityInv ==
    kstage \notin Unconnected =>
        /\ Cardinality(kauth.identities) = 1
        /\ kauth.trusted
        /\ Supplied => kauth.identities = {"supplied"} /\ kauth.server = kbound
        /\ kdecl.inCluster <=> kauth.identities = {"serviceAccount"}

\* A list in progress, and one that ended: it was read to its last page only
\* if no request of it failed and the API said there is no more.
Going(e) == e.attempted /\ e.failure = "none" /\ e.stop = "complete"
Settled(e, list) ==
    /\ e.attempted
    /\ e.stop = "complete" => e.failure = "none" /\ e.pages > 0 /\ list \in whole

Answers == {"forbidden", "notFound", "expired", "error"}

ReadInv ==
    /\ kstage \in Unlisted =>
         /\ {access, service, pods, publication} = {Skip("none")}
         /\ krequests = 0 /\ whole = {}
    /\ kstage \in InPods \cup {"between"} \cup InPublication =>
         access = Stage("none") /\ service = Stage("none") /\ kfacts.supported /\ kfacts.selector
    /\ served.pods = pods.observed
    /\ krequests <= 1 + pods.pages + publication.pages

ListInv ==
    /\ kstage \in InPods => Going(pods)
    /\ kstage \in InPods \cup {"between"} => publication = Skip("none")
    /\ kstage \in {"between"} \cup InPublication => Settled(pods, "pods")
    /\ kstage \in InPublication => Going(publication)
    /\ kstage \in {"podsPage", "publicationPage"} => mayFetch(List)

\* The five ways a run comes to its end.
Unattempted ==
    /\ kctx # "live"
    /\ {access, service, pods, publication} = {Skip("cancelled")}

AccessFailed ==
    /\ \E f \in AccessFailures : access = Stage(f)
    /\ {service, pods, publication} = {Skip("apiAccessFailed")}

ServiceUnavailable ==
    /\ access = Stage("none")
    /\ \E f \in Answers : service = Stage(f)
    /\ {pods, publication} = {Skip("serviceUnavailable")}

NothingToList ==
    /\ access = Stage("none") /\ service = Stage("none")
    /\ \E r \in {"selectorLess", "unsupportedType"} : {pods, publication} = {Skip(r)}
    /\ ~(kfacts.supported /\ kfacts.selector)

ListsRead ==
    /\ access = Stage("none") /\ service = Stage("none")
    /\ kfacts.supported /\ kfacts.selector
    /\ Settled(pods, "pods")
    /\ \/ Settled(publication, "publication")
       \/ publication = Skip("cancelled") /\ kctx # "live"

EndInv ==
    /\ kstage \in Ended =>
         Unattempted \/ AccessFailed \/ ServiceUnavailable \/ NothingToList \/ ListsRead
    /\ kstage = "done" => (kincomplete <=> Incomplete \/ kctx # "live")

K8sInv == K8sTypeOK /\ AuthorityInv /\ ReadInv /\ ListInv /\ EndInv

-----------------------------------------------------------------------------
(* Kubernetes: the authority.                                              *)

LEMMA ModesFacts ==
    ASSUME NEW user \in SUBSET Declared
    PROVE  /\ IsFiniteSet(Modes(user)) /\ Cardinality(Modes(user)) \in Nat
           /\ Cardinality(Modes(user)) = 0 <=> Modes(user) = {}
           /\ "serviceAccount" \notin Modes(user)
<1>1. Modes(user) \in SUBSET ({"token"} \cup {"tokenFile"} \cup {"cert"})
    BY DEF Modes
<1>2. IsFiniteSet({"token"} \cup {"tokenFile"} \cup {"cert"})
    BY FS_Singleton, FS_Union
<1>3. IsFiniteSet(Modes(user))
    BY <1>1, <1>2, FS_Subset
<1> QED
    BY <1>1, <1>3, FS_EmptySet, FS_CardinalityType

LEMMA ContextFacts == Unread \in Contexts /\ \A d : ContextsOf(d) \subseteq Contexts
<1>1. [server |-> "A", prohibited |-> FALSE, user |-> {}, usable |-> TRUE, present |-> TRUE]
        \in Contexts
    BY DEF Contexts
<1>2. Unread \in Contexts
    BY <1>1 DEF Unread
<1> QED
    BY <1>2 DEF ContextsOf

\* What authorizes a connection gives it one identity, and to a supplied
\* credential the endpoint it was bound to.
LEMMA ConnectSettles ==
    ASSUME K8sTypeOK, NEW projected \in BOOLEAN, Connect(projected), kstage' = "get"
    PROVE  AuthorityInv'
<1>1. /\ Authorizes(kfile, Supplied) /\ bindCredential(kfile)
      /\ kauth' = [server |-> EndpointOf(kfile),
                   trusted |-> kdecl.inCluster \/ ~kfile.prohibited,
                   identities |-> IF kdecl.inCluster THEN {"serviceAccount"}
                                  ELSE Modes(kfile.user) \cup
                                       (IF Supplied THEN {"supplied"} ELSE {})]
      /\ kbound' = kbound /\ kdecl' = kdecl
    BY DEF Connect
<1>2. kfile.user \in SUBSET Declared /\ kdecl.inCluster \in BOOLEAN /\ Supplied \in BOOLEAN
      /\ Supplied' = Supplied
    BY <1>1 DEF K8sTypeOK, Contexts, Supplied
<1>3. CASE kdecl.inCluster
  <2>1. ~Supplied /\ kauth'.identities = {"serviceAccount"} /\ kauth'.trusted
      BY <1>1, <1>3 DEF Authorizes
  <2>2. Cardinality(kauth'.identities) = 1
      BY <2>1, FS_Singleton
  <2> QED
      BY <1>1, <1>2, <1>3, <2>1, <2>2 DEF AuthorityInv
<1>4. CASE ~kdecl.inCluster
  <2>1. /\ ~kfile.prohibited
        /\ Cardinality(Modes(kfile.user)) + (IF Supplied THEN 1 ELSE 0) = 1
      BY <1>1, <1>4 DEF Authorizes, loadKubeconfig, modeResolves
  <2>2. kauth'.trusted
      BY <1>1, <2>1
  <2>3. CASE Supplied
    <3>1. Modes(kfile.user) = {} /\ kauth'.server = kbound
        BY <1>1, <1>2, <2>1, <2>3, ModesFacts DEF bindCredential
    <3>2. kauth'.identities = {"supplied"}
        BY <1>1, <1>4, <2>3, <3>1
    <3>3. Cardinality(kauth'.identities) = 1
        BY <3>2, FS_Singleton
    <3> QED
        BY <1>1, <1>2, <1>4, <2>2, <3>1, <3>2, <3>3 DEF AuthorityInv
  <2>4. CASE ~Supplied
    <3>1. kauth'.identities = Modes(kfile.user)
        BY <1>1, <1>4, <2>4
    <3>2. Cardinality(kauth'.identities) = 1 /\ "serviceAccount" \notin kauth'.identities
        BY <1>2, <2>1, <2>4, <3>1, ModesFacts
    <3> QED
        BY <1>1, <1>2, <1>4, <2>2, <2>4, <3>2 DEF AuthorityInv
  <2> QED
      BY <2>3, <2>4
<1> QED
    BY <1>3, <1>4

-----------------------------------------------------------------------------
(* Kubernetes: every step keeps the invariant.                             *)

LEMMA StageFacts ==
    /\ \A r : IsStage(Skip(r)) /\ ~Skip(r).attempted /\ Skip(r).skip = r
    /\ \A r : Skip(r).pages = 0 /\ Skip(r).observed = 0 /\ Skip(r).failure = "none"
    /\ \A f : IsStage(Stage(f)) /\ Stage(f).attempted /\ Stage(f).failure = f
    /\ \A f : Stage(f).pages = 0 /\ Stage(f).observed = 0 /\ Stage(f).stop = "complete"
<1>1. 0 \in 0..MaxPages
    BY BudgetsAssumption
<1>2. /\ \A r : IsStage(Skip(r)) /\ ~Skip(r).attempted /\ Skip(r).skip = r
      /\ \A r : Skip(r).pages = 0 /\ Skip(r).observed = 0 /\ Skip(r).failure = "none"
    BY <1>1 DEF IsStage, Skip
<1>3. /\ \A f : IsStage(Stage(f)) /\ Stage(f).attempted /\ Stage(f).failure = f
      /\ \A f : Stage(f).pages = 0 /\ Stage(f).observed = 0 /\ Stage(f).stop = "complete"
    BY <1>1 DEF IsStage, Skip, Stage
<1> QED
    BY <1>2, <1>3

LEMMA K8sInvInit == K8sInit => K8sInv
<1> SUFFICES ASSUME K8sInit PROVE K8sInv
    OBVIOUS
<1> USE DEF Unlisted, Unconnected, InPods, InPublication, Ended
<1>1. K8sTypeOK
    BY StageFacts, ContextFacts DEF K8sInit, K8sIdle, K8sTypeOK, K8sStages, NoFacts
<1>2. AuthorityInv /\ ListInv /\ EndInv
    BY DEF K8sInit, K8sIdle, AuthorityInv, ListInv, EndInv
<1>3. ReadInv
    BY StageFacts DEF K8sInit, K8sIdle, ReadInv
<1> QED
    BY <1>1, <1>2, <1>3 DEF K8sInv

LEMMA ConnectingKeepsInv == K8sInv /\ Connecting => K8sInv'
<1> SUFFICES ASSUME K8sInv, Connecting PROVE K8sInv'
    OBVIOUS
<1> USE DEF Unlisted, Unconnected, InPods, InPublication, Ended
<1>1. /\ kstage \in Unlisted /\ kstage' \in {"inspected", "rewritten", "refused", "get"}
      /\ kfile' \in Contexts /\ kdecl' = kdecl
      /\ UNCHANGED <<kctx, access, service, pods, publication, kfacts, whole, served, krequests,
                     kincomplete>>
    BY ContextFacts
    DEF Connecting, Inspect, Rewrite, Connect, NothingRead, stageVars, listVars, K8sInv, K8sTypeOK
<1>2. K8sTypeOK'
    BY <1>1 DEF K8sInv, K8sTypeOK, IsStage, K8sStages
<1>3. AuthorityInv'
  <2>1. kstage' = "get" => \E projected \in BOOLEAN : Connect(projected)
      BY DEF Connecting, Inspect, Rewrite
  <2> QED
      BY <1>1, <2>1, ConnectSettles DEF K8sInv, AuthorityInv
<1>4. ReadInv' /\ ListInv' /\ EndInv'
    BY <1>1 DEF K8sInv, ReadInv, ListInv, EndInv
<1> QED
    BY <1>2, <1>3, <1>4 DEF K8sInv

\* Past the connection nothing touches the authority.
LEMMA AuthorityStays ==
    ASSUME AuthorityInv, UNCHANGED <<configVars, kauth>>, kstage \notin Unconnected
    PROVE  AuthorityInv'
  BY DEF AuthorityInv, configVars, Supplied

LEMMA ReadingKeepsInv == K8sInv /\ Reading => K8sInv'
<1> SUFFICES ASSUME K8sInv, Reading PROVE K8sInv'
    OBVIOUS
<1> USE DEF Unlisted, Unconnected, InPods, InPublication, Ended
<1>1. /\ kstage \in {"get", "getting"} /\ UNCHANGED <<configVars, kauth, kctx, kincomplete>>
      /\ UNCHANGED <<acc, whole, served>>
    BY DEF Reading, SendGet, NotRead, ServiceRefused, ServiceRead, Requesting, listVars
<1>2. AuthorityInv'
    BY <1>1, AuthorityStays DEF K8sInv
<1>3. /\ {access, service, pods, publication} = {Skip("none")} /\ krequests = 0 /\ whole = {}
      /\ served.pods = 0 /\ kdecl' = kdecl /\ kfile' = kfile
    BY <1>1, StageFacts DEF K8sInv, ReadInv, configVars
<1>4. CASE SendGet
  <2>1. /\ kstage' = "getting"
        /\ UNCHANGED <<access, service, pods, publication, kfacts, krequests>>
      BY <1>4 DEF SendGet, stageVars
  <2>2. K8sTypeOK'
      BY <1>1, <1>3, <2>1 DEF K8sInv, K8sTypeOK, IsStage, K8sStages
  <2>3. ReadInv' /\ ListInv' /\ EndInv'
      BY <1>1, <2>1 DEF K8sInv, ReadInv, ListInv, EndInv
  <2> QED
      BY <1>2, <2>2, <2>3 DEF K8sInv
<1>5. CASE NotRead
  <2>1. /\ kstage' = "record" /\ kctx # "live"
        /\ {access', service', pods', publication'} = {Skip("cancelled")}
        /\ UNCHANGED <<kfacts, krequests>>
      BY <1>5 DEF NotRead, SkipLists
  <2>2. K8sTypeOK'
      BY <1>1, <1>3, <2>1, StageFacts DEF K8sInv, K8sTypeOK, K8sStages, IsStage
  <2>3. ReadInv' /\ ListInv'
      BY <1>1, <1>3, <2>1, StageFacts DEF ReadInv, ListInv
  <2>4. EndInv'
      BY <1>1, <2>1 DEF EndInv, Unattempted
  <2> QED
      BY <1>2, <2>2, <2>3, <2>4 DEF K8sInv
<1>6. ASSUME NEW r \in Failures, ServiceRefused(r) PROVE K8sInv'
  <2> DEFINE f == classifyAPI(r)
  <2>1. /\ kstage' = "record" /\ krequests' = 1 /\ kfacts' = kfacts
        /\ f \in AccessFailures \cup Answers
      BY <1>3, <1>6
      DEF ServiceRefused, classifyAPI, Failures, AccessFailures, Answers
  <2>2. \/ AccessFailed'
        \/ ServiceUnavailable'
      BY <1>6, <2>1 DEF ServiceRefused, SkipLists, AccessFailed, ServiceUnavailable
  <2>3. /\ IsStage(access') /\ IsStage(service') /\ IsStage(pods') /\ IsStage(publication')
        /\ pods'.observed = 0 /\ pods'.pages = 0 /\ publication'.pages = 0
      BY <2>2, StageFacts DEF AccessFailed, ServiceUnavailable
  <2> HIDE DEF f
  <2>4. K8sTypeOK'
      BY <1>1, <1>3, <2>1, <2>3 DEF K8sInv, K8sTypeOK, K8sStages, IsStage
  <2>5. ReadInv' /\ ListInv' /\ EndInv'
      BY <1>1, <1>3, <2>1, <2>2, <2>3 DEF ReadInv, ListInv, EndInv
  <2> QED
      BY <1>2, <2>4, <2>5 DEF K8sInv
<1>7. ASSUME NEW facts \in [supported : BOOLEAN, selector : BOOLEAN], ServiceRead(facts)
      PROVE  K8sInv'
  <2>1. /\ access' = Stage("none") /\ service' = Stage("none") /\ kfacts' = facts
        /\ krequests' = 1
      BY <1>3, <1>7 DEF ServiceRead
  <2>2. CASE facts.supported /\ facts.selector
    <3>1. /\ kstage' = "pods" /\ pods' = Stage("none") /\ publication' = Skip("none")
        BY <1>3, <1>7, <2>2 DEF ServiceRead, Enumeration
    <3>2. K8sTypeOK'
        BY <1>1, <1>3, <2>1, <3>1, StageFacts DEF K8sInv, K8sTypeOK, K8sStages, IsStage
    <3>3. ReadInv' /\ ListInv' /\ EndInv'
        BY <1>1, <1>3, <2>1, <2>2, <3>1, StageFacts DEF ReadInv, ListInv, EndInv, Going
    <3> QED
        BY <1>2, <3>2, <3>3 DEF K8sInv
  <2>3. CASE ~(facts.supported /\ facts.selector)
    <3>1. /\ kstage' = "record"
          /\ \E r \in {"selectorLess", "unsupportedType"} : {pods', publication'} = {Skip(r)}
        BY <1>7, <2>3 DEF ServiceRead, SkipLists
    <3>2. K8sTypeOK'
        BY <1>1, <1>3, <2>1, <3>1, StageFacts DEF K8sInv, K8sTypeOK, K8sStages, IsStage
    <3>3. ReadInv' /\ ListInv'
        BY <1>1, <1>3, <2>1, <3>1, StageFacts DEF ReadInv, ListInv
    <3>4. EndInv'
        BY <1>1, <2>1, <2>3, <3>1 DEF EndInv, NothingToList
    <3> QED
        BY <1>2, <3>2, <3>3, <3>4 DEF K8sInv
  <2> QED
      BY <2>2, <2>3
<1> QED
    BY <1>4, <1>5, <1>6, <1>7 DEF Reading

\* What a list may have become after an update of these fields.
UpdatesOf(e, p, f, s, o) ==
    [attempted : BOOLEAN, skip : {e.skip}, failure : {e.failure, f}, stop : {e.stop, s},
     pages : {e.pages, p}, observed : {e.observed, o}]

LEMMA UpdateIsStage ==
    ASSUME NEW e, IsStage(e), NEW p \in 0..MaxPages, NEW f, NEW s, NEW o
    PROVE  /\ e \in UpdatesOf(e, p, f, s, o)
           /\ \A d \in UpdatesOf(e, p, f, s, o) : IsStage(d)
  BY DEF UpdatesOf, IsStage

\* A page of a list, and a list that goes on or ends with it.
LEMMA PageReturnsKeepsInv ==
    ASSUME K8sInv, NEW next \in BOOLEAN, NEW items,
           PageReturns(items, next), ListsPods => items \in PodPages
    PROVE  K8sInv'
<1> USE DEF Unlisted, Unconnected, InPods, InPublication, Ended
<1> DEFINE stop == CASE consume(acc, items).stop # "complete" -> consume(acc, items).stop
                     [] consume(acc, items).stop = "complete" /\ next
                          /\ List.observed + Cardinality(items) >= MaxObjects -> "objectLimit"
                     [] OTHER -> "complete"
<1>1. /\ kstage \in {"podsPage", "publicationPage"}
      /\ UNCHANGED <<configVars, kauth, kctx, kincomplete, access, service, kfacts>>
      /\ krequests' = krequests + 1
      /\ whole' = IF next THEN whole ELSE whole \cup {Listed}
      /\ whole \in SUBSET {"pods", "publication"}
    BY DEF PageReturns, Requesting, K8sInv, K8sTypeOK
<1> HIDE DEF stop
<1>2. /\ whole' \in SUBSET {"pods", "publication"}
      /\ whole \subseteq whole'
      /\ ~next => Listed \in whole'
    BY <1>1 DEF Listed
<1>3. AuthorityInv'
    BY <1>1, AuthorityStays DEF K8sInv
<1>4. /\ access = Stage("none") /\ service = Stage("none") /\ kfacts.supported /\ kfacts.selector
      /\ kdecl' = kdecl /\ kfile' = kfile /\ krequests \in Nat
    BY <1>1 DEF K8sInv, K8sTypeOK, ReadInv, configVars
<1>5. CASE kstage = "podsPage"
  <2>1. ListsPods /\ List = pods /\ MaxObjects = MaxPods /\ Listed = "pods"
      BY <1>5 DEF ListsPods, List, MaxObjects, Listed
  <2>2. /\ IsStage(pods) /\ Going(pods) /\ pods.pages \in Nat /\ pods.pages < MaxPages
        /\ publication = Skip("none") /\ pods.observed \in Nat /\ pods.observed = served.pods
        /\ served \in [pods : Nat, slices : {served.slices}]
      BY <1>5, <2>1 DEF K8sInv, K8sTypeOK, ReadInv, ListInv, mayFetch, IsStage
  <2>3. Cardinality(items) \in Nat
    <3>1. PICK n \in 0..PageSize : items = 1..n
        BY <2>1 DEF PodPages
    <3>2. n \in Nat
        BY <3>1, BudgetsAssumption
    <3>3. Cardinality(1..n) = IF 1 > n THEN 0 ELSE n - 1 + 1
        BY <3>2, FS_Interval
    <3> QED
        BY <3>1, <3>2, <3>3
  <2>4. /\ publication' = publication
        /\ pods' = [[pods EXCEPT !.pages = @ + 1, !.observed = @ + Cardinality(items)]
                      EXCEPT !.stop = stop]
        /\ served' = [served EXCEPT !.pods = @ + Cardinality(items)]
        /\ IF stop # "complete" \/ ~next THEN kstage' = "between" ELSE kstage' = "pods"
      BY <1>5, <2>1 DEF PageReturns, Put, EndList, stop
  <2>5. /\ pods'.attempted /\ pods'.failure = "none" /\ pods'.stop = stop
        /\ pods'.pages = pods.pages + 1 /\ pods'.observed = pods.observed + Cardinality(items)
        /\ pods'.attempted \in BOOLEAN
      BY <2>2, <2>4 DEF IsStage, Going
  <2>6. IsStage(pods')
    <3> DEFINE D == UpdatesOf(pods, pods.pages + 1, pods.failure, stop, pods.observed + Cardinality(items))
    <3>1. pods.pages + 1 \in 0..MaxPages /\ IsStage(pods)
        BY <2>1, <2>2, BudgetsAssumption
    <3>2. pods \in D /\ \A u \in D : IsStage(u)
        BY <3>1, UpdateIsStage
    <3>3. pods' \in D
        BY <2>1, <2>2, <2>4, <3>2 DEF UpdatesOf
    <3> QED
        BY <3>2, <3>3
  <2>7. K8sTypeOK'
      BY <1>1, <1>4, <1>2, <2>2, <2>3, <2>4, <2>6 DEF K8sInv, K8sTypeOK, K8sStages, IsStage
  <2>8. ReadInv'
      BY <1>1, <1>4, <2>2, <2>3, <2>4, <2>5, StageFacts DEF K8sInv, ReadInv
  <2>9. kstage' = "between" => Settled(pods, "pods")'
      BY <1>2, <2>1, <2>2, <2>4, <2>5 DEF Settled
  <2>10. ListInv' /\ EndInv'
      BY <1>1, <2>2, <2>4, <2>5, <2>9 DEF ListInv, EndInv, Going
  <2> QED
      BY <1>3, <2>7, <2>8, <2>9, <2>10 DEF K8sInv
<1>6. CASE kstage = "publicationPage"
  <2>1. ~ListsPods /\ List = publication /\ MaxObjects = MaxSlices /\ Listed = "publication"
      BY <1>6 DEF ListsPods, List, MaxObjects, Listed
  <2>2. /\ IsStage(publication) /\ Going(publication) /\ publication.pages \in Nat
        /\ publication.pages < MaxPages /\ Settled(pods, "pods") /\ IsStage(pods) /\ pods.pages \in Nat
        /\ served \in [pods : Nat, slices : {served.slices}]
      BY <1>6, <2>1 DEF K8sInv, K8sTypeOK, ListInv, mayFetch, IsStage
  <2>4. /\ pods' = pods
        /\ publication' = [[publication EXCEPT !.pages = @ + 1,
                                              !.observed = @ + Cardinality(items)]
                             EXCEPT !.stop = stop]
        /\ served' = [served EXCEPT !.slices = @ \cup items]
        /\ IF stop # "complete" \/ ~next THEN kstage' = "record" ELSE kstage' = "publication"
      BY <1>6, <2>1 DEF PageReturns, Put, EndList, stop
  <2>5. /\ publication'.attempted /\ publication'.failure = "none" /\ publication'.stop = stop
        /\ publication'.pages = publication.pages + 1 /\ publication'.attempted \in BOOLEAN
      BY <2>2, <2>4 DEF IsStage, Going
  <2>6. IsStage(publication')
    <3> DEFINE D == UpdatesOf(publication, publication.pages + 1, publication.failure, stop, publication.observed + Cardinality(items))
    <3>1. publication.pages + 1 \in 0..MaxPages /\ IsStage(publication)
        BY <2>1, <2>2, BudgetsAssumption
    <3>2. publication \in D /\ \A u \in D : IsStage(u)
        BY <3>1, UpdateIsStage
    <3>3. publication' \in D
        BY <2>1, <2>2, <2>4, <3>2 DEF UpdatesOf
    <3> QED
        BY <3>2, <3>3
  <2>7. K8sTypeOK'
      BY <1>1, <1>4, <1>2, <2>2, <2>4, <2>6 DEF K8sInv, K8sTypeOK, K8sStages, IsStage
  <2>8. ReadInv'
      BY <1>1, <1>4, <2>2, <2>4, <2>5 DEF K8sInv, ReadInv
  <2>9. Settled(pods, "pods")'
      BY <1>2, <2>2, <2>4 DEF Settled
  <2>10. kstage' = "record" => Settled(publication, "publication")'
      BY <1>2, <2>1, <2>2, <2>4, <2>5 DEF Settled
  <2>11. ListInv'
      BY <1>1, <2>2, <2>4, <2>5, <2>9 DEF ListInv, Going
  <2>12. EndInv'
      BY <1>1, <1>4, <2>2, <2>4, <2>9, <2>10 DEF EndInv, ListsRead
  <2> QED
      BY <1>3, <2>7, <2>8, <2>11, <2>12 DEF K8sInv
<1> QED
    BY <1>1, <1>5, <1>6

\* A list that ends before its last page: it says so in its stop.
LEMMA CutShortKeepsInv ==
    ASSUME K8sInv, NEW p \in Nat, NEW f, NEW stop, stop # "complete",
           kstage \in InPods \cup InPublication, List.pages + p <= MaxPages,
           NEW d \in UpdatesOf(List, List.pages + p, f, stop, List.observed),
           d.attempted, d.stop = stop, d.pages = List.pages + p,
           Put(d), EndList, krequests' = krequests + p,
           UNCHANGED <<access, service, kfacts, listVars>>, Requesting
    PROVE  K8sInv'
<1> USE DEF Unlisted, Unconnected, InPods, InPublication, Ended
<1>1. /\ UNCHANGED <<configVars, kauth, kctx, kincomplete, access, service, kfacts>>
      /\ UNCHANGED <<acc, whole, served>>
    BY DEF Requesting, listVars
<1>2. AuthorityInv'
    BY <1>1, AuthorityStays DEF K8sInv
<1>3. /\ access = Stage("none") /\ service = Stage("none") /\ kfacts.supported /\ kfacts.selector
      /\ kdecl' = kdecl /\ kfile' = kfile /\ krequests \in Nat
    BY <1>1 DEF K8sInv, K8sTypeOK, ReadInv, configVars
<1>4. CASE ListsPods
  <2>1. /\ IsStage(pods) /\ Going(pods) /\ pods.pages \in Nat /\ publication = Skip("none")
      BY <1>4 DEF ListsPods, K8sInv, K8sTypeOK, ListInv, IsStage
  <2>2. /\ kstage' = "between" /\ publication' = publication
        /\ pods' = d /\ d \in UpdatesOf(pods, pods.pages + p, f, stop, pods.observed)
        /\ pods.pages + p <= MaxPages
      BY <1>4 DEF Put, EndList, List
  <2>3. /\ pods'.attempted /\ pods'.stop = stop /\ pods'.pages = pods.pages + p
        /\ pods'.observed = pods.observed
      BY <1>4, <2>2 DEF List, UpdatesOf
  <2>4. IsStage(pods')
    <3> DEFINE D == UpdatesOf(pods, pods.pages + p, f, stop, pods.observed)
    <3>1. pods.pages + p \in 0..MaxPages /\ IsStage(pods)
        BY <2>1, <2>2, BudgetsAssumption
    <3>2. pods \in D /\ \A u \in D : IsStage(u)
        BY <3>1, UpdateIsStage
    <3>3. pods' \in D
        BY <2>2
    <3> QED
        BY <3>2, <3>3
  <2>5. K8sTypeOK'
      BY <1>1, <1>3, <2>1, <2>2, <2>4 DEF K8sInv, K8sTypeOK, K8sStages, IsStage
  <2>6. ReadInv'
      BY <1>1, <1>3, <2>1, <2>2, <2>3, StageFacts DEF K8sInv, ReadInv
  <2>7. ListInv' /\ EndInv'
      BY <1>1, <2>1, <2>2, <2>3 DEF ListInv, EndInv, Settled
  <2> QED
      BY <1>2, <2>5, <2>6, <2>7 DEF K8sInv
<1>5. CASE ~ListsPods
  <2>1. /\ IsStage(publication) /\ Going(publication) /\ publication.pages \in Nat
        /\ IsStage(pods) /\ Settled(pods, "pods") /\ pods.pages \in Nat
      BY <1>5 DEF ListsPods, K8sInv, K8sTypeOK, ListInv, IsStage
  <2>2. /\ kstage' = "record" /\ pods' = pods
        /\ publication' = d /\ d \in UpdatesOf(publication, publication.pages + p, f, stop, publication.observed)
        /\ publication.pages + p <= MaxPages
      BY <1>5 DEF Put, EndList, List
  <2>3. /\ publication'.attempted /\ publication'.stop = stop
        /\ publication'.pages = publication.pages + p
      BY <1>5, <2>2 DEF List
  <2>4. IsStage(publication')
    <3> DEFINE D == UpdatesOf(publication, publication.pages + p, f, stop, publication.observed)
    <3>1. publication.pages + p \in 0..MaxPages /\ IsStage(publication)
        BY <2>1, <2>2, BudgetsAssumption
    <3>2. publication \in D /\ \A u \in D : IsStage(u)
        BY <3>1, UpdateIsStage
    <3>3. publication' \in D
        BY <2>2
    <3> QED
        BY <3>2, <3>3
  <2>5. K8sTypeOK'
      BY <1>1, <1>3, <2>1, <2>2, <2>4 DEF K8sInv, K8sTypeOK, K8sStages, IsStage
  <2>6. ReadInv'
      BY <1>1, <1>3, <2>1, <2>2, <2>3 DEF K8sInv, ReadInv
  <2>7. ListInv' /\ EndInv'
      BY <1>1, <1>3, <2>1, <2>2, <2>3 DEF ListInv, EndInv, ListsRead, Settled
  <2> QED
      BY <1>2, <2>5, <2>6, <2>7 DEF K8sInv
<1> QED
    BY <1>4, <1>5

LEMMA ListingKeepsInv == K8sInv /\ Listing => K8sInv'
<1> SUFFICES ASSUME K8sInv, Listing PROVE K8sInv'
    OBVIOUS
<1> USE DEF Unlisted, Unconnected, InPods, InPublication, Ended
<1>1. kstage \in InPods \cup InPublication =>
        IsStage(List) /\ Going(List) /\ List.pages \in Nat /\ List.pages <= MaxPages
    BY BudgetsAssumption DEF K8sInv, K8sTypeOK, ListInv, List, ListsPods, IsStage
<1>2. CASE StopBefore
  <2> DEFINE f == IF ~mayFetch(List) THEN List.failure ELSE classifyAPI("error")
             stop == IF ~mayFetch(List) THEN "pageLimit" ELSE "cancelled"
             d == IF ~mayFetch(List) THEN [List EXCEPT !.stop = "pageLimit"]
                  ELSE [List EXCEPT !.stop = "cancelled", !.failure = classifyAPI("error")]
  <2>1. /\ kstage \in InPods \cup InPublication /\ krequests' = krequests
        /\ Put(d) /\ EndList /\ UNCHANGED <<access, service, kfacts, listVars>> /\ Requesting
      BY <1>2 DEF StopBefore, cutShort
  <2>2. krequests \in Nat /\ List.pages + 0 = List.pages /\ krequests + 0 = krequests
      BY <1>1, <2>1 DEF K8sInv, K8sTypeOK
  <2>3. d \in UpdatesOf(List, List.pages, f, stop, List.observed)
      BY <1>1, <2>1 DEF IsStage, UpdatesOf
  <2>4. d.attempted /\ d.stop = stop /\ d.pages = List.pages /\ stop # "complete"
      BY <1>1, <2>1 DEF IsStage, Going
  <2> HIDE DEF f, stop, d
  <2> QED
      BY <1>1, <2>1, <2>2, <2>3, <2>4, CutShortKeepsInv
<1>3. CASE Fetch
  <2>1. /\ \/ kstage = "pods" /\ kstage' = "podsPage"
           \/ kstage = "publication" /\ kstage' = "publicationPage"
        /\ mayFetch(List)
        /\ UNCHANGED <<configVars, kauth, kctx, kincomplete, access, service, pods, publication,
                       kfacts, whole, served, krequests>>
        /\ kfile' = kfile /\ kdecl' = kdecl
      BY <1>3 DEF Fetch, ListsPods, Requesting, stageVars, listVars, configVars
  <2>2. AuthorityInv'
      BY <2>1, AuthorityStays DEF K8sInv
  <2>3. K8sTypeOK'
      BY <2>1 DEF K8sInv, K8sTypeOK, K8sStages, IsStage
  <2>4. ReadInv' /\ EndInv'
      BY <2>1 DEF K8sInv, ReadInv, EndInv
  <2>5. ListInv'
      BY <2>1 DEF K8sInv, ListInv, Going, Settled, mayFetch, List, ListsPods
  <2> QED
      BY <2>2, <2>3, <2>4, <2>5 DEF K8sInv
<1>4. CASE BeginPublication
  <2>1. /\ kstage = "between"
        /\ \/ kstage' = "publication" /\ publication' = Stage("none")
           \/ kstage' = "record" /\ publication' = Skip("cancelled") /\ kctx # "live"
        /\ UNCHANGED <<configVars, kauth, kctx, kincomplete, access, service, pods,
                       kfacts, whole, served, krequests>>
        /\ kfile' = kfile /\ kdecl' = kdecl
      BY <1>4 DEF BeginPublication, Requesting, listVars, configVars, Enumeration
  <2>2. AuthorityInv'
      BY <2>1, AuthorityStays DEF K8sInv
  <2>3. IsStage(publication')
      BY <2>1, StageFacts
  <2>4. K8sTypeOK'
      BY <2>1, <2>3 DEF K8sInv, K8sTypeOK, K8sStages, IsStage
  <2>5. /\ access = Stage("none") /\ service = Stage("none") /\ kfacts.supported /\ kfacts.selector
        /\ Settled(pods, "pods") /\ publication.pages = 0 /\ publication'.pages = 0
      BY <2>1, StageFacts DEF K8sInv, ReadInv, ListInv
  <2>6. ReadInv'
      BY <2>1, <2>5 DEF K8sInv, ReadInv
  <2>7. ListInv'
      BY <2>1, <2>5, StageFacts DEF ListInv, Going, Settled
  <2>8. EndInv'
      BY <2>1, <2>5 DEF EndInv, ListsRead, Settled
  <2> QED
      BY <2>2, <2>4, <2>6, <2>7, <2>8 DEF K8sInv
<1>5. ASSUME NEW r \in Failures, PageFails(r) PROVE K8sInv'
  <2> DEFINE f == classifyAPI(r)
             stop == CASE f = "expired" -> "expired"
                       [] f \in {"cancelled", "timeout"} -> "cancelled"
                       [] OTHER -> "requestFailed"
             d == [List EXCEPT !.pages = @ + 1, !.failure = f, !.stop = stop]
  <2>1. /\ kstage \in {"podsPage", "publicationPage"} /\ krequests' = krequests + 1
        /\ Put(d) /\ EndList /\ UNCHANGED <<access, service, kfacts, listVars>> /\ Requesting
      BY <1>5 DEF PageFails
  <2>2. stop # "complete"
      OBVIOUS
  <2> HIDE DEF f, stop
  <2>3. List.pages + 1 <= MaxPages
      BY <1>1, <2>1, BudgetsAssumption DEF K8sInv, ListInv, mayFetch
  <2>4. d \in UpdatesOf(List, List.pages + 1, f, stop, List.observed)
      BY <1>1, <2>1 DEF IsStage, UpdatesOf
  <2>5. d.attempted /\ d.stop = stop /\ d.pages = List.pages + 1
      BY <1>1, <2>1 DEF IsStage, Going
  <2> HIDE DEF d
  <2> QED
      BY <2>1, <2>2, <2>3, <2>4, <2>5, CutShortKeepsInv
<1>6. ASSUME NEW next \in BOOLEAN, NEW items, PageReturns(items, next),
             ListsPods => items \in PodPages
      PROVE  K8sInv'
    BY <1>6, PageReturnsKeepsInv
<1> QED
    BY <1>2, <1>3, <1>4, <1>5, <1>6 DEF Listing

LEMMA RecordKeepsInv == K8sInv /\ Record => K8sInv'
<1> SUFFICES ASSUME K8sInv, Record PROVE K8sInv'
    OBVIOUS
<1> USE DEF Unlisted, Unconnected, InPods, InPublication, Ended
<1>1. /\ kstage = "record" /\ kstage' = "done"
      /\ kincomplete' = (Incomplete \/ kctx # "live") /\ kincomplete' \in BOOLEAN
      /\ UNCHANGED <<configVars, kauth, kctx, access, service, pods, publication, kfacts, acc,
                     whole, served, krequests>>
      /\ kfile' = kfile /\ kdecl' = kdecl
    BY DEF Record, stageVars, listVars, configVars
<1>2. AuthorityInv'
    BY <1>1, AuthorityStays DEF K8sInv
<1>3. K8sTypeOK'
    BY <1>1 DEF K8sInv, K8sTypeOK, K8sStages, IsStage
<1>4. ReadInv' /\ ListInv'
    BY <1>1 DEF K8sInv, ReadInv, ListInv
<1>5. EndInv'
  <2>1. Incomplete' <=> Incomplete
      BY <1>1 DEF Incomplete, unfinished, Complete
  <2>2. /\ Unattempted => Unattempted'
        /\ AccessFailed => AccessFailed'
        /\ ServiceUnavailable => ServiceUnavailable'
        /\ NothingToList => NothingToList'
        /\ ListsRead => ListsRead'
      BY <1>1
      DEF Unattempted, AccessFailed, ServiceUnavailable, NothingToList, ListsRead, Settled
  <2> QED
      BY <1>1, <2>1, <2>2 DEF K8sInv, EndInv
<1> QED
    BY <1>2, <1>3, <1>4, <1>5 DEF K8sInv

LEMMA TickKeepsInv ==
    ASSUME K8sInv, NEW c \in {"deadline", "cancelled"}, Tick(c)
    PROVE  K8sInv'
<1> USE DEF Unlisted, Unconnected, InPods, InPublication, Ended
<1>1. /\ kctx = "live" /\ kctx' = c /\ kstage # "done" /\ kstage' = kstage
      /\ UNCHANGED <<configVars, kauth, access, service, pods, publication, kfacts, acc,
                     whole, served, krequests, kincomplete>>
      /\ kfile' = kfile /\ kdecl' = kdecl /\ Supplied' = Supplied /\ kbound' = kbound
    BY DEF Tick, stageVars, listVars, configVars, Supplied
<1>2. AuthorityInv'
    BY <1>1 DEF K8sInv, AuthorityInv
<1>3. K8sTypeOK'
    BY <1>1 DEF K8sInv, K8sTypeOK, K8sStages, IsStage
<1>4. ReadInv' /\ ListInv'
    BY <1>1 DEF K8sInv, ReadInv, ListInv, Going, Settled, mayFetch, List, ListsPods
<1>5. /\ Unattempted => Unattempted'
      /\ AccessFailed => AccessFailed'
      /\ ServiceUnavailable => ServiceUnavailable'
      /\ NothingToList => NothingToList'
      /\ ListsRead => ListsRead'
    BY <1>1
    DEF Unattempted, AccessFailed, ServiceUnavailable, NothingToList, ListsRead, Settled
<1>6. EndInv'
    BY <1>1, <1>5 DEF K8sInv, EndInv
<1> QED
    BY <1>2, <1>3, <1>4, <1>6 DEF K8sInv

LEMMA K8sStutterKeepsInv == K8sInv /\ UNCHANGED k8sVars => K8sInv'
<1> SUFFICES ASSUME K8sInv, UNCHANGED k8sVars PROVE K8sInv'
    OBVIOUS
<1>1. /\ UNCHANGED <<kfile, kdecl, kbound, kauth, kstage, kctx, access, service, pods, publication,
                     kfacts, whole, served, krequests, kincomplete>>
      /\ Supplied' = Supplied
    BY DEF k8sVars, configVars, stageVars, listVars, Supplied
<1>2. K8sTypeOK'
    BY <1>1 DEF K8sInv, K8sTypeOK, IsStage
<1>3. AuthorityInv' /\ ReadInv'
    BY <1>1 DEF K8sInv, AuthorityInv, ReadInv
<1>4. ListInv'
    BY <1>1 DEF K8sInv, ListInv, Going, Settled, mayFetch, List, ListsPods
<1>5. EndInv'
  <2>1. Incomplete' <=> Incomplete
      BY <1>1 DEF Incomplete, unfinished, Complete
  <2>2. /\ Unattempted => Unattempted'
        /\ AccessFailed => AccessFailed'
        /\ ServiceUnavailable => ServiceUnavailable'
        /\ NothingToList => NothingToList'
        /\ ListsRead => ListsRead'
      BY <1>1
      DEF Unattempted, AccessFailed, ServiceUnavailable, NothingToList, ListsRead, Settled
  <2> QED
      BY <1>1, <2>1, <2>2 DEF K8sInv, EndInv
<1> QED
    BY <1>2, <1>3, <1>4, <1>5 DEF K8sInv

\* Every step of a Kubernetes run keeps what its properties rest on: what
\* Connect settled of the authority, how far each list was read, and which of
\* the five ends the run came to.
THEOREM K8sInvariant == K8sSpec => []K8sInv
<1>1. K8sInv /\ [K8sNext]_k8sVars => K8sInv'
    BY ConnectingKeepsInv, ReadingKeepsInv, ListingKeepsInv, RecordKeepsInv, TickKeepsInv,
       K8sStutterKeepsInv
    DEF K8sNext, K8sOver
<1> QED
    BY <1>1, K8sInvInit, PTL DEF K8sSpec

\* ADR 0094 and 0050 (Inspect, bindCredential, Connect): whatever was done to
\* the kubeconfig after it was inspected, a request is made as one identity
\* over a verified channel, and a supplied credential reaches no endpoint but
\* the one it was bound to.
THEOREM K8sCredentialIsBound == K8sSpec => []K8sCredentialBound
<1>1. K8sInv => K8sCredentialBound
  <2> SUFFICES ASSUME K8sInv, krequests > 0 PROVE
          /\ Cardinality(kauth.identities) = 1
          /\ kauth.trusted
          /\ Supplied => kauth.identities = {"supplied"} /\ kauth.server = kbound
          /\ kdecl.inCluster = (kauth.identities = {"serviceAccount"})
      BY DEF K8sCredentialBound
  <2>1. kstage \notin Unconnected
      BY DEF K8sInv, ReadInv, Unlisted
  <2>2. kdecl.inCluster \in BOOLEAN
      BY DEF K8sInv, K8sTypeOK
  <2> QED
      BY <2>1, <2>2 DEF K8sInv, AuthorityInv
<1> QED
    BY <1>1, K8sInvariant, PTL

-----------------------------------------------------------------------------
(* Kubernetes: what the five nodes say of how the run ended.               *)

\* A stage that was skipped, and one whose request was answered or failed.
LEMMA NodeStates ==
    /\ \A r : nodeState(Skip(r)) = [state |-> "SKIPPED", class |-> skipClass(r)]
    /\ \A f : nodeState(Stage(f)) = failureState(f)
  BY StageFacts DEF nodeState

\* Boundaries: a failing node no shallower one of its subject precedes is cited.
LEMMA ShallowestFailureIsCited ==
    ASSUME NEW E, NEW f \in E, Failing(f),
           \A d \in E : Failing(d) /\ d.subject = f.subject => ~Shallower(d, f)
    PROVE  \E g \in FailureBoundary(E) : f \in g.refs
<1> DEFINE N == NodesForSubject(E, f.subject)
           About(s) == {Finding("DIAG_FAILURE_BOUNDARY", "INFO", h.layer, s,
                                {h} \cup LastGood(NodesForSubject(E, s), h))
                          : h \in FirstFailures(NodesForSubject(E, s))}
           g == Finding("DIAG_FAILURE_BOUNDARY", "INFO", f.layer, f.subject, {f} \cup LastGood(N, f))
<1>1. f \in FirstFailures(N) /\ f.subject \in Subjects(E)
    BY DEF FirstFailures, NodesForSubject, Subjects
<1>2. g \in FailureBoundary(E)
  <2>1. FailureBoundary(E) = UNION {About(s) : s \in Subjects(E)}
      BY Zenon DEF FailureBoundary
  <2>2. g \in About(f.subject)
      BY <1>1, Zenon
  <2> HIDE DEF About, g
  <2> QED
      BY <1>1, <2>1, <2>2
<1>3. f \in g.refs
    BY DEF Finding
<1> QED
    BY <1>2, <1>3

\* What a complete run may leave a node as.
Explained(e) ==
    \/ e.state = "PASS"
    \/ \E f \in K8sFindings : e \in f.refs
    \/ e.class = "UNSUPPORTED"
    \/ \E f \in K8sFindings : e.class = "PREREQUISITE" /\ blockerOf(e) \in f.refs

LEMMA PassIsExplained ==
    /\ nodeState(Stage("none")).state = "PASS"
    /\ Explained(targetNode)
    /\ access = Stage("none") => Explained(accessNode)
    /\ service = Stage("none") => Explained(serviceNode)
  BY NodeStates DEF failureState, Explained, targetNode, accessNode, serviceNode, Ev

LEMMA AccessFailureIsExplained ==
    ASSUME AccessFailed, ~Incomplete
    PROVE  \A e \in K8sEvidence : Explained(e)
<1>1. PICK f \in {"unauthorized", "transport"} : access = Stage(f)
    BY StageFacts DEF AccessFailed, AccessFailures, Incomplete, unfinished
<1>2. accessNode.state = "FAIL" /\ accessNode.subject = Target
    BY <1>1, NodeStates DEF failureState, accessNode, Ev
<1>3. /\ serviceNode.state = "SKIPPED" /\ serviceNode.class = "PREREQUISITE"
      /\ podsNode.state = "SKIPPED" /\ podsNode.class = "PREREQUISITE"
      /\ publicationNode.state = "SKIPPED" /\ publicationNode.class = "PREREQUISITE"
      /\ targetNode.state = "PASS"
      /\ pods.skip = "apiAccessFailed" /\ publication.skip = "apiAccessFailed"
    BY NodeStates, StageFacts
    DEF AccessFailed, skipClass, serviceNode, podsNode, publicationNode, targetNode, Ev
<1>4. \A e : blockerOf(e) = accessNode
    BY <1>3 DEF blockerOf
<1>5. ~Shallower(accessNode, accessNode)
    BY DEF Shallower, accessNode, Ev
<1>6. \E g \in K8sFindings : accessNode \in g.refs
    BY <1>2, <1>3, <1>5, ShallowestFailureIsCited DEF K8sEvidence, Failing, K8sFindings
<1> QED
    BY <1>3, <1>4, <1>6, PassIsExplained DEF K8sEvidence, Explained

LEMMA UnavailableServiceIsExplained ==
    ASSUME ServiceUnavailable, ~Incomplete
    PROVE  \A e \in K8sEvidence : Explained(e)
<1>1. PICK f \in {"forbidden", "notFound"} : service = Stage(f)
    BY StageFacts DEF ServiceUnavailable, Answers, Incomplete, unfinished
<1>2. \/ serviceNode.state = "FAIL" /\ serviceNode.class = "NOT_FOUND"
      \/ serviceNode.state = "UNKNOWN" /\ serviceNode.class = "AUTHZ_DENIED"
    BY <1>1, NodeStates DEF failureState, serviceNode, Ev
<1>3. /\ podsNode.class = "PREREQUISITE" /\ publicationNode.class = "PREREQUISITE"
      /\ pods.skip = "serviceUnavailable" /\ publication.skip = "serviceUnavailable"
    BY NodeStates, StageFacts DEF ServiceUnavailable, skipClass, podsNode, publicationNode, Ev
<1>4. podsNode # serviceNode /\ publicationNode # serviceNode
    BY DEF podsNode, publicationNode, serviceNode, Ev
<1>5. blockerOf(podsNode) = serviceNode /\ blockerOf(publicationNode) = serviceNode
    BY <1>3, <1>4 DEF blockerOf
<1>6. \E g \in K8sFindings : serviceNode \in g.refs
  <2> DEFINE missing == Finding("KUBERNETES_SERVICE_NOT_FOUND", "ERROR", 6, Target, {serviceNode})
             denied == Finding("KUBERNETES_API_ACCESS_DENIED", "WARN", 6, Target, {serviceNode})
  <2>1. missing \in Acquisition \/ denied \in Acquisition
      BY <1>2 DEF Acquisition
  <2>2. serviceNode \in missing.refs /\ serviceNode \in denied.refs
      BY DEF Finding
  <2> QED
      BY <2>1, <2>2 DEF K8sFindings
<1>7. access = Stage("none")
    BY DEF ServiceUnavailable
<1> QED
    BY <1>3, <1>5, <1>6, <1>7, PassIsExplained DEF K8sEvidence, Explained

LEMMA NothingToListIsExplained ==
    ASSUME NothingToList
    PROVE  \A e \in K8sEvidence : Explained(e)
<1>1. podsNode.class = "UNSUPPORTED" /\ publicationNode.class = "UNSUPPORTED"
    BY NodeStates DEF NothingToList, skipClass, podsNode, publicationNode, Ev
<1>2. access = Stage("none") /\ service = Stage("none")
    BY DEF NothingToList
<1> QED
    BY <1>1, <1>2, PassIsExplained DEF K8sEvidence, Explained

LEMMA ReadListsAreExplained ==
    ASSUME ListsRead, ~Incomplete, kctx = "live"
    PROVE  /\ \A e \in K8sEvidence : Explained(e)
           /\ "pods" \in whole /\ "publication" \in whole
<1>1. Settled(pods, "pods") /\ Settled(publication, "publication")
    BY DEF ListsRead
<1>2. /\ pods.stop = "complete" /\ publication.stop = "complete"
      /\ "pods" \in whole /\ "publication" \in whole
    BY <1>1 DEF Incomplete, Complete, Settled
<1>3. nodeState(pods) = failureState("none") /\ nodeState(publication) = failureState("none")
    BY <1>1, <1>2 DEF nodeState, Settled
<1>4. podsNode.state = "PASS" /\ publicationNode.state = "PASS"
    BY <1>3 DEF failureState, podsNode, publicationNode, Ev
<1>5. access = Stage("none") /\ service = Stage("none")
    BY DEF ListsRead
<1> QED
    BY <1>2, <1>4, <1>5, PassIsExplained DEF K8sEvidence, Explained

\* The run says itself when it was cut short (Record), and a run that calls
\* itself complete accounts for each of its five nodes: it passed, a finding
\* cites it or what blocked it, or the Service has no such list. paginate
\* spends at most MaxPages requests on each list.
THEOREM K8sCompletenessIsExact == K8sSpec => []K8sIncompleteIsExact
<1>1. K8sInv => K8sIncompleteIsExact
  <2> SUFFICES ASSUME K8sInv, kstage = "done" PROVE
          /\ krequests <= 1 + 2 * MaxPages
          /\ kctx # "live" => kincomplete
          /\ ~kincomplete =>
               /\ \A e \in K8sEvidence : Explained(e)
               /\ pods.attempted => "pods" \in whole
               /\ publication.attempted => "publication" \in whole
      BY DEF K8sIncompleteIsExact, Explained
  <2>1. krequests <= 1 + 2 * MaxPages
    <3>1. pods.pages \in 0..MaxPages /\ publication.pages \in 0..MaxPages
        BY DEF K8sInv, K8sTypeOK, IsStage
    <3>2. krequests \in Nat /\ krequests <= 1 + pods.pages + publication.pages
        BY DEF K8sInv, K8sTypeOK, ReadInv
    <3> QED
        BY <3>1, <3>2, BudgetsAssumption
  <2>2. kincomplete <=> Incomplete \/ kctx # "live"
      BY DEF K8sInv, EndInv
  <2>3. ASSUME ~kincomplete
        PROVE  /\ \A e \in K8sEvidence : Explained(e)
               /\ pods.attempted => "pods" \in whole
               /\ publication.attempted => "publication" \in whole
    <3>1. ~Incomplete /\ kctx = "live"
        BY <2>2, <2>3
    <3>2. AccessFailed \/ ServiceUnavailable \/ NothingToList \/ ListsRead
        BY <3>1 DEF K8sInv, EndInv, Ended, Unattempted
    <3>3. CASE AccessFailed
      <4>1. ~pods.attempted /\ ~publication.attempted
          BY <3>3, StageFacts DEF AccessFailed
      <4> QED
          BY <3>1, <3>3, <4>1, AccessFailureIsExplained
    <3>4. CASE ServiceUnavailable
      <4>1. ~pods.attempted /\ ~publication.attempted
          BY <3>4, StageFacts DEF ServiceUnavailable
      <4> QED
          BY <3>1, <3>4, <4>1, UnavailableServiceIsExplained
    <3>5. CASE NothingToList
      <4>1. ~pods.attempted /\ ~publication.attempted
          BY <3>5, StageFacts DEF NothingToList
      <4> QED
          BY <3>5, <4>1, NothingToListIsExplained
    <3>6. CASE ListsRead
        BY <3>1, <3>6, ReadListsAreExplained
    <3> QED
        BY <3>2, <3>3, <3>4, <3>5, <3>6
  <2> QED
      BY <2>1, <2>2, <2>3
<1> QED
    BY <1>1, K8sInvariant, PTL

-----------------------------------------------------------------------------
(* Kubernetes: what a page adds to the accumulator.                        *)

Endpoints == [key : Nat, ready : BOOLEAN]
Accumulators == [seen : SUBSET Nat, ready : Nat, stop : {"complete", "endpointLimit"}]

\* b is a with the endpoints of E: all of their keys, unless a ceiling was met,
\* and as long as no endpoint counted as ready, each key for one that is not.
Consumes(a, b, E) ==
    /\ b \in Accumulators
    /\ b.stop = "complete" => a.stop = "complete" /\ b.seen = a.seen \cup {e.key : e \in E}
    /\ b.ready >= a.ready
    /\ b.ready = 0 => \A k \in b.seen \ a.seen : \E e \in E : e.key = k /\ ~e.ready

LEMMA NothingConsumed == \A a \in Accumulators : Consumes(a, a, {})
  BY DEF Consumes, Accumulators

LEMMA ConsumesInTurn ==
    ASSUME NEW a \in Accumulators, NEW b, NEW c, NEW E, NEW F,
           Consumes(a, b, E), Consumes(b, c, F)
    PROVE  Consumes(a, c, E \cup F)
<1>1. /\ b \in Accumulators /\ c \in Accumulators
      /\ a.ready \in Nat /\ b.ready \in Nat /\ c.ready \in Nat
    BY DEF Consumes, Accumulators
<1>2. c.stop = "complete" =>
         a.stop = "complete" /\ c.seen = a.seen \cup {e.key : e \in E \cup F}
    BY DEF Consumes
<1>3. c.ready >= a.ready
    BY <1>1 DEF Consumes
<1>4. c.ready = 0 => \A k \in c.seen \ a.seen : \E e \in E \cup F : e.key = k /\ ~e.ready
  <2> SUFFICES ASSUME c.ready = 0, NEW k \in c.seen \ a.seen
               PROVE  \E e \in E \cup F : e.key = k /\ ~e.ready
      OBVIOUS
  <2>1. b.ready = 0
      BY <1>1 DEF Consumes
  <2> QED
      BY <2>1 DEF Consumes
<1> QED
    BY <1>1, <1>2, <1>3, <1>4 DEF Consumes

LEMMA ConsumesOne ==
    ASSUME NEW a \in Accumulators, NEW e \in Endpoints
    PROVE  Consumes(a, consumeEndpoint(a, e), {e})
<1>1. /\ a.seen \in SUBSET Nat /\ a.ready \in Nat /\ a.stop \in {"complete", "endpointLimit"}
      /\ e.key \in Nat /\ e.ready \in BOOLEAN
    BY DEF Accumulators, Endpoints
<1>2. CASE a.stop # "complete" \/ e.key \in a.seen
  <2>1. consumeEndpoint(a, e) = a
      BY <1>2 DEF consumeEndpoint
  <2> QED
      BY <1>1, <1>2, <2>1 DEF Consumes
<1>3. CASE ~(a.stop # "complete" \/ e.key \in a.seen) /\ Cardinality(a.seen) >= MaxEndpoints
  <2>1. consumeEndpoint(a, e) = [a EXCEPT !.stop = "endpointLimit"]
      BY <1>3 DEF consumeEndpoint
  <2> QED
      BY <1>1, <2>1 DEF Consumes, Accumulators
<1>4. CASE ~(a.stop # "complete" \/ e.key \in a.seen) /\ ~(Cardinality(a.seen) >= MaxEndpoints)
  <2> DEFINE b == consumeEndpoint(a, e)
             more == IF e.ready THEN 1 ELSE 0
  <2>1. b = [a EXCEPT !.seen = @ \cup {e.key}, !.ready = @ + more]
      BY <1>4 DEF consumeEndpoint
  <2>2. more \in Nat /\ (more = 0 => ~e.ready)
      BY <1>1
  <2> HIDE DEF b, more
  <2>3. /\ b.stop = a.stop /\ b.seen = a.seen \cup {e.key} /\ b.ready = a.ready + more
        /\ b = [seen |-> b.seen, ready |-> b.ready, stop |-> b.stop]
      BY <2>1 DEF Accumulators
  <2>4. b.seen \in SUBSET Nat /\ b.ready \in Nat /\ b.stop = "complete"
      BY <1>1, <1>4, <2>2, <2>3
  <2>5. b \in Accumulators
      BY <2>3, <2>4 DEF Accumulators
  <2>6. b.ready >= a.ready /\ (b.ready = 0 => ~e.ready)
      BY <1>1, <2>2, <2>3
  <2>7. Consumes(a, b, {e})
      BY <1>4, <2>3, <2>5, <2>6 DEF Consumes
  <2> QED
      BY <2>7 DEF b
<1> QED
    BY <1>2, <1>3, <1>4

\* consumeEndpoints: what a slice adds, in whatever order its endpoints stand.
LEMMA EndpointsConsumed ==
    ASSUME NEW a \in Accumulators, NEW endpoints \in Seq(Endpoints)
    PROVE  Consumes(a, FoldLeft(consumeEndpoint, a, endpoints), ToSet(endpoints))
<1> DEFINE D == DOMAIN endpoints
           Value(s, g) == IF s = {} THEN a
                          ELSE consumeEndpoint(g[s \ {Max(s)}], endpoints[Max(s)])
           Eq(g) == g = [s \in SUBSET D |-> Value(s, g)]
           it == CHOOSE g : Eq(g)
           pick == [s \in SUBSET D |-> Max(s)]
           fold == [p \in D \X Accumulators |-> consumeEndpoint(p[2], endpoints[p[1]])]
<1>1. FoldLeft(consumeEndpoint, a, endpoints) = it[D]
    BY Zenon DEF FoldLeft, MapThenFoldSet
<1>2. D = 1..Len(endpoints) /\ Len(endpoints) \in Nat /\ IsFiniteSet(D)
      /\ \A i \in D : endpoints[i] \in Endpoints
    BY FS_Interval
<1>3. \A s \in SUBSET D : s # {} => Max(s) \in s /\ pick[s] = Max(s)
    BY <1>2, MaxIsMember
<1>4. \A i \in D, b \in Accumulators :
         /\ Consumes(b, consumeEndpoint(b, endpoints[i]), {endpoints[i]})
         /\ consumeEndpoint(b, endpoints[i]) \in Accumulators
    BY <1>2, ConsumesOne DEF Consumes
<1>5. fold \in [D \X Accumulators -> Accumulators]
    BY <1>4
<1>6. PICK iter : /\ FoldOf(iter, D, a, pick, fold)
                  /\ \A s \in SUBSET D : iter[s] \in Accumulators
  <2> HIDE DEF D, pick, fold
  <2>1. \A s \in SUBSET D : s # {} => pick[s] \in s
      BY <1>3
  <2> QED
      BY <1>2, <1>5, <2>1, FoldIsTyped
<1>7. Eq(iter)
  <2>1. \A s \in SUBSET D : s # {} => fold[<<pick[s], iter[s \ {pick[s]}]>>]
                                        = consumeEndpoint(iter[s \ {Max(s)}], endpoints[Max(s)])
    <3> SUFFICES ASSUME NEW s \in SUBSET D, s # {}
                 PROVE  fold[<<pick[s], iter[s \ {pick[s]}]>>]
                          = consumeEndpoint(iter[s \ {Max(s)}], endpoints[Max(s)])
        OBVIOUS
    <3>1. pick[s] = Max(s) /\ Max(s) \in D /\ iter[s \ {Max(s)}] \in Accumulators
        BY <1>3, <1>6
    <3>2. \A i \in D, b \in Accumulators : fold[<<i, b>>] = consumeEndpoint(b, endpoints[i])
        OBVIOUS
    <3> HIDE DEF fold, pick, D
    <3> QED
        BY <3>1, <3>2
  <2>2. iter = [s \in SUBSET D |->
                  IF s = {} THEN a ELSE fold[<<pick[s], iter[s \ {pick[s]}]>>]]
      BY <1>6, Zenon DEF FoldOf
  <2> HIDE DEF fold, pick, D
  <2> QED
      BY <2>1, <2>2
<1>8. Eq(it)
  <2> HIDE DEF Eq
  <2> QED
      BY <1>7, Zenon
<1>9. \A s \in SUBSET D : it[s] = Value(s, it)
  <2> HIDE DEF it, Value
  <2> QED
      BY <1>8
<1> HIDE DEF it, Eq
<1> DEFINE Told(s) == {endpoints[i] : i \in s}
           Good == {s \in SUBSET D : Consumes(a, it[s], Told(s))}
<1>10. {} \in Good
  <2>1. it[{}] = a /\ Told({}) = {}
      BY <1>9
  <2> QED
      BY <2>1, NothingConsumed
<1>11. \A s \in SUBSET D : s # {} => \E x \in s : s \ {x} \in Good => s \in Good
  <2> SUFFICES ASSUME NEW s \in SUBSET D, s # {}, s \ {Max(s)} \in Good
               PROVE  s \in Good
      BY <1>3
  <2> DEFINE rest == s \ {Max(s)}
             e == endpoints[Max(s)]
  <2>1. Max(s) \in s /\ Max(s) \in D /\ Consumes(a, it[rest], Told(rest))
      BY <1>3
  <2>2. it[rest] \in Accumulators
      BY <2>1 DEF Consumes
  <2>3. it[s] = consumeEndpoint(it[rest], e)
      BY <1>9
  <2>4. Told(s) = Told(rest) \cup {e}
      BY <2>1
  <2>5. Consumes(it[rest], it[s], {e})
      BY <1>4, <2>1, <2>2, <2>3
  <2> HIDE DEF rest, e, Told
  <2>6. Consumes(a, it[s], Told(rest) \cup {e})
      BY <2>1, <2>5, ConsumesInTurn
  <2> QED
      BY <2>4, <2>6
<1> HIDE DEF Good
<1>12. D \in Good
  <2>1. IsFiniteSet(D)
      BY <1>2
  <2> HIDE DEF D
  <2>2. \A s \in SUBSET D : s \in Good
      BY <1>10, <1>11, <2>1, SubsetInduction
  <2> QED
      BY <2>2
<1>13. Told(D) = ToSet(endpoints)
    BY DEF ToSet
<1> QED
    BY <1>1, <1>12, <1>13 DEF Good

\* The slices of a finite set have a last one, by name.
LEMMA LastIsMember ==
    ASSUME NEW items \in SUBSET Slices, items # {}
    PROVE  LastByName(items) \in items
<1> DEFINE IsLast(x, s) == x \in s /\ \A y \in s : y.name <= x.name
           Good == {s \in SUBSET Slices : s # {} => \E x \in s : IsLast(x, s)}
<1>1. \A x \in Slices : x.name \in Nat
    BY SlicesAssumption
<1>2. \A s \in SUBSET Slices : s # {} => \E x \in s : s \ {x} \in Good => s \in Good
  <2> SUFFICES ASSUME NEW s \in SUBSET Slices, NEW x \in s, s \ {x} \in Good
               PROVE  s \in Good
      OBVIOUS
  <2>1. CASE s \ {x} = {}
    <3>1. s = {x}
        BY <2>1
    <3>2. IsLast(x, s)
        BY <1>1, <3>1
    <3> QED
        BY <3>2
  <2>2. CASE s \ {x} # {}
    <3>1. PICK z \in s \ {x} : IsLast(z, s \ {x})
        BY <2>2
    <3>2. x.name \in Nat /\ z.name \in Nat /\ \A y \in s : y.name \in Nat
        BY <1>1
    <3>3. CASE x.name <= z.name
      <4>1. IsLast(z, s)
          BY <3>1, <3>2, <3>3
      <4> QED
          BY <4>1
    <3>4. CASE ~(x.name <= z.name)
      <4>1. IsLast(x, s)
          BY <3>1, <3>2, <3>4
      <4> QED
          BY <4>1
    <3> QED
        BY <3>3, <3>4
  <2> QED
      BY <2>1, <2>2
<1>3. {} \in Good
    OBVIOUS
<1> HIDE DEF Good
<1>4. \A s \in SUBSET Slices : s \in Good
    BY <1>2, <1>3, SlicesAssumption, SubsetInduction
<1>5. \E x \in items : IsLast(x, items)
    BY <1>4 DEF Good
<1> QED
    BY <1>5 DEF LastByName

\* What is published by those slices that are of this Service.
PublishedBy(items) == UNION {ToSet(slice.endpoints) : slice \in {x \in items : associated(x)}}

LEMMA PublishedInTurn ==
    ASSUME NEW items, NEW x \in items
    PROVE  PublishedBy(items) = PublishedBy(items \ {x}) \cup PublishedBy({x})
<1> DEFINE T(slice) == ToSet(slice.endpoints)
           Of(s) == {slice \in s : associated(slice)}
<1>1. \A s : PublishedBy(s) = UNION {T(slice) : slice \in Of(s)}
    BY Zenon DEF PublishedBy
<1>2. Of(items) = Of(items \ {x}) \cup Of({x})
    OBVIOUS
<1> HIDE DEF T, Of
<1> QED
    BY <1>1, <1>2

\* consume, one slice: one of another generation of the Service adds nothing.
LEMMA SliceConsumed ==
    ASSUME NEW a \in Accumulators, NEW slice \in Slices
    PROVE  Consumes(a, consumeSlice(a, slice), PublishedBy({slice}))
<1>1. slice.endpoints \in Seq(Endpoints)
    BY SlicesAssumption DEF Endpoints
<1>2. CASE associated(slice)
  <2>1. PublishedBy({slice}) = ToSet(slice.endpoints)
    <3>1. {x \in {slice} : associated(x)} = {slice}
        BY <1>2
    <3>2. PublishedBy({slice}) = UNION {ToSet(x.endpoints) : x \in {slice}}
        BY <3>1 DEF PublishedBy
    <3> QED
        BY <3>2
  <2>2. CASE a.stop = "complete"
    <3>1. consumeSlice(a, slice) = FoldLeft(consumeEndpoint, a, slice.endpoints)
        BY <1>2, <2>2, Zenon DEF consumeSlice
    <3>2. Consumes(a, FoldLeft(consumeEndpoint, a, slice.endpoints), ToSet(slice.endpoints))
        BY <1>1, EndpointsConsumed, Zenon
    <3> QED
        BY <2>1, <3>1, <3>2, Zenon
  <2>3. CASE a.stop # "complete"
    <3>1. consumeSlice(a, slice) = a
        BY <2>3, Zenon DEF consumeSlice
    <3> QED
        BY <2>3, <3>1 DEF Consumes, Accumulators
  <2> QED
      BY <2>2, <2>3
<1>3. CASE ~associated(slice)
  <2>1. consumeSlice(a, slice) = a
      BY <1>3, Zenon DEF consumeSlice
  <2>2. {x \in {slice} : associated(x)} = {}
      BY <1>3
  <2>3. PublishedBy({slice}) = {}
      BY <2>2 DEF PublishedBy
  <2> QED
      BY <2>1, <2>3, NothingConsumed
<1> QED
    BY <1>2, <1>3

\* consume: what a page adds, in whatever order its slices are named.
LEMMA SlicesConsumed ==
    ASSUME NEW a \in Accumulators, NEW items \in SUBSET Slices, ~ListsPods
    PROVE  Consumes(a, consume(a, items), PublishedBy(items))
<1> DEFINE Value(s, g) == IF s = {} THEN a
                          ELSE consumeSlice(g[s \ {LastByName(s)}], LastByName(s))
           Eq(g) == g = [s \in SUBSET items |-> Value(s, g)]
           it == CHOOSE g : Eq(g)
           pick == [s \in SUBSET items |-> LastByName(s)]
           fold == [p \in items \X Accumulators |-> consumeSlice(p[2], p[1])]
<1>1. consume(a, items) = it[items]
    BY Zenon DEF consume, MapThenFoldSet
<1>2. IsFiniteSet(items)
    BY SlicesAssumption, FS_Subset
<1>3. \A s \in SUBSET items : s # {} => LastByName(s) \in s /\ pick[s] = LastByName(s)
    BY LastIsMember
<1>4. \A x \in items, b \in Accumulators :
         /\ Consumes(b, consumeSlice(b, x), PublishedBy({x}))
         /\ consumeSlice(b, x) \in Accumulators
    BY SliceConsumed DEF Consumes
<1>5. fold \in [items \X Accumulators -> Accumulators]
    BY <1>4
<1>6. PICK iter : /\ FoldOf(iter, items, a, pick, fold)
                  /\ \A s \in SUBSET items : iter[s] \in Accumulators
  <2> HIDE DEF pick, fold
  <2>1. \A s \in SUBSET items : s # {} => pick[s] \in s
      BY <1>3
  <2> QED
      BY <1>2, <1>5, <2>1, FoldIsTyped
<1>7. Eq(iter)
  <2>1. \A s \in SUBSET items : s # {} =>
           fold[<<pick[s], iter[s \ {pick[s]}]>>]
             = consumeSlice(iter[s \ {LastByName(s)}], LastByName(s))
    <3> SUFFICES ASSUME NEW s \in SUBSET items, s # {}
                 PROVE  fold[<<pick[s], iter[s \ {pick[s]}]>>]
                          = consumeSlice(iter[s \ {LastByName(s)}], LastByName(s))
        OBVIOUS
    <3>1. /\ pick[s] = LastByName(s) /\ LastByName(s) \in items
          /\ iter[s \ {LastByName(s)}] \in Accumulators
        BY <1>3, <1>6
    <3>2. \A x \in items, b \in Accumulators : fold[<<x, b>>] = consumeSlice(b, x)
        OBVIOUS
    <3> HIDE DEF fold, pick
    <3> QED
        BY <3>1, <3>2
  <2>2. iter = [s \in SUBSET items |->
                  IF s = {} THEN a ELSE fold[<<pick[s], iter[s \ {pick[s]}]>>]]
      BY <1>6, Zenon DEF FoldOf
  <2> HIDE DEF fold, pick
  <2> QED
      BY <2>1, <2>2
<1>8. Eq(it)
  <2> HIDE DEF Eq
  <2> QED
      BY <1>7, Zenon
<1>9. \A s \in SUBSET items : it[s] = Value(s, it)
  <2> HIDE DEF it, Value
  <2> QED
      BY <1>8
<1> HIDE DEF it, Eq
<1> DEFINE Good == {s \in SUBSET items : Consumes(a, it[s], PublishedBy(s))}
<1>10. {} \in Good
  <2>1. it[{}] = a
      BY <1>9
  <2>2. PublishedBy({}) = {}
      BY DEF PublishedBy
  <2> QED
      BY <2>1, <2>2, NothingConsumed
<1>11. \A s \in SUBSET items : s # {} => \E x \in s : s \ {x} \in Good => s \in Good
  <2> SUFFICES ASSUME NEW s \in SUBSET items, s # {}, s \ {LastByName(s)} \in Good
               PROVE  s \in Good
      BY <1>3
  <2> DEFINE x == LastByName(s)
             rest == s \ {x}
  <2>1. x \in s /\ x \in items /\ Consumes(a, it[rest], PublishedBy(rest))
      BY <1>3
  <2>2. it[rest] \in Accumulators
      BY <2>1 DEF Consumes
  <2>3. it[s] = consumeSlice(it[rest], x)
      BY <1>9
  <2>4. PublishedBy(s) = PublishedBy(rest) \cup PublishedBy({x})
    <3> HIDE DEF x
    <3> QED
        BY <2>1, PublishedInTurn
  <2>5. Consumes(it[rest], it[s], PublishedBy({x}))
      BY <1>4, <2>1, <2>2, <2>3
  <2> HIDE DEF rest, x
  <2>6. Consumes(a, it[s], PublishedBy(rest) \cup PublishedBy({x}))
      BY <2>1, <2>5, ConsumesInTurn
  <2> QED
      BY <2>4, <2>6
<1> HIDE DEF Good
<1>12. items \in Good
  <2>1. \A s \in SUBSET items : s \in Good
      BY <1>2, <1>10, <1>11, SubsetInduction
  <2> QED
      BY <2>1
<1> QED
    BY <1>1, <1>12 DEF Good

-----------------------------------------------------------------------------
(* Kubernetes: what was counted is what was published.                     *)

\* As long as no ceiling was met, the accumulator has seen every key published,
\* and while nothing it counted was ready, each key was published unready.
PublishedInv ==
    /\ acc \in Accumulators
    /\ served.slices \subseteq Slices
    /\ kstage \notin Ended => acc.stop = "complete"
    /\ kstage \in Ended /\ publication.attempted /\ publication.stop = "complete" =>
         acc.stop = "complete"
    /\ acc.stop = "complete" => acc.seen = {e.key : e \in Published}
    /\ acc.ready = 0 => \A k \in acc.seen : \E d \in Published : d.key = k /\ ~d.ready

LEMMA PublishedIs == Published = PublishedBy(served.slices)
  BY Zenon DEF Published, PublishedBy

LEMMA PublishedInvInit == K8sInit => PublishedInv
<1> SUFFICES ASSUME K8sInit PROVE PublishedInv
    OBVIOUS
<1>1. /\ acc = [seen |-> {}, ready |-> 0, stop |-> "complete"] /\ served.slices = {}
      /\ kstage = "declared"
    BY DEF K8sInit, K8sIdle
<1>2. Published = {}
    BY <1>1 DEF Published
<1> QED
    BY <1>1, <1>2 DEF PublishedInv, Accumulators, Ended

\* A step that counts nothing, and completes no list of slices.
LEMMA QuietKeepsPublished ==
    ASSUME PublishedInv, acc' = acc, served'.slices = served.slices,
           kstage' \notin Ended => kstage \notin Ended,
           kstage' \in Ended /\ publication'.attempted /\ publication'.stop = "complete" =>
             kstage \in Ended /\ publication' = publication
    PROVE  PublishedInv'
<1>1. Published' = Published
    BY DEF Published, associated
<1> QED
    BY <1>1 DEF PublishedInv, Ended

LEMMA BeforeListsKeepsPublished ==
    ASSUME PublishedInv, Connecting \/ Reading
    PROVE  PublishedInv'
<1>1. UNCHANGED <<acc, served>>
    BY DEF Connecting, Reading, Inspect, Rewrite, Connect, NothingRead, SendGet, NotRead,
           ServiceRefused, ServiceRead, listVars
<1>2. kstage \notin Ended
    BY DEF Connecting, Reading, Inspect, Rewrite, Connect, SendGet, NotRead, ServiceRefused,
           ServiceRead, Ended
<1>3. kstage' \in Ended => ~publication'.attempted
  <2>1. Connecting => kstage' \notin Ended
      BY DEF Connecting, Inspect, Rewrite, Connect, Ended
  <2>2. SendGet => kstage' \notin Ended
      BY DEF SendGet, Ended
  <2>3. NotRead => ~publication'.attempted
      BY StageFacts DEF NotRead, SkipLists
  <2>4. \A r \in Failures : ServiceRefused(r) => ~publication'.attempted
      BY StageFacts DEF ServiceRefused, SkipLists
  <2>5. \A facts : ServiceRead(facts) => kstage' \notin Ended \/ ~publication'.attempted
      BY StageFacts DEF ServiceRead, SkipLists, Ended
  <2> QED
      BY <2>1, <2>2, <2>3, <2>4, <2>5 DEF Reading
<1> QED
    BY <1>1, <1>2, <1>3, QuietKeepsPublished

\* A page: its slices join the served ones, and their endpoints the counted ones.
LEMMA PageReturnsKeepsPublished ==
    ASSUME K8sInv, PublishedInv, NEW next \in BOOLEAN, NEW items, PageReturns(items, next),
           ~ListsPods => items \in SUBSET Slices
    PROVE  PublishedInv'
<1> DEFINE acc2 == consume(acc, items)
           stop == CASE acc2.stop # "complete" -> acc2.stop
                     [] acc2.stop = "complete" /\ next
                          /\ List.observed + Cardinality(items) >= MaxObjects -> "objectLimit"
                     [] OTHER -> "complete"
<1>1. kstage \in {"podsPage", "publicationPage"} /\ acc' = acc2
    BY DEF PageReturns
<1>2. served \in [pods : Nat, slices : {served.slices}]
    BY DEF K8sInv, K8sTypeOK
<1>3. CASE ListsPods
  <2>1. acc' = acc /\ served' = [served EXCEPT !.pods = @ + Cardinality(items)]
      BY <1>1, <1>3 DEF consume, PageReturns
  <2>2. served'.slices = served.slices
      BY <1>2, <2>1
  <2>3. kstage' \in {"pods", "between"}
      BY <1>3 DEF PageReturns, EndList
  <2> QED
      BY <1>1, <2>1, <2>2, <2>3, QuietKeepsPublished DEF Ended
<1>4. CASE ~ListsPods
  <2>1. kstage = "publicationPage" /\ List = publication
      BY <1>1, <1>4 DEF ListsPods, List
  <2>2. /\ publication' = [[publication EXCEPT !.pages = @ + 1,
                                              !.observed = @ + Cardinality(items)]
                             EXCEPT !.stop = stop]
        /\ served' = [served EXCEPT !.slices = @ \cup items]
        /\ IF stop # "complete" \/ ~next THEN kstage' = "record" ELSE kstage' = "publication"
      BY <1>4, <2>1 DEF PageReturns, Put, EndList
  <2>3. stop = "complete" => acc'.stop = "complete"
      BY <1>1
  <2> HIDE DEF stop
  <2>4. IsStage(publication)
      BY DEF K8sInv, K8sTypeOK
  <2>5. publication'.stop = stop
      BY <2>2, <2>4 DEF IsStage
  <2>6. served'.slices = served.slices \cup items
      BY <1>2, <2>2
  <2>7. acc \in Accumulators /\ served.slices \subseteq Slices /\ acc.stop = "complete"
      BY <2>1 DEF PublishedInv, Ended
  <2>8. Consumes(acc, acc', PublishedBy(items))
      BY <1>1, <1>4, <2>7, SlicesConsumed
  <2> HIDE DEF acc2
  <2>9. Published' = Published \cup PublishedBy(items)
    <3> DEFINE T(slice) == ToSet(slice.endpoints)
               Of(s) == {slice \in s : associated(slice)}
    <3>1. /\ Published = UNION {T(slice) : slice \in Of(served.slices)}
          /\ PublishedBy(items) = UNION {T(slice) : slice \in Of(items)}
        BY Zenon DEF Published, PublishedBy
    <3>2. Published' = UNION {T(slice) : slice \in Of(served'.slices)}
        BY Zenon DEF Published, associated
    <3>3. Of(served'.slices) = Of(served.slices) \cup Of(items)
        BY <2>6
    <3> HIDE DEF T, Of
    <3> QED
        BY <3>1, <3>2, <3>3
  <2>10. acc' \in Accumulators /\ acc'.ready \in Nat /\ acc.ready \in Nat
      BY <2>7, <2>8 DEF Consumes, Accumulators
  <2>11. acc'.stop = "complete" => acc'.seen = {e.key : e \in Published'}
      BY <2>7, <2>8, <2>9 DEF Consumes, PublishedInv
  <2>12. ASSUME acc'.ready = 0, NEW k \in acc'.seen
         PROVE  \E d \in Published' : d.key = k /\ ~d.ready
    <3>1. acc.ready = 0
        BY <2>8, <2>10, <2>12 DEF Consumes
    <3>2. CASE k \in acc.seen
        BY <2>9, <3>1, <3>2 DEF PublishedInv
    <3>3. CASE k \notin acc.seen
        BY <2>8, <2>9, <2>12, <3>3 DEF Consumes
    <3> QED
        BY <3>2, <3>3
  <2>13. served'.slices \subseteq Slices
      BY <1>4, <2>6, <2>7
  <2>14. kstage' \notin Ended => acc'.stop = "complete"
      BY <2>2, <2>3 DEF Ended
  <2> QED
      BY <2>3, <2>5, <2>10, <2>11, <2>12, <2>13, <2>14 DEF PublishedInv
<1> QED
    BY <1>3, <1>4

LEMMA ListingKeepsPublished == K8sInv /\ PublishedInv /\ Listing => PublishedInv'
<1> SUFFICES ASSUME K8sInv, PublishedInv, Listing PROVE PublishedInv'
    OBVIOUS
<1>1. IsStage(publication)
    BY DEF K8sInv, K8sTypeOK
<1>2. CASE StopBefore
  <2>1. UNCHANGED <<acc, served>> /\ kstage \in {"pods", "publication"}
      BY <1>2 DEF StopBefore, listVars
  <2>2. CASE kstage = "pods"
    <3>1. kstage' = "between"
        BY <1>2, <2>2 DEF StopBefore, EndList, ListsPods
    <3> QED
        BY <2>1, <3>1, QuietKeepsPublished DEF Ended
  <2>3. CASE kstage = "publication"
    <3>1. publication' = IF ~mayFetch(publication) THEN [publication EXCEPT !.stop = "pageLimit"]
                         ELSE [publication EXCEPT !.stop = "cancelled",
                                                  !.failure = classifyAPI("error")]
        BY <1>2, <2>3 DEF StopBefore, cutShort, Put, List, ListsPods
    <3>2. publication'.stop # "complete"
        BY <1>1, <3>1 DEF IsStage
    <3> QED
        BY <2>1, <3>2, QuietKeepsPublished DEF Ended
  <2> QED
      BY <2>1, <2>2, <2>3
<1>3. CASE Fetch
  <2>1. UNCHANGED <<acc, served>> /\ kstage \notin Ended /\ kstage' \notin Ended
      BY <1>3 DEF Fetch, listVars, Ended
  <2> QED
      BY <2>1, QuietKeepsPublished
<1>4. CASE BeginPublication
  <2>1. /\ UNCHANGED <<acc, served>> /\ kstage \notin Ended
        /\ kstage' \notin Ended \/ publication' = Skip("cancelled")
      BY <1>4 DEF BeginPublication, listVars, Ended
  <2>2. ~Skip("cancelled").attempted
      BY StageFacts
  <2> QED
      BY <2>1, <2>2, QuietKeepsPublished
<1>5. ASSUME NEW r \in Failures, PageFails(r) PROVE PublishedInv'
  <2> DEFINE stop == CASE classifyAPI(r) = "expired" -> "expired"
                       [] classifyAPI(r) \in {"cancelled", "timeout"} -> "cancelled"
                       [] OTHER -> "requestFailed"
  <2>1. UNCHANGED <<acc, served>> /\ kstage \in {"podsPage", "publicationPage"}
      BY <1>5 DEF PageFails, listVars
  <2>2. CASE kstage = "podsPage"
    <3>1. kstage' = "between"
        BY <1>5, <2>2 DEF PageFails, EndList, ListsPods
    <3> QED
        BY <2>1, <3>1, QuietKeepsPublished DEF Ended
  <2>3. CASE kstage = "publicationPage"
    <3>1. publication' = [publication EXCEPT !.pages = @ + 1, !.failure = classifyAPI(r),
                                             !.stop = stop]
        BY <1>5, <2>3 DEF PageFails, Put, List, ListsPods
    <3>2. stop # "complete"
        OBVIOUS
    <3> HIDE DEF stop
    <3>3. publication'.stop = stop
        BY <1>1, <3>1 DEF IsStage
    <3> QED
        BY <2>1, <3>2, <3>3, QuietKeepsPublished DEF Ended
  <2> QED
      BY <2>1, <2>2, <2>3
<1>6. ASSUME NEW next \in BOOLEAN, NEW items, PageReturns(items, next),
             ~ListsPods => items \in SlicePages
      PROVE  PublishedInv'
  <2>1. ~ListsPods => items \in SUBSET Slices
      BY <1>6 DEF SlicePages
  <2> QED
      BY <1>6, <2>1, PageReturnsKeepsPublished
<1> QED
    BY <1>2, <1>3, <1>4, <1>5, <1>6 DEF Listing

LEMMA EndingKeepsPublished ==
    ASSUME PublishedInv,
           \/ Record \/ UNCHANGED k8sVars
           \/ \E c \in {"deadline", "cancelled"} : Tick(c)
    PROVE  PublishedInv'
<1>1. UNCHANGED <<acc, served, publication>>
    BY DEF Record, Tick, k8sVars, stageVars, listVars
<1>2. kstage' \in Ended <=> kstage \in Ended
    BY DEF Record, Tick, k8sVars, Ended
<1> QED
    BY <1>1, <1>2, QuietKeepsPublished

LEMMA PublishedInvariant == K8sSpec => [](K8sInv /\ PublishedInv)
<1>1. K8sInv /\ PublishedInv /\ [K8sNext]_k8sVars => PublishedInv'
    BY BeforeListsKeepsPublished, ListingKeepsPublished, EndingKeepsPublished
    DEF K8sNext, K8sOver
<1> QED
    BY <1>1, PublishedInvInit, K8sInvariant, PTL DEF K8sSpec

\* An absence that is reported comes of a list that was read to its end.
LEMMA OnlyReadListsAreAbsent ==
    ASSUME K8sInv, kstage = "done", Complete(pods) \/ Complete(publication)
    PROVE  ListsRead
<1>1. pods.attempted \/ publication.attempted
    BY DEF Complete
<1>2. /\ Unattempted => ~pods.attempted /\ ~publication.attempted
      /\ AccessFailed => ~pods.attempted /\ ~publication.attempted
      /\ ServiceUnavailable => ~pods.attempted /\ ~publication.attempted
      /\ NothingToList => ~pods.attempted /\ ~publication.attempted
    BY StageFacts DEF Unattempted, AccessFailed, ServiceUnavailable, NothingToList
<1> QED
    BY <1>1, <1>2 DEF K8sInv, EndInv, Ended

\* Acquisition: a Service that is not there is one the API said is not there.
LEMMA NotFoundIsAnswered ==
    ASSUME K8sInv, kstage = "done", serviceNode.class = "NOT_FOUND"
    PROVE  service.failure = "notFound"
<1>1. nodeState(service).class = "NOT_FOUND"
    BY DEF serviceNode, Ev
<1>2. \A r : skipClass(r) # "NOT_FOUND"
    BY DEF skipClass
<1>3. \/ \E r : service = Skip(r)
      \/ \E f \in Answers \cup {"none"} : service = Stage(f)
    BY DEF K8sInv, EndInv, Ended, Unattempted, AccessFailed, ServiceUnavailable, NothingToList,
           ListsRead
<1>4. ~\E r : service = Skip(r)
    BY <1>1, <1>2, NodeStates
<1>5. PICK f \in Answers \cup {"none"} : service = Stage(f)
    BY <1>3, <1>4
<1>6. failureState(f).class = "NOT_FOUND"
    BY <1>1, <1>5, NodeStates
<1>7. f = "notFound"
    BY <1>6 DEF failureState, Answers
<1> QED
    BY <1>5, <1>7, StageFacts

\* ADR 0094 (Backends, Acquisition): "None of them may become 'no Pods' or 'no
\* ready endpoints'". An absence is reported only of a list the API returned to
\* its last page: no Pod was in it, or no endpoint that all slices of this
\* Service publish as ready, for any ceilings, any slices and any order their
\* pages come in.
THEOREM K8sAbsenceIsReal == K8sSpec => []K8sAbsenceIsMeasured
<1>1. K8sInv /\ PublishedInv => K8sAbsenceIsMeasured
  <2> SUFFICES ASSUME K8sInv, PublishedInv, kstage = "done", NEW f \in K8sFindings
               PROVE
          /\ f.code = "KUBERNETES_SERVICE_SELECTS_NO_PODS" =>
               "pods" \in whole /\ served.pods = 0
          /\ f.code = "KUBERNETES_SERVICE_NO_READY_ENDPOINT" =>
               "publication" \in whole /\ \A e \in Published : ~PublishedReady(e.key)
          /\ Problem(f) => kfacts.selector \/ service.failure = "notFound"
      BY DEF K8sAbsenceIsMeasured
  <2>1. CASE f \in FailureBoundary(K8sEvidence)
    <3>1. f.code = "DIAG_FAILURE_BOUNDARY" /\ f.severity = "INFO"
        BY <2>1, BoundaryFacts
    <3> QED
        BY <3>1 DEF Problem
  <2>2. CASE f \in Acquisition
    <3>1. \/ /\ f.code = "KUBERNETES_SERVICE_NOT_FOUND"
             /\ serviceNode.class = "NOT_FOUND"
          \/ f.code = "KUBERNETES_API_ACCESS_DENIED" /\ f.severity = "WARN"
        BY <2>2 DEF Acquisition, Finding
    <3> QED
        BY <3>1, NotFoundIsAnswered DEF Problem
  <2>3. CASE f \in Backends
    <3>1. \/ f.code = "KUBERNETES_SERVICE_SELECTS_NO_PODS" /\ selectsNoPods
          \/ f.code = "KUBERNETES_SERVICE_NO_READY_ENDPOINT" /\ noReadyEndpoint
        BY <2>3 DEF Backends, Finding
    <3>2. kfacts.selector
        BY <3>1 DEF selectsNoPods, noReadyEndpoint, serviceGate
    <3>3. CASE f.code = "KUBERNETES_SERVICE_SELECTS_NO_PODS" /\ selectsNoPods
      <4>1. Complete(pods) /\ pods.observed = 0
          BY <3>3 DEF selectsNoPods
      <4>2. Settled(pods, "pods") /\ pods.stop = "complete"
          BY <4>1, OnlyReadListsAreAbsent DEF ListsRead, Complete
      <4>3. served.pods = 0
          BY <4>1 DEF K8sInv, ReadInv
      <4> QED
          BY <3>2, <3>3, <4>2, <4>3 DEF Settled
    <3>4. CASE f.code = "KUBERNETES_SERVICE_NO_READY_ENDPOINT" /\ noReadyEndpoint
      <4>1. Complete(publication) /\ acc.ready = 0
          BY <3>4 DEF noReadyEndpoint
      <4>2. publication.attempted /\ publication.stop = "complete"
          BY <4>1 DEF Complete
      <4>3. Settled(publication, "publication")
        <5>1. ListsRead
            BY <4>1, OnlyReadListsAreAbsent
        <5>2. publication # Skip("cancelled")
            BY <4>2, StageFacts
        <5> QED
            BY <4>2, <5>1, <5>2 DEF ListsRead
      <4>4. acc.seen = {e.key : e \in Published}
          BY <4>2 DEF PublishedInv, Ended
      <4>5. \A k \in acc.seen : \E d \in Published : d.key = k /\ ~d.ready
          BY <4>1 DEF PublishedInv
      <4>6. \A e \in Published : ~PublishedReady(e.key)
          BY <4>4, <4>5 DEF PublishedReady
      <4>7. "publication" \in whole
          BY <4>2, <4>3 DEF Settled
      <4> QED
          BY <3>2, <3>4, <4>6, <4>7
    <3> QED
        BY <3>1, <3>3, <3>4
  <2> QED
      BY <2>1, <2>2, <2>3 DEF K8sFindings
<1> QED
    BY <1>1, PublishedInvariant, PTL
=============================================================================
