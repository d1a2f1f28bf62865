---------------------------- MODULE PostgresProofs ----------------------------
(***************************************************************************)
(* The client proof, the session and the sockets of a PostgreSQL run, for  *)
(* any set of addresses and whatever the peers answer. The inductive       *)
(* invariant follows the run stage by stage: which connections it took,    *)
(* what a channel it upgraded in band has proved, what a startup was       *)
(* answered with, and how far the SCRAM exchange of the one selected path  *)
(* has come.                                                               *)
(***************************************************************************)
EXTENDS PostgresRules, TransportProofs

BeforeTLS == {"ssl", "sslRead", "upgrade", "upgraded"}
InPath    == BeforeTLS \cup {"startup", "started"}
Proving   == {"serverFirst", "serverFinal", "authenticationOk"}
Chosen    == Proving \cup {"authenticate", "authRead", "session", "sessionRead"}
Ended     == {"done", "failed"}

PostgresStages == {"sweep", "paths", "select", "leave"} \cup InPath \cup Chosen \cup Ended

PostgresNodes ==
    [state : {"NONE", "PASS", "FAIL", "UNKNOWN", "SKIPPED"},
     class : {"NONE", "TARGET", "CANCELLED", "LOCAL_TIMEOUT", "UNSUPPORTED",
              "UNSUPPORTED_CAPABILITY", "NOT_PERMITTED", "REJECTED", "PEER_VERIFICATION",
              "NOT_FOUND", "AUTHZ_DENIED", "LIMIT_REACHED", "MECHANISM_UNSUPPORTED",
              "MECHANISM_NOT_OFFERED", "INPUT_MISSING", "POLICY", "PREREQUISITE"}]

PostgresTypeOK ==
    /\ plan \in {"required", "disabled"}
    /\ roleUsable \in BOOLEAN
    /\ credential \in {"none", "unprepared", "usable"}
    /\ stage \in PostgresStages
    /\ todo \subseteq Addr /\ at \in Addr
    /\ stage = "upgraded" => reply \in Outcomes
    /\ sslRequest \in [Addr -> PostgresNodes] /\ startup \in [Addr -> PostgresNodes]
    /\ startupBlocker \in [Addr -> {"none", "ssl_request", "tls"}]
    /\ method \in [Addr -> Methods \cup {"none"}]
    /\ auth \in PostgresNodes /\ ready \in PostgresNodes
    /\ proofs \in {0, 1}

\* Which connections the run has, stage by stage.
SocketInv ==
    /\ stage = "sweep" => held = {} /\ pc # "closed" /\ Candidates = {}
    /\ stage \notin {"sweep"} \cup Ended => pc = "returned"
    /\ stage \in Ended => pc = "closed" /\ held = {}
    /\ \A a \in Candidates : ~Connected(paths[a])
    /\ stage \in InPath =>
         at \notin Candidates /\ held = Candidates \cup {at} /\ ~Connected(paths[at])
    /\ stage \in {"paths", "select"} => held = Candidates
    /\ stage \in Chosen => at \in Candidates /\ held = {at}
    /\ stage = "leave" => held = {}
    /\ stage \in {"paths"} \cup InPath => \A a \in todo : Connected(paths[a])

\* A run whose parameters a probe refuses fails at its first path: no other
\* connection is in hand when discover returns its error.
UsableInv ==
    /\ ~roleUsable => Candidates = {} /\ stage # "started"
    /\ ~params.usableName =>
         plan = "required" /\ Candidates = {} /\ stage \notin {"upgraded", "startup", "started"}

\* What an upgraded channel proved; no path comes verified from the sweep, and
\* none still to come has been upgraded.
VerifiedInv ==
    /\ stage = "sweep" => SweepInv /\ ~params.tls
    /\ stage # "sweep" =>
         \A a \in Addr : channel[a] = "tls_verified" => tls[a].state = "PASS" /\ ~params.insecure
    /\ stage \in {"paths"} \cup InPath => \A a \in todo : channel[a] # "tls_verified"
    /\ stage \in BeforeTLS => channel[at] # "tls_verified"

MethodInv == \A a \in Addr : method[a] # "none" => startup[a].state = "PASS"

\* How a session may be begun.
Mutual ==
    \/ method[at] = "ok" /\ proofs = 0 /\ auth = NoNode
    \/ method[at] = "scram" /\ auth.state = "PASS" /\ at \in verifiers

\* How far the exchange of the selected path has come.
ProofInv ==
    /\ stage \notin Chosen \cup {"leave", "done"} => proofs = 0
    /\ stage \in {"authenticate", "serverFirst"} => proofs = 0
    /\ stage \notin {"session", "sessionRead", "leave", "done"} => auth = NoNode
    /\ stage \notin {"leave", "done"} => ready = NoNode
    /\ stage \in Proving \/ proofs = 1 =>
         credential = "usable" /\ channel[at] = "tls_verified" /\ method[at] = "scram"
    /\ stage = "authRead" => method[at] = "scram"
    /\ stage = "authenticationOk" => at \in verifiers
    /\ stage = "authRead" /\ reply = "complete" => at \in verifiers
    /\ stage \in {"session", "sessionRead"} => Mutual
    /\ ready # NoNode => Mutual

PostgresInv ==
    /\ TransportTypeOK /\ OwnInv
    /\ PostgresTypeOK /\ SocketInv /\ UsableInv /\ VerifiedInv /\ MethodInv /\ ProofInv

-----------------------------------------------------------------------------
(* The classifications.                                                    *)

LEMMA BrokenNode ==
    ASSUME NEW r, NEW e
    PROVE  /\ classifyBroken(r, e) \in PostgresNodes
           /\ classifyBroken(r, e).state \in {"UNKNOWN", "FAIL"}
  BY DEF classifyBroken, PostgresNodes, Node

LEMMA AnswerNode ==
    ASSUME NEW r, NEW e
    PROVE  /\ classifyAnswer(r, e) \in PostgresNodes
           /\ classifyAnswer(r, e).state \in {"UNKNOWN", "FAIL"}
<1>1. CASE e = "live" /\ r \in DOMAIN NamedRefusals
  <2>1. NamedRefusals[r] \in {"NOT_PERMITTED", "REJECTED", "PEER_VERIFICATION", "NOT_FOUND",
                             "AUTHZ_DENIED", "LIMIT_REACHED"}
      BY <1>1 DEF NamedRefusals
  <2> QED
      BY <1>1, <2>1 DEF classifyAnswer, PostgresNodes, Node
<1>2. CASE ~(e = "live" /\ r \in DOMAIN NamedRefusals)
    BY <1>2, BrokenNode DEF classifyAnswer
<1> QED
    BY <1>1, <1>2

LEMMA SSLNode ==
    ASSUME NEW r, NEW e
    PROVE  classifySSLResponse(r, e) \in PostgresNodes
  BY BrokenNode DEF classifySSLResponse, PostgresNodes, Node

LEMMA StartupNode ==
    ASSUME NEW r, NEW e
    PROVE  /\ classifyStartup(r, e) \in PostgresNodes
           /\ r \in Methods => classifyStartup(r, e).state = "PASS"
  BY AnswerNode DEF classifyStartup, PostgresNodes, Node

LEMMA AuthNode ==
    ASSUME NEW r, NEW e
    PROVE  /\ classifyAuth(r, e) \in PostgresNodes
           /\ r = "complete" => classifyAuth(r, e).state = "PASS"
  BY AnswerNode DEF classifyAuth, PostgresNodes, Node

LEMMA SessionNode ==
    ASSUME NEW r, NEW e
    PROVE  classifySession(r, e) \in PostgresNodes
  BY AnswerNode DEF classifySession, PostgresNodes, Node

LEMMA OtherNodes ==
    /\ NoNode \in PostgresNodes
    /\ Node("SKIPPED", "NONE") \in PostgresNodes
    /\ Node("SKIPPED", "PREREQUISITE") \in PostgresNodes
    /\ method[at] \in Methods /\ method[at] # "ok" => Refusal \in PostgresNodes
  BY DEF NoNode, Node, PostgresNodes, Refusal, Methods

\* IsChosen picks one of the candidates.
LEMMA ChosenIsCandidate ==
    ASSUME NEW a, NEW S, NEW D, NEW w, IsChosen(a, S, D, w)
    PROVE  a \in S
  BY DEF IsChosen, Eligible, Preferred

-----------------------------------------------------------------------------
(* The invariant.                                                          *)

LEMMA PostgresInvInit == PostgresInit => PostgresInv
<1> SUFFICES ASSUME PostgresInit PROVE PostgresInv
    OBVIOUS
<1> USE DEF InPath, BeforeTLS, Proving, Chosen, Ended, PostgresStages
<1>1. SweepInv /\ held = {} /\ pc # "closed" /\ ~params.tls
    BY SweepInit DEF PostgresInit, TransportInit
<1>2. at \in Addr
    BY AddrAssumption DEF PostgresInit
<1>3. PostgresTypeOK
    BY <1>2, OtherNodes DEF PostgresInit, PostgresTypeOK
<1>4. Candidates = {}
    BY DEF PostgresInit, Candidates
<1>5. SocketInv /\ UsableInv /\ VerifiedInv
    BY <1>1, <1>4 DEF PostgresInit, SocketInv, UsableInv, VerifiedInv
<1>6. MethodInv /\ ProofInv
    BY DEF PostgresInit, MethodInv, ProofInv
<1> QED
    BY <1>1, <1>3, <1>5, <1>6 DEF PostgresInv, SweepInv

\* The transport phase leaves the journey alone, and a budget that ends in it
\* leaves its connections.
LEMMA TransportingKeepsInv == PostgresInv /\ Transporting => PostgresInv'
<1> SUFFICES ASSUME PostgresInv, Transporting PROVE PostgresInv'
    OBVIOUS
<1> USE DEF InPath, BeforeTLS, Proving, Chosen, Ended
<1>1. TransportTypeOK' /\ OwnInv' /\ UNCHANGED postgresVars /\ stage \notin {"done", "failed"}
    BY TypeStep, OwnStep DEF Transporting, PostgresInv, TransportNext
<1>2. PostgresTypeOK' /\ MethodInv' /\ Candidates' = Candidates
    BY <1>1
    DEF postgresVars, postgresGraph, postgresInput, PostgresInv, PostgresTypeOK, MethodInv,
        Candidates
<1>3. CASE stage = "sweep"
  <2>1. SweepInv' /\ held' = {} /\ pc' # "closed" /\ params' = params
      BY <1>3, RunStepTakesNothing, SweepRunStep
      DEF Transporting, PostgresInv, SocketInv, VerifiedInv
  <2>2. SocketInv' /\ UsableInv' /\ VerifiedInv'
      BY <1>1, <1>2, <1>3, <2>1
      DEF postgresVars, postgresInput, PostgresInv, SocketInv, UsableInv, VerifiedInv
  <2>3. ProofInv'
      BY <1>1, <1>3
      DEF postgresVars, postgresGraph, postgresInput, PostgresInv, ProofInv, PostgresTypeOK
  <2> QED
      BY <1>1, <1>2, <2>2, <2>3 DEF PostgresInv
<1>4. CASE stage # "sweep"
  <2>1. UNCHANGED <<params, pc, paths, channel, held, tls>>
      BY <1>1, <1>4, RunStepAfterReturn
      DEF Transporting, PostgresInv, SocketInv, ownerVars, graphVars
  <2>2. SocketInv' /\ UsableInv' /\ VerifiedInv'
      BY <1>1, <1>2, <1>4, <2>1
      DEF postgresVars, postgresInput, PostgresInv, SocketInv, UsableInv, VerifiedInv
  <2>3. ProofInv'
      BY <1>1, <2>1
      DEF postgresVars, postgresGraph, postgresInput, PostgresInv, ProofInv, Mutual
  <2> QED
      BY <1>1, <1>2, <2>2, <2>3 DEF PostgresInv
<1> QED
    BY <1>3, <1>4

\* Steps that touch no connection and no evidence of the sweep.
LEMMA QuietKeepsTransport ==
    ASSUME PostgresInv, UNCHANGED transportVars
    PROVE  /\ TransportTypeOK' /\ OwnInv'
           /\ UNCHANGED <<params, ctx, pc, paths, channel, held, open, tls>>
  BY TypeStep, OwnStep
  DEF PostgresInv, transportVars, ownerVars, graphVars, clockVars

LEMMA DiscoveryKeepsProofs ==
    ASSUME ProofInv, stage \notin Chosen \cup {"leave", "done"},
           stage' \notin Chosen \cup {"leave", "done"}, UNCHANGED <<auth, ready, proofs>>
    PROVE  ProofInv'
  BY DEF ProofInv, Chosen, Proving

LEMMA StartedKeepsMethods ==
    ASSUME MethodInv, UNCHANGED <<method, startup>>
    PROVE  MethodInv' /\ Candidates' = Candidates
  BY DEF MethodInv, Candidates

\* An exchange begins, comes back or is accepted, and no connection changes hands.
LEMMA PathMovesOn ==
    ASSUME PostgresInv, PostgresTypeOK',
           UNCHANGED <<transportVars, postgresInput, todo, at, startup, method, auth, ready, proofs>>,
           stage \in {"paths"} \cup InPath,
           stage' \in IF stage = "paths" THEN {"select"} ELSE InPath,
           stage' \in BeforeTLS => stage \in BeforeTLS,
           stage' = "started" => roleUsable,
           ~params.usableName => stage' \notin {"upgraded", "startup", "started"}
    PROVE  PostgresInv'
<1> USE DEF InPath, BeforeTLS, Chosen, Proving, Ended, postgresInput
<1>1. /\ TransportTypeOK' /\ OwnInv'
      /\ UNCHANGED <<params, ctx, pc, paths, channel, held, open, tls>>
    BY QuietKeepsTransport
<1>2. MethodInv' /\ Candidates' = Candidates
    BY StartedKeepsMethods DEF PostgresInv
<1>3. ProofInv'
    BY DiscoveryKeepsProofs DEF PostgresInv
<1>4. SocketInv'
    BY <1>1, <1>2 DEF PostgresInv, SocketInv
<1>5. UsableInv' /\ VerifiedInv'
    BY <1>1, <1>2 DEF PostgresInv, UsableInv, VerifiedInv
<1> QED
    BY <1>1, <1>2, <1>3, <1>4, <1>5 DEF PostgresInv

\* A path whose upgrade or startup did not come about gives its connection up.
LEMMA PathGivesUp ==
    ASSUME PostgresInv, TransportTypeOK', PostgresTypeOK', GivesUp({at}),
           UNCHANGED <<params, pending, cur, conn, session, channel, postgresInput, todo, at,
                       method, auth, ready, proofs>>,
           \A a \in Addr : a # at => tls'[a] = tls[a],
           channel[at] = "tls_verified" => tls'[at] = tls[at],
           method[at] = "none", \A a \in Addr : a # at => startup'[a] = startup[a],
           stage \in InPath, stage' = "paths"
    PROVE  PostgresInv'
<1> USE DEF InPath, BeforeTLS, Chosen, Proving, Ended, postgresInput
<1>1. /\ pc = "returned" /\ at \in Addr /\ at \notin Candidates /\ ~Connected(paths[at])
      /\ held = Candidates \cup {at} /\ TransportTypeOK /\ OwnInv
    BY DEF PostgresInv, PostgresTypeOK, SocketInv
<1>2. pc' = pc /\ paths' = paths /\ held' = held \ {at}
    BY DEF GivesUp
<1>3. MethodInv' /\ Candidates' = Candidates
    BY DEF PostgresInv, MethodInv, Candidates
<1>4. ProofInv'
    BY DiscoveryKeepsProofs DEF PostgresInv
<1>5. SocketInv'
    BY <1>2, <1>1, <1>3 DEF PostgresInv, SocketInv
<1>6. UsableInv' /\ VerifiedInv'
    BY <1>2, <1>3 DEF PostgresInv, UsableInv, VerifiedInv
<1>7. OwnInv'
    BY <1>1, GivesUpKeepsOwn
<1> QED
    BY <1>3, <1>4, <1>5, <1>6, <1>7 DEF PostgresInv

\* SetTypes: what the steps that touch the sweep's evidence leave well typed.
LEMMA UpgradeKeepsTypes ==
    ASSUME TransportTypeOK, at \in Addr, tls' \in [Addr -> Nodes], blocked' \subseteq Addr,
           channel' \in [Addr -> {"unknown", "plaintext", "tls_unverified", "tls_verified"}],
           paths' \in [Addr -> Holder], open' \subseteq Addr, held' \subseteq Addr,
           UNCHANGED sweepDone
    PROVE  TransportTypeOK'
  BY DEF TransportTypeOK, sweepDone, clockVars, sweepVars

LEMMA BeginPathsKeepsInv == PostgresInv /\ BeginPaths => PostgresInv'
<1> SUFFICES ASSUME PostgresInv, BeginPaths PROVE PostgresInv'
    OBVIOUS
<1> USE DEF InPath, BeforeTLS, Chosen, Proving, Ended, postgresInput, postgresGraph
<1>1. /\ TransportTypeOK' /\ OwnInv'
      /\ UNCHANGED <<params, ctx, pc, paths, channel, held, open, tls>>
    BY QuietKeepsTransport DEF BeginPaths
<1>2. MethodInv' /\ Candidates' = Candidates
    BY StartedKeepsMethods DEF PostgresInv, BeginPaths
<1>3. ProofInv'
    BY DiscoveryKeepsProofs DEF PostgresInv, BeginPaths
<1>4. PostgresTypeOK'
    BY DEF BeginPaths, PostgresInv, PostgresTypeOK, PostgresStages
<1>5. SocketInv' /\ UsableInv'
    BY <1>1, <1>2 DEF BeginPaths, PostgresInv, SocketInv, UsableInv
<1>6. \A a \in Addr : channel[a] # "tls_verified"
  <2>1. SweepInv /\ ~params.tls /\ pc = "returned"
      BY DEF BeginPaths, PostgresInv, VerifiedInv
  <2>2. \A a \in Addr : tls[a] = NoNode
      BY <2>1 DEF SweepInv, AccountInv, Accounted, HandshakeUnderway, NoNode
  <2>3. NoNode.state # "PASS"
      BY DEF NoNode
  <2>4. \A a \in Addr : channel[a] = "tls_verified" => tls[a].state = "PASS"
      BY <2>1 DEF SweepInv, ChannelInv
  <2> QED
      BY <2>2, <2>3, <2>4
<1>7. VerifiedInv'
    BY <1>1, <1>4, <1>6 DEF BeginPaths, VerifiedInv, PostgresTypeOK
<1> QED
    BY <1>1, <1>2, <1>3, <1>4, <1>5, <1>7 DEF PostgresInv

LEMMA NegotiateKeepsInv ==
    ASSUME PostgresInv, NEW a \in Addr, Negotiate(a)
    PROVE  PostgresInv'
<1> USE DEF InPath, BeforeTLS, Chosen, Proving, Ended, postgresInput
<1>1. /\ pc = "returned" /\ Connected(paths[a]) /\ a \notin Candidates /\ held = Candidates
      /\ TransportTypeOK /\ OwnInv
    BY DEF Negotiate, PostgresInv, SocketInv
<1>2. TakesPath(a)
    BY DEF Negotiate, TakesPath, sweepDone
<1>3. OwnInv' /\ SocketTypes
    BY <1>1, <1>2, TakesPathKeepsOwn DEF Negotiate, sweepDone, sweepVars
<1>4. TransportTypeOK'
    BY <1>3 DEF Negotiate, SocketTypes, PostgresInv, TransportTypeOK, sweepDone, clockVars, sweepVars
<1>5. /\ ~Connected(paths'[a]) /\ \A b \in Addr : b # a => paths'[b] = paths[b]
    BY HolderFacts DEF Negotiate, PostgresInv, TransportTypeOK
<1>6. MethodInv' /\ Candidates' = Candidates /\ Candidates \subseteq Addr
    BY StartedKeepsMethods DEF PostgresInv, Negotiate, Candidates
<1>7. ProofInv'
    BY DiscoveryKeepsProofs DEF PostgresInv, Negotiate
<1>8. PostgresTypeOK'
    BY OtherNodes DEF Negotiate, PostgresInv, PostgresTypeOK, PostgresStages
<1>9. SocketInv'
    BY <1>1, <1>2, <1>5, <1>6
    DEF Negotiate, TakesPath, PostgresInv, SocketInv, PostgresTypeOK
<1>10. UsableInv' /\ VerifiedInv'
    BY <1>6 DEF Negotiate, sweepDone, PostgresInv, UsableInv, VerifiedInv
<1> QED
    BY <1>3, <1>4, <1>6, <1>7, <1>8, <1>9, <1>10 DEF PostgresInv

LEMMA UpgradingKeepsInv == PostgresInv /\ Upgraded => PostgresInv'
<1> SUFFICES ASSUME PostgresInv, Upgraded PROVE PostgresInv'
    OBVIOUS
<1> USE DEF InPath, BeforeTLS, Chosen, Proving, Ended, postgresInput, postgresGraph
<1>1. /\ at \in Addr /\ TransportTypeOK /\ OwnInv /\ ctx \in {"live"} \cup Endings
      /\ at \notin todo
    BY DEF Upgraded, PostgresInv, PostgresTypeOK, SocketInv, TransportTypeOK
<1>2. /\ tls' = [tls EXCEPT ![at] = classify("ok", ctx)]
      /\ classify("ok", ctx) \in Nodes /\ classify("ok", ctx).state = "PASS"
    BY <1>1, ClassifyFacts DEF Upgraded, Outcomes
<1>3. TransportTypeOK'
    BY <1>1, <1>2 DEF Upgraded, TransportTypeOK, sweepDone, clockVars, sweepVars
<1>4. OwnInv'
    BY <1>1
    DEF Upgraded, OwnInv, HolderInv, FreshInv, OpenInv, InHand, sweepDone, sweepVars
<1>5. MethodInv' /\ Candidates' = Candidates
    BY StartedKeepsMethods DEF PostgresInv, Upgraded
<1>6. ProofInv'
    BY DiscoveryKeepsProofs DEF PostgresInv, Upgraded
<1>7. PostgresTypeOK'
    BY DEF Upgraded, PostgresInv, PostgresTypeOK, PostgresStages
<1>8. SocketInv' /\ UsableInv'
    BY <1>5 DEF Upgraded, sweepDone, PostgresInv, SocketInv, UsableInv
<1>9. VerifiedInv'
  <2>1. params' = params /\ stage' = "startup" /\ todo' = todo /\ todo \subseteq Addr
      BY DEF Upgraded, sweepDone, PostgresInv, PostgresTypeOK
  <2>2. /\ \A a \in Addr : a # at => channel'[a] = channel[a] /\ tls'[a] = tls[a]
        /\ tls'[at].state = "PASS"
        /\ channel'[at] = "tls_verified" => ~params.insecure
      BY <1>1, <1>2 DEF Upgraded, TransportTypeOK
  <2> QED
      BY <1>1, <2>1, <2>2 DEF Upgraded, PostgresInv, VerifiedInv
<1> QED
    BY <1>3, <1>4, <1>5, <1>6, <1>7, <1>8, <1>9 DEF PostgresInv

LEMMA UpgradeRefusedKeepsInv == PostgresInv /\ (SSLRefused \/ UpgradeFailed) => PostgresInv'
<1> SUFFICES ASSUME PostgresInv, SSLRefused \/ UpgradeFailed PROVE PostgresInv'
    OBVIOUS
<1> USE DEF postgresInput, sweepDone, clockVars, sweepVars
<1>1. /\ at \in Addr /\ TransportTypeOK /\ ctx \in {"live"} \cup Endings
      /\ stage \in InPath /\ stage' = "paths"
      /\ channel[at] # "tls_verified" /\ method[at] = "none"
    BY DEF SSLRefused, UpgradeFailed, SkipStartup, PostgresInv, PostgresTypeOK, SocketInv,
           VerifiedInv, TransportTypeOK, InPath, BeforeTLS, Candidates
<1>2. /\ \A a \in Addr : a # at => tls'[a] = tls[a] /\ startup'[a] = startup[a]
      /\ tls' \in [Addr -> Nodes] /\ blocked' \subseteq Addr
    BY <1>1, NodeFacts, ClassifyFacts
    DEF SSLRefused, UpgradeFailed, SkipStartup, PostgresInv, PostgresTypeOK, TransportTypeOK
<1>3. GivesUp({at})
    BY DEF SSLRefused, UpgradeFailed, CloseAt, GivesUp
<1>4. TransportTypeOK'
    BY <1>1, <1>2
    DEF SSLRefused, UpgradeFailed, CloseAt, TransportTypeOK
<1>5. PostgresTypeOK'
    BY <1>1, OtherNodes, SSLNode
    DEF SSLRefused, UpgradeFailed, SkipStartup, PostgresInv, PostgresTypeOK, PostgresStages
<1> QED
    BY <1>1, <1>2, <1>3, <1>4, <1>5, PathGivesUp DEF SSLRefused, UpgradeFailed

LEMMA RecordStartupKeepsInv == PostgresInv /\ RecordStartup => PostgresInv'
<1> SUFFICES ASSUME PostgresInv, RecordStartup PROVE PostgresInv'
    OBVIOUS
<1> USE DEF postgresInput, sweepDone, clockVars, sweepVars
<1>1. /\ at \in Addr /\ TransportTypeOK /\ pc = "returned" /\ roleUsable /\ params.usableName
      /\ stage = "started" /\ stage' = "paths" /\ method[at] = "none" /\ at \notin todo
    BY DEF RecordStartup, PostgresInv, PostgresTypeOK, SocketInv, UsableInv, InPath, Candidates
<1>2. /\ startup' = [startup EXCEPT ![at] = classifyStartup(reply, ctx)]
      /\ classifyStartup(reply, ctx) \in PostgresNodes
    BY StartupNode DEF RecordStartup
<1>3. PostgresTypeOK'
    BY <1>1, <1>2 DEF RecordStartup, methodOf, Methods, PostgresInv, PostgresTypeOK, PostgresStages
<1>4. CASE reply \notin Methods
  <2>1. GivesUp({at}) /\ method' = method
      BY <1>1, <1>4 DEF RecordStartup, CloseAt, GivesUp, methodOf, PostgresInv, PostgresTypeOK
  <2>2. TransportTypeOK'
      BY <1>1, <1>4 DEF RecordStartup, CloseAt, TransportTypeOK
  <2>3. \A a \in Addr : a # at => startup'[a] = startup[a]
      BY <1>1, <1>2 DEF PostgresInv, PostgresTypeOK
  <2> QED
      BY <1>1, <1>3, <2>1, <2>2, <2>3, PathGivesUp DEF RecordStartup, InPath
<1>5. CASE reply \in Methods
  <2>1. UNCHANGED transportVars /\ method' = [method EXCEPT ![at] = reply] /\ reply # "none"
      BY <1>5 DEF RecordStartup, transportVars, graphVars, ownerVars, methodOf, Methods
  <2>2. /\ TransportTypeOK' /\ OwnInv'
        /\ UNCHANGED <<params, ctx, pc, paths, channel, held, open, tls>>
      BY <2>1, QuietKeepsTransport
  <2>3. /\ Candidates' = Candidates \cup {at}
        /\ \A a \in Addr : a # at => method'[a] = method[a] /\ startup'[a] = startup[a]
        /\ startup'[at].state = "PASS"
      BY <1>1, <1>2, <1>5, <2>1, StartupNode DEF PostgresInv, PostgresTypeOK, Candidates
  <2>4. MethodInv'
      BY <1>1, <2>3 DEF PostgresInv, MethodInv
  <2>5. ProofInv'
      BY <1>1, DiscoveryKeepsProofs DEF RecordStartup, PostgresInv, Chosen, Proving
  <2>6. SocketInv'
      BY <1>1, <2>2, <2>3
      DEF RecordStartup, PostgresInv, SocketInv, InPath, BeforeTLS, Chosen, Proving, Ended
  <2>7. UsableInv' /\ VerifiedInv'
      BY <1>1, <2>2 DEF RecordStartup, PostgresInv, UsableInv, VerifiedInv, InPath, BeforeTLS
  <2> QED
      BY <1>3, <2>2, <2>4, <2>5, <2>6, <2>7 DEF PostgresInv
<1> QED
    BY <1>4, <1>5

LEMMA FailKeepsInv == PostgresInv /\ Fail => PostgresInv'
<1> SUFFICES ASSUME PostgresInv, Fail PROVE PostgresInv'
    OBVIOUS
<1> USE DEF InPath, BeforeTLS, Chosen, Proving, Ended, postgresInput, postgresGraph, clockVars,
            sweepVars, graphVars
<1>1. /\ at \in Addr /\ TransportTypeOK /\ OwnInv /\ pc = "returned"
      /\ ~Connected(paths[at]) /\ Candidates = {} /\ held = {at}
      /\ stage \in InPath /\ stage' = "failed"
    BY DEF Fail, PostgresInv, PostgresTypeOK, SocketInv, UsableInv
<1>2. LeavesSweep({at})
    BY DEF Fail, LeavesSweep
<1>3. OwnInv' /\ SocketTypes /\ \A a \in Addr : ~Connected(paths'[a])
    BY <1>1, <1>2, LeavesKeepsOwn DEF Fail
<1>4. TransportTypeOK'
    BY <1>3 DEF Fail, SocketTypes, PostgresInv, TransportTypeOK
<1>5. PostgresTypeOK'
    BY DEF Fail, PostgresInv, PostgresTypeOK, PostgresStages
<1>6. MethodInv' /\ Candidates' = Candidates
    BY StartedKeepsMethods DEF PostgresInv, Fail
<1>7. ProofInv'
    BY <1>1, DiscoveryKeepsProofs DEF PostgresInv, Fail
<1>8. SocketInv' /\ UsableInv' /\ VerifiedInv'
    BY <1>1, <1>3, <1>6 DEF Fail, PostgresInv, SocketInv, UsableInv, VerifiedInv
<1> QED
    BY <1>3, <1>4, <1>5, <1>6, <1>7, <1>8 DEF PostgresInv

LEMMA DiscoveringKeepsInv == PostgresInv /\ Discovering => PostgresInv'
<1> SUFFICES ASSUME PostgresInv, Discovering PROVE PostgresInv'
    OBVIOUS
<1>1. CASE SSLAccepted \/ PathsDone
  <2>1. PostgresTypeOK'
      BY <1>1, SSLNode
      DEF SSLAccepted, PathsDone, postgresInput, postgresGraph, PostgresInv, PostgresTypeOK,
          PostgresStages, BeforeTLS, InPath
  <2> QED
      BY <1>1, <2>1, PathMovesOn
      DEF SSLAccepted, PathsDone, InPath, BeforeTLS, postgresGraph
<1>2. ASSUME NEW r, SSLReturns(r) PROVE PostgresInv'
  <2>1. PostgresTypeOK'
      BY <1>2
      DEF SSLReturns, Comes, postgresInput, postgresGraph, PostgresInv, PostgresTypeOK,
          PostgresStages, BeforeTLS, InPath
  <2> QED
      BY <1>2, <2>1, PathMovesOn DEF SSLReturns, Comes, InPath, BeforeTLS, postgresGraph
<1>3. ASSUME NEW r \in Outcomes, UpgradeReturns(r) PROVE PostgresInv'
  <2>1. PostgresTypeOK'
      BY <1>3
      DEF UpgradeReturns, Comes, postgresInput, postgresGraph, PostgresInv, PostgresTypeOK,
          PostgresStages, BeforeTLS, InPath
  <2> QED
      BY <1>3, <2>1, PathMovesOn DEF UpgradeReturns, Comes, InPath, BeforeTLS, postgresGraph
<1>4. ASSUME NEW r, StartupReturns(r) PROVE PostgresInv'
  <2>1. PostgresTypeOK'
      BY <1>4
      DEF StartupReturns, Comes, postgresInput, postgresGraph, PostgresInv, PostgresTypeOK,
          PostgresStages, BeforeTLS, InPath
  <2>2. stage = "startup" => params.usableName
      BY DEF PostgresInv, UsableInv
  <2> QED
      BY <1>4, <2>1, <2>2, PathMovesOn DEF StartupReturns, Comes, InPath, BeforeTLS, postgresGraph
<1> QED
    BY <1>1, <1>2, <1>3, <1>4, BeginPathsKeepsInv, NegotiateKeepsInv, UpgradingKeepsInv,
       UpgradeRefusedKeepsInv, RecordStartupKeepsInv, FailKeepsInv
    DEF Discovering

\* Past the selection: a step that leaves every connection where it is, ...
LEMMA ChosenMovesOn ==
    ASSUME PostgresInv, PostgresTypeOK', ProofInv',
           UNCHANGED <<transportVars, postgresInput, at, startup, method>>,
           \/ stage = "select" /\ Candidates = {} /\ stage' = "leave"
           \/ stage \in Chosen /\ stage' \in Chosen
    PROVE  PostgresInv'
<1> USE DEF InPath, BeforeTLS, Chosen, Proving, Ended, postgresInput
<1>1. /\ TransportTypeOK' /\ OwnInv'
      /\ UNCHANGED <<params, ctx, pc, paths, channel, held, open, tls>>
    BY QuietKeepsTransport
<1>2. MethodInv' /\ Candidates' = Candidates
    BY StartedKeepsMethods DEF PostgresInv
<1>3. SocketInv' /\ UsableInv' /\ VerifiedInv'
    BY <1>1, <1>2 DEF PostgresInv, SocketInv, UsableInv, VerifiedInv
<1> QED
    BY <1>1, <1>2, <1>3 DEF PostgresInv

\* ... one that gives the selected connection up, ...
LEMMA ChosenGivesUp ==
    ASSUME PostgresInv, PostgresTypeOK', ProofInv', CloseAt,
           UNCHANGED <<sweepDone, tls, blocked, paths, channel, postgresInput, at, startup, method>>,
           stage \in Chosen, stage' = "leave"
    PROVE  PostgresInv'
<1> USE DEF InPath, BeforeTLS, Chosen, Proving, Ended, postgresInput, sweepDone, clockVars,
            sweepVars
<1>1. /\ pc = "returned" /\ at \in Candidates /\ held = {at} /\ ~Connected(paths[at])
      /\ TransportTypeOK /\ OwnInv
    BY DEF PostgresInv, SocketInv
<1>2. GivesUp({at}) /\ held' = {}
    BY <1>1 DEF CloseAt, GivesUp
<1>3. OwnInv'
    BY <1>1, <1>2, GivesUpKeepsOwn
<1>4. TransportTypeOK'
    BY DEF CloseAt, PostgresInv, TransportTypeOK
<1>5. MethodInv' /\ Candidates' = Candidates
    BY StartedKeepsMethods DEF PostgresInv
<1>6. SocketInv' /\ UsableInv' /\ VerifiedInv'
    BY <1>1, <1>2, <1>5 DEF PostgresInv, SocketInv, UsableInv, VerifiedInv
<1> QED
    BY <1>3, <1>4, <1>5, <1>6 DEF PostgresInv

\* ... and the selection, which gives up every other one.
LEMMA SelectKeepsInv ==
    ASSUME PostgresInv, NEW a \in Addr, Select(a)
    PROVE  PostgresInv'
<1> USE DEF InPath, BeforeTLS, Chosen, Proving, Ended, postgresInput, postgresGraph, sweepDone,
            clockVars, sweepVars
<1>1. /\ pc = "returned" /\ a \in Candidates /\ held = Candidates
      /\ \A b \in Candidates : ~Connected(paths[b])
      /\ TransportTypeOK /\ OwnInv /\ at' = a /\ stage' \in {"authenticate", "leave"}
    BY ChosenIsCandidate DEF Select, PostgresInv, SocketInv
<1>2. GivesUp(Candidates \ (IF ctx = "live" THEN {a} ELSE {}))
    BY DEF Select, GivesUp
<1>3. OwnInv'
    BY <1>1, <1>2, GivesUpKeepsOwn DEF Select
<1>4. TransportTypeOK'
    BY <1>1 DEF Select, TransportTypeOK
<1>5. MethodInv' /\ Candidates' = Candidates
    BY StartedKeepsMethods DEF PostgresInv, Select
<1>6. PostgresTypeOK'
    BY <1>1 DEF Select, PostgresInv, PostgresTypeOK, PostgresStages
<1>7. ProofInv'
    BY <1>1 DEF Select, PostgresInv, ProofInv
<1>8. SocketInv' /\ UsableInv' /\ VerifiedInv'
    BY <1>1, <1>5 DEF Select, PostgresInv, SocketInv, UsableInv, VerifiedInv
<1> QED
    BY <1>3, <1>4, <1>5, <1>6, <1>7, <1>8 DEF PostgresInv

LEMMA AuthenticatingKeepsInv == PostgresInv /\ Authenticating => PostgresInv'
<1> SUFFICES ASSUME PostgresInv, Authenticating PROVE PostgresInv'
    OBVIOUS
<1> USE DEF postgresGraph
<1>1. CASE NothingToSelect \/ Trusted
  <2>1. PostgresTypeOK'
      BY <1>1
      DEF NothingToSelect, Trusted, postgresInput, PostgresInv, PostgresTypeOK, PostgresStages,
          Chosen
  <2>2. ProofInv'
      BY <1>1
      DEF NothingToSelect, Trusted, PostgresInv, ProofInv, Mutual, Chosen, Proving,
          postgresInput
  <2> QED
      BY <1>1, <2>1, <2>2, ChosenMovesOn DEF NothingToSelect, Trusted, Chosen
<1>2. CASE Withhold
  <2>1. at \in Candidates
      BY <1>2 DEF Withhold, PostgresInv, SocketInv, Chosen
  <2>2. PostgresTypeOK'
      BY <1>2, <2>1, OtherNodes
      DEF Withhold, postgresInput, PostgresInv, PostgresTypeOK, PostgresStages, Candidates
  <2>3. ProofInv'
      BY <1>2
      DEF Withhold, PostgresInv, ProofInv, Chosen, Proving, postgresInput, sweepDone
  <2> QED
      BY <1>2, <2>2, <2>3, ChosenGivesUp DEF Withhold, Chosen
<1>3. CASE BeginSCRAM
  <2>1. PostgresTypeOK'
      BY <1>3
      DEF BeginSCRAM, postgresInput, PostgresInv, PostgresTypeOK, PostgresStages, Chosen, Proving
  <2>2. ProofInv'
      BY <1>3
      DEF BeginSCRAM, MayPresent, Admissible, PermitsCredentials, PostgresInv, PostgresTypeOK,
          ProofInv, Chosen, Proving, postgresInput, transportVars, ownerVars
  <2> QED
      BY <1>3, <2>1, <2>2, ChosenMovesOn DEF BeginSCRAM, Chosen, Proving
<1>4. ASSUME NEW r \in {"challenge", "limit"} \cup Rejections \cup Broken, ServerFirst(r)
      PROVE  PostgresInv'
  <2>1. proofs = 0 /\ r # "complete"
      BY <1>4 DEF ServerFirst, PostgresInv, ProofInv, Broken, Rejections
  <2>2. PostgresTypeOK'
      BY <1>4, <2>1
      DEF ServerFirst, postgresInput, PostgresInv, PostgresTypeOK, PostgresStages, Chosen,
          Proving
  <2>3. ProofInv'
      BY <1>4, <2>1
      DEF ServerFirst, PostgresInv, ProofInv, Chosen, Proving, postgresInput, transportVars,
          ownerVars
  <2> QED
      BY <1>4, <2>2, <2>3, ChosenMovesOn DEF ServerFirst, Chosen, Proving
<1>5. ASSUME NEW r \in {"signature", "mismatch", "limit"} \cup Rejections \cup Broken,
             ServerFinal(r)
      PROVE  PostgresInv'
  <2>1. r # "complete"
      BY DEF Broken, Rejections
  <2>2. PostgresTypeOK'
      BY <1>5
      DEF ServerFinal, postgresInput, PostgresInv, PostgresTypeOK, PostgresStages, Chosen,
          Proving
  <2>3. ProofInv'
      BY <1>5, <2>1
      DEF ServerFinal, Verify, CanSend, PostgresInv, ProofInv, Chosen, Proving, postgresInput,
          transportVars, ownerVars
  <2> QED
      BY <1>5, <2>2, <2>3, ChosenMovesOn DEF ServerFinal, Chosen, Proving
<1>6. ASSUME NEW r, AuthenticationOk(r) PROVE PostgresInv'
  <2>1. PostgresTypeOK'
      BY <1>6
      DEF AuthenticationOk, Comes, postgresInput, PostgresInv, PostgresTypeOK, PostgresStages,
          Chosen
  <2>2. ProofInv'
      BY <1>6
      DEF AuthenticationOk, Comes, PostgresInv, ProofInv, Chosen, Proving, postgresInput,
          transportVars, ownerVars
  <2> QED
      BY <1>6, <2>1, <2>2, ChosenMovesOn DEF AuthenticationOk, Comes, Chosen, Proving
<1>7. CASE RecordAuth
  <2>0. /\ auth' = classifyAuth(reply, ctx) /\ auth' \in PostgresNodes
        /\ reply = "complete" => auth'.state = "PASS"
      BY <1>7, AuthNode DEF RecordAuth
  <2>1. PostgresTypeOK'
      BY <1>7, <2>0
      DEF RecordAuth, postgresInput, PostgresInv, PostgresTypeOK, PostgresStages, Chosen
  <2>2. ProofInv'
      BY <1>7, <2>0
      DEF RecordAuth, PostgresInv, ProofInv, Mutual, Chosen, Proving, postgresInput, sweepDone
  <2>3. CASE reply = "complete"
    <3>1. UNCHANGED transportVars
        BY <1>7, <2>3 DEF RecordAuth, sweepDone, transportVars, graphVars, ownerVars
    <3> QED
        BY <1>7, <2>1, <2>2, <2>3, <3>1, ChosenMovesOn DEF RecordAuth, Chosen
  <2>4. CASE reply # "complete"
      BY <1>7, <2>1, <2>2, <2>4, ChosenGivesUp DEF RecordAuth, Chosen
  <2> QED
      BY <2>3, <2>4
<1> QED
    BY <1>1, <1>2, <1>3, <1>4, <1>5, <1>6, <1>7, SelectKeepsInv DEF Authenticating

LEMMA EstablishingKeepsInv == PostgresInv /\ Establishing => PostgresInv'
<1> SUFFICES ASSUME PostgresInv, Establishing PROVE PostgresInv'
    OBVIOUS
<1> USE DEF postgresGraph
<1>1. ASSUME NEW r, SessionReturns(r) PROVE PostgresInv'
  <2>1. PostgresTypeOK'
      BY <1>1
      DEF SessionReturns, Comes, postgresInput, PostgresInv, PostgresTypeOK, PostgresStages,
          Chosen
  <2>2. ProofInv'
      BY <1>1
      DEF SessionReturns, Comes, PostgresInv, ProofInv, Mutual, Chosen, Proving, postgresInput,
          transportVars, ownerVars
  <2> QED
      BY <1>1, <2>1, <2>2, ChosenMovesOn DEF SessionReturns, Comes, Chosen
<1>2. CASE RecordSession
  <2>1. PostgresTypeOK'
      BY <1>2, SessionNode
      DEF RecordSession, postgresInput, PostgresInv, PostgresTypeOK, PostgresStages
  <2>2. ProofInv'
      BY <1>2
      DEF RecordSession, PostgresInv, ProofInv, Mutual, Chosen, Proving, postgresInput, sweepDone
  <2> QED
      BY <1>2, <2>1, <2>2, ChosenGivesUp DEF RecordSession, Chosen
<1> QED
    BY <1>1, <1>2 DEF Establishing

LEMMA LeaveKeepsInv == PostgresInv /\ Leave => PostgresInv'
<1> SUFFICES ASSUME PostgresInv, Leave PROVE PostgresInv'
    OBVIOUS
<1> USE DEF InPath, BeforeTLS, Chosen, Proving, Ended, postgresInput, postgresGraph, clockVars,
            sweepVars, graphVars
<1>1. pc = "returned" /\ held = {} /\ TransportTypeOK /\ OwnInv /\ stage' = "done"
    BY DEF Leave, PostgresInv, SocketInv
<1>2. LeavesSweep({})
    BY DEF Leave, LeavesSweep
<1>3. OwnInv' /\ SocketTypes /\ \A a \in Addr : ~Connected(paths'[a])
    BY <1>1, <1>2, LeavesKeepsOwn DEF Leave
<1>4. TransportTypeOK'
    BY <1>3 DEF Leave, SocketTypes, PostgresInv, TransportTypeOK
<1>5. PostgresTypeOK'
    BY DEF Leave, PostgresInv, PostgresTypeOK, PostgresStages
<1>6. MethodInv' /\ Candidates' = Candidates /\ Candidates \subseteq Addr
    BY StartedKeepsMethods DEF PostgresInv, Leave, Candidates
<1>7. ProofInv'
    BY <1>1 DEF Leave, PostgresInv, ProofInv, Mutual
<1>8. SocketInv' /\ UsableInv' /\ VerifiedInv'
    BY <1>1, <1>3, <1>6 DEF Leave, PostgresInv, SocketInv, UsableInv, VerifiedInv
<1> QED
    BY <1>3, <1>4, <1>5, <1>6, <1>7, <1>8 DEF PostgresInv

LEMMA PostgresStep == PostgresInv /\ [PostgresNext]_journeyVars => PostgresInv'
<1> SUFFICES ASSUME PostgresInv, [PostgresNext]_journeyVars PROVE PostgresInv'
    OBVIOUS
<1>1. CASE UNCHANGED journeyVars
  <2>1. /\ TransportTypeOK' /\ OwnInv'
        /\ UNCHANGED <<params, ctx, pc, paths, channel, held, open, tls>>
      BY <1>1, QuietKeepsTransport DEF journeyVars
  <2>2. UNCHANGED postgresVars /\ (SweepInv => SweepInv')
      BY <1>1, SweepQuiet DEF journeyVars
  <2>3. Candidates' = Candidates
      BY <2>2 DEF postgresVars, postgresGraph, Candidates
  <2> QED
      BY <2>1, <2>2, <2>3
      DEF postgresVars, postgresGraph, postgresInput, PostgresInv, PostgresTypeOK, SocketInv,
          UsableInv, VerifiedInv, MethodInv, ProofInv, Mutual
<1> QED
    BY <1>1, TransportingKeepsInv, DiscoveringKeepsInv, AuthenticatingKeepsInv,
       EstablishingKeepsInv, LeaveKeepsInv
    DEF PostgresNext, PostgresOver

THEOREM PostgresInvariant == PostgresSpec => []PostgresInv
  BY PostgresInvInit, PostgresStep, PTL DEF PostgresSpec

\* ADR 0038 and ADR 0041 for any set of addresses and any answers: one client
\* proof at most, written where the endpoint asked for SCRAM over a channel
\* whose peer that connection's own handshake verified.
THEOREM PostgresProofIsDisciplined == PostgresSpec => []ProofDiscipline
<1>1. PostgresInv => ProofDiscipline
  <2> SUFFICES ASSUME PostgresInv PROVE ProofDiscipline
      OBVIOUS
  <2>1. CASE proofs = 0
      BY <2>1 DEF ProofDiscipline
  <2>2. CASE proofs = 1
    <3>1. /\ credential = "usable" /\ channel[at] = "tls_verified" /\ method[at] = "scram"
          /\ at \in Addr
        BY <2>2 DEF PostgresInv, ProofInv, PostgresTypeOK
    <3>2. stage # "sweep"
        BY <2>2 DEF PostgresInv, ProofInv, Chosen, Proving
    <3>3. tls[at].state = "PASS" /\ ~params.insecure
        BY <3>1, <3>2 DEF PostgresInv, VerifiedInv
    <3>4. startup[at].state = "PASS"
        BY <3>1 DEF PostgresInv, MethodInv
    <3> QED
        BY <2>2, <3>1, <3>3, <3>4 DEF ProofDiscipline
  <2> QED
      BY <2>1, <2>2 DEF PostgresInv, PostgresTypeOK
<1> QED
    BY <1>1, PostgresInvariant, PTL

\* Success is a conjunction, whatever the peer sends: no session is recorded
\* unless the endpoint asked for nothing or proved that it holds the verifier.
THEOREM PostgresSessionIsMutual == PostgresSpec => []SessionIsMutual
<1>1. PostgresInv => SessionIsMutual
    BY DEF PostgresInv, ProofInv, Mutual, SessionIsMutual
<1> QED
    BY <1>1, PostgresInvariant, PTL

\* No socket of a PostgreSQL run outlives it, and none has two owners on the
\* way: refused upgrades, refused parameters and paths never reached included.
THEOREM PostgresSocketsEndWithTheRun == PostgresSpec => []SocketsClosed
<1>1. PostgresInv => SocketsClosed
  <2> SUFFICES ASSUME PostgresInv PROVE SocketsClosed
      OBVIOUS
  <2>1. CASE stage \in {"done", "failed"}
      BY <2>1, ReturnedSockets DEF PostgresInv, SocketInv, Ended, SocketsClosed
  <2>2. CASE stage \notin {"sweep", "done", "failed"}
    <3>1. ASSUME NEW a \in open PROVE (a \in held) # Connected(paths[a])
      <4>1. /\ a \in held => ~Connected(paths[a])
            /\ Connected(paths[a]) \/ a \in held
          BY <2>2, ReturnedSockets DEF PostgresInv, SocketInv, Ended
      <4> QED
          BY <4>1 DEF Connected
    <3> QED
        BY <2>2, <3>1 DEF SocketsClosed
  <2>3. CASE stage = "sweep"
      BY <2>3 DEF SocketsClosed
  <2> QED
      BY <2>1, <2>2, <2>3
<1> QED
    BY <1>1, PostgresInvariant, PTL
-----------------------------------------------------------------------------
(* What the nodes of the graph can say, and when.                          *)

\* What each exchange can have come back with when its node is recorded.
ReplyInv ==
    /\ stage = "sslRead" => reply \in SSLAnswers \cup Broken
    /\ stage = "started" => reply \in Methods \cup {"notPermitted", "error"} \cup Broken
    /\ stage = "authRead" =>
         reply \in {"limit", "mismatch", "complete"} \cup Rejections \cup Broken
    /\ stage = "sessionRead" =>
         reply \in {"ready", "notFound", "denied", "limitReached", "error"} \cup Broken

\* The sweep dialled what it located and kept a path where the dial passed:
\* the upgrades in band change neither.
DialledInv ==
    stage # "sweep" =>
        \A a \in Addr : /\ tcp[a] # NoNode <=> a \in located
                        /\ paths[a].conn <=> tcp[a].state = "PASS"

\* A path discover has not come to.
Untouched(a) ==
    /\ sslRequest[a] = NoNode /\ startup[a] = NoNode
    /\ startupBlocker[a] = "none" /\ method[a] = "none"

\* Nothing the plan asks for stands between this path and its startup.
MayStart(a) ==
    /\ sslRequest[a].state \in {"PASS", "SKIPPED"} /\ tls[a].state # "FAIL"
    /\ plan = "required" => tls[a].state = "PASS"

\* A path discover has dealt with: its startup was answered, failed, or names
\* what stopped it.
Discovered(a) ==
    /\ Decided(sslRequest[a]) \/ sslRequest[a].state = "SKIPPED"
    /\ \/ Decided(startup[a]) /\ startupBlocker[a] = "none"
       \/ /\ startup[a].state = "SKIPPED"
          /\ \/ startupBlocker[a] = "ssl_request" /\ sslRequest[a].state \in {"FAIL", "UNKNOWN"}
             \/ /\ startupBlocker[a] = "tls" /\ sslRequest[a].state = "PASS"
                /\ tls[a].state \in {"FAIL", "UNKNOWN"}
    /\ startup[a].state = "PASS" <=> method[a] # "none"
    /\ method[a] # "none" => MayStart(a)

\* The path in hand.
PathInHand ==
    /\ startup[at] = NoNode /\ startupBlocker[at] = "none" /\ method[at] = "none"
    /\ stage \in {"upgrade", "upgraded"} => sslRequest[at].state = "PASS"
    /\ stage \in {"startup", "started"} => MayStart(at)

PathInv ==
    /\ stage \in {"paths"} \cup InPath => \A a \in todo : tls[a].state # "FAIL"
    /\ stage # "failed" => \A a \in Addr :
         Untouched(a) \/ (stage \in InPath /\ a = at) \/ Discovered(a)
    /\ stage \in {"paths"} \cup InPath => \A a \in todo : Untouched(a)
    /\ stage = "sweep" => (\A a \in Addr : Untouched(a)) /\ (pc # "failed" => WholePaths)
    /\ stage \in InPath => PathInHand /\ at \notin todo
    /\ stage \in {"paths"} \cup InPath =>
         \A a \in Addr : paths[a].conn => ~Untouched(a) \/ a \in todo \/ (stage \in InPath /\ a = at)
    /\ stage \notin {"sweep", "paths", "failed"} \cup InPath /\ ctx = "live" =>
         \A a \in Addr : paths[a].conn => ~Untouched(a)

\* What an authentication can end in.
AuthOutcome(n) ==
    \/ n.state = "PASS" \/ CutShort(n)
    \/ /\ n.state = "FAIL"
       /\ n.class \in {"TARGET", "NOT_PERMITTED", "REJECTED", "PEER_VERIFICATION",
                       "MECHANISM_NOT_OFFERED"}
    \/ n.state = "UNKNOWN" /\ n.class \in {"UNSUPPORTED", "MECHANISM_UNSUPPORTED"}
    \/ n.state = "SKIPPED" /\ n.class \in {"POLICY", "INPUT_MISSING"}

\* What the wait for ReadyForQuery can end in: svcdoctor reads no more than the
\* step allows, so none of it is beyond it.
SessionOutcome(n) ==
    \/ n.state = "PASS" \/ CutShort(n)
    \/ n.state = "FAIL" /\ n.class \in DOMAIN SessionClaims

ResultInv ==
    /\ auth = NoNode \/ AuthOutcome(auth)
    /\ ready = NoNode \/ SessionOutcome(ready)
    /\ auth # NoNode \/ ready # NoNode => at \in Candidates
    /\ stage \in {"leave", "done"} /\ auth.state = "PASS" => ready # NoNode
    /\ stage \in {"leave", "done"} /\ ctx = "live" =>
         Candidates = {} \/ auth # NoNode \/ ready # NoNode
    /\ stage = "done" => (incomplete <=> incompleteRun(Recorded, established))

PostgresGraphInv ==
    EvidenceInv /\ ReplyInv /\ DialledInv /\ PathInv /\ ResultInv

LEMMA VerdictFacts ==
    ASSUME NEW r \in Broken, NEW e \in {"live"} \cup Endings
    PROVE  /\ Decided(classifyBroken(r, e)) /\ classifyBroken(r, e).state # "PASS"
           /\ classifyAnswer(r, e) = classifyBroken(r, e)
  BY DEF classifyBroken, classifyAnswer, NamedRefusals, Broken, Node, Decided, CutShort,
         BudgetClasses, Endings

LEMMA NotRecorded ==
    /\ NoNode.state = "NONE"
    /\ \A n : Decided(n) \/ n.state = "SKIPPED" => n # NoNode /\ n.state # "NONE"
    /\ \A n : AuthOutcome(n) \/ SessionOutcome(n) => n # NoNode /\ n.state # "NONE"
  BY DEF NoNode, Decided, CutShort, AuthOutcome, SessionOutcome

\* An answer the peer named, or none.
LEMMA AnswerVerdict ==
    ASSUME NEW r, NEW e \in {"live"} \cup Endings,
           r \in Broken \cup {"notPermitted", "error", "notFound", "denied", "limitReached"}
    PROVE  Decided(classifyAnswer(r, e)) /\ classifyAnswer(r, e).state # "PASS"
<1>1. CASE r \in Broken
    BY <1>1, VerdictFacts
<1>2. CASE e = "live" /\ r \in {"notPermitted", "notFound", "denied", "limitReached"}
    BY <1>2 DEF classifyAnswer, NamedRefusals, Node, Decided
<1>3. CASE r \notin Broken /\ (e # "live" \/ r = "error")
  <2>1. classifyAnswer(r, e) = classifyBroken(r, e)
      BY <1>3 DEF classifyAnswer, NamedRefusals
  <2> QED
      BY <1>3, <2>1
      DEF classifyBroken, Node, Decided, CutShort, BudgetClasses, Endings
<1> QED
    BY <1>1, <1>2, <1>3

LEMMA AuthOutcomes ==
    ASSUME NEW r, NEW e \in {"live"} \cup Endings,
           r \in {"limit", "mismatch", "complete"} \cup Rejections \cup Broken
    PROVE  /\ AuthOutcome(classifyAuth(r, e))
           /\ classifyAuth(r, e).state = "PASS" => r = "complete"
<1> USE DEF AuthOutcome, Rejections
<1>1. CASE r = "complete"
    BY <1>1 DEF classifyAuth, Node
<1>2. CASE r # "complete" /\ e = "live" /\ r \in {"notPermitted", "mismatch", "rejected"}
    BY <1>2 DEF classifyAuth, classifyAnswer, NamedRefusals, Node
<1>3. CASE r # "complete" /\ (e # "live" \/ r \notin {"notPermitted", "mismatch", "rejected"})
  <2>1. classifyAuth(r, e) = classifyBroken(r, e)
      BY <1>3 DEF classifyAuth, classifyAnswer, NamedRefusals, Broken
  <2> QED
      BY <1>3, <2>1 DEF classifyBroken, Node, CutShort, BudgetClasses, Endings
<1> QED
    BY <1>1, <1>2, <1>3

\* What is said of the answer to the SSLRequest, to the startup and to the wait.
LEMMA SSLVerdict ==
    ASSUME NEW r \in SSLAnswers \cup Broken, NEW e \in {"live"} \cup Endings
    PROVE  /\ Decided(classifySSLResponse(r, e))
           /\ classifySSLResponse(r, e).state = "PASS" <=> r = "accepted"
  BY VerdictFacts DEF classifySSLResponse, SSLAnswers, Node, Decided, Broken

LEMMA StartupVerdict ==
    ASSUME NEW r \in Methods \cup {"notPermitted", "error"} \cup Broken,
           NEW e \in {"live"} \cup Endings
    PROVE  /\ Decided(classifyStartup(r, e))
           /\ classifyStartup(r, e).state = "PASS" <=> r \in Methods
  BY AnswerVerdict DEF classifyStartup, Node, Decided

LEMMA SessionVerdict ==
    ASSUME NEW r \in {"ready", "notFound", "denied", "limitReached", "error"} \cup Broken,
           NEW e \in {"live"} \cup Endings
    PROVE  SessionOutcome(classifySession(r, e))
<1>1. CASE r = "ready"
    BY <1>1 DEF classifySession, Node, SessionOutcome
<1>2. CASE e = "live" /\ r \in {"notFound", "denied", "limitReached"}
    BY <1>2
    DEF classifySession, classifyAnswer, NamedRefusals, Node, SessionOutcome, SessionClaims
<1>3. CASE r # "ready" /\ (e # "live" \/ r \notin {"notFound", "denied", "limitReached"})
  <2>1. classifySession(r, e) = classifyBroken(r, e) /\ r # "limit"
      BY <1>3 DEF classifySession, classifyAnswer, NamedRefusals, Broken
  <2> QED
      BY <1>3, <2>1
      DEF classifyBroken, Node, CutShort, BudgetClasses, Endings, SessionOutcome, SessionClaims
<1> QED
    BY <1>1, <1>2, <1>3

LEMMA DiscoveredIsTouched ==
    ASSUME NEW a, Discovered(a)
    PROVE  ~Untouched(a) /\ sslRequest[a] # NoNode /\ startup[a] # NoNode
  BY NotRecorded DEF Discovered, Untouched

LEMMA PostgresGraphInit == PostgresInit => PostgresGraphInv
<1> SUFFICES ASSUME PostgresInit PROVE PostgresGraphInv
    OBVIOUS
<1>1. EvidenceInv /\ WholePaths
    BY EvidenceInit, WholeInit DEF PostgresInit
<1>2. ReplyInv /\ DialledInv
    BY DEF PostgresInit, ReplyInv, DialledInv
<1>3. PathInv
    BY <1>1 DEF PostgresInit, PathInv, Untouched, InPath, BeforeTLS
<1>4. ResultInv
    BY DEF PostgresInit, ResultInv
<1> QED
    BY <1>1, <1>2, <1>3, <1>4 DEF PostgresGraphInv

-----------------------------------------------------------------------------
(* What steps of one kind keep.                                            *)

LEMMA EvidenceKept ==
    ASSUME EvidenceInv, pc = "returned", pc' \in {"returned", "closed"},
           UNCHANGED <<ctx, located, dns, tcp>>,
           \A a \in Addr : /\ Explicit(tls'[a])
                           /\ tls'[a].state = "SKIPPED" => tls'[a].class = "PREREQUISITE"
    PROVE  EvidenceInv'
  BY DEF EvidenceInv

LEMMA DialledKept ==
    ASSUME DialledInv, stage # "sweep", UNCHANGED <<located, tcp>>,
           \A a \in Addr : paths'[a].conn = paths[a].conn
    PROVE  DialledInv'
  BY DEF DialledInv

\* Nothing of this path changes but who holds its connection.
KeepsPath(a) ==
    /\ sslRequest'[a] = sslRequest[a] /\ startup'[a] = startup[a]
    /\ startupBlocker'[a] = startupBlocker[a] /\ method'[a] = method[a]
    /\ tls'[a] = tls[a] /\ paths'[a].conn = paths[a].conn

LEMMA KeptPath ==
    ASSUME plan' = plan, NEW a, KeepsPath(a)
    PROVE  (Untouched(a)' <=> Untouched(a)) /\ (Discovered(a)' <=> Discovered(a))
  BY DEF KeepsPath, Untouched, Discovered, MayStart

\* A step of the path in hand, ...
LEMMA PathAdvances ==
    ASSUME PathInv, UNCHANGED <<plan, todo, at>>, stage \in InPath, stage' \in InPath,
           todo \subseteq Addr, \A a \in Addr : a # at => KeepsPath(a),
           paths'[at].conn = paths[at].conn, PathInHand'
    PROVE  PathInv'
<1> USE DEF InPath, BeforeTLS
<1>1. \A a \in Addr : a # at =>
        (Untouched(a)' <=> Untouched(a)) /\ (Discovered(a)' <=> Discovered(a))
    BY KeptPath
<1> QED
    BY <1>1 DEF PathInv, KeepsPath

\* ... the last one of it, ...
LEMMA PathSettles ==
    ASSUME PathInv, UNCHANGED <<plan, todo, at>>, stage \in InPath, stage' = "paths",
           at \in Addr, todo \subseteq Addr, \A a \in Addr : a # at => KeepsPath(a),
           paths'[at].conn = paths[at].conn, Discovered(at)'
    PROVE  PathInv'
<1> USE DEF InPath, BeforeTLS
<1>1. \A a \in Addr : a # at =>
        (Untouched(a)' <=> Untouched(a)) /\ (Discovered(a)' <=> Discovered(a))
    BY KeptPath
<1>2. ~Untouched(at)'
    BY NotRecorded DEF Discovered, Untouched
<1> QED
    BY <1>1, <1>2 DEF PathInv, KeepsPath

\* ... and one once discover is over.
LEMMA PathsSettled ==
    ASSUME PathInv, UNCHANGED plan, ctx' = "live" => ctx = "live",
           stage \notin {"sweep", "paths", "failed"} \cup InPath,
           stage' \notin {"sweep", "paths", "failed"} \cup InPath,
           \A a \in Addr : KeepsPath(a)
    PROVE  PathInv'
<1>1. \A a \in Addr :
        (Untouched(a)' <=> Untouched(a)) /\ (Discovered(a)' <=> Discovered(a))
    BY KeptPath
<1> QED
    BY <1>1 DEF PathInv, KeepsPath

LEMMA DiscoveryKeepsResult ==
    ASSUME PostgresInv, stage \notin Chosen \cup {"leave", "done"},
           stage' \notin {"leave", "done"}, UNCHANGED <<auth, ready>>
    PROVE  ResultInv'
<1>1. auth' = NoNode /\ ready' = NoNode
    BY DEF PostgresInv, ProofInv, Chosen
<1> QED
    BY <1>1 DEF ResultInv

-----------------------------------------------------------------------------
(* Every step keeps the graph's invariant.                                 *)

LEMMA TransportingKeepsGraph ==
    ASSUME PostgresInv, PostgresGraphInv, Transporting
    PROVE  PostgresGraphInv'
<1> USE DEF postgresVars, postgresGraph, postgresInput
<1>1. /\ UNCHANGED <<plan, stage, todo, at, reply, sslRequest, startup, startupBlocker, method,
                     auth, ready, incomplete>>
      /\ stage \notin {"done", "failed"} /\ Candidates' = Candidates
    BY DEF Transporting, Candidates
<1>2. EvidenceInv' /\ (ctx' = "live" => ctx = "live")
    BY EvidenceRunStep, BudgetStaysEnded DEF Transporting, PostgresGraphInv, PostgresInv
<1>3. ReplyInv' /\ ResultInv'
    BY <1>1, <1>2 DEF PostgresGraphInv, ReplyInv, ResultInv
<1>4. CASE stage # "sweep"
  <2>1. UNCHANGED <<pc, paths, located, tcp, tls>>
      BY <1>1, <1>4, RunStepAfterReturn
      DEF Transporting, PostgresInv, SocketInv, ownerVars, graphVars, sweepVars, Ended
  <2>2. DialledInv'
      BY <1>4, <2>1, DialledKept DEF PostgresGraphInv
  <2>3. PathInv'
      BY <1>1, <1>2, <2>1, <1>4
      DEF PostgresGraphInv, PathInv, Untouched, Discovered, MayStart, PathInHand
  <2> QED
      BY <1>2, <1>3, <2>2, <2>3 DEF PostgresGraphInv
<1>5. CASE stage = "sweep"
  <2>1. DialledInv'
      BY <1>1, <1>5 DEF DialledInv
  <2>2. pc' # "failed" => WholePaths'
    <3>1. pc' # "failed" => pc # "failed"
        BY FailureIsFinal DEF Transporting
    <3> QED
        BY <1>5, <3>1, WholeRunStep
        DEF Transporting, PostgresGraphInv, PathInv, PostgresInv
  <2>3. PathInv'
      BY <1>1, <1>5, <2>2 DEF PostgresGraphInv, PathInv, Untouched, InPath, BeforeTLS
  <2> QED
      BY <1>2, <1>3, <2>1, <2>3 DEF PostgresGraphInv
<1> QED
    BY <1>4, <1>5

LEMMA BeginPathsKeepsGraph ==
    ASSUME PostgresInv, PostgresGraphInv, BeginPaths
    PROVE  PostgresGraphInv'
<1> USE DEF postgresGraph, postgresInput, InPath, BeforeTLS, Chosen, Proving
<1>1. /\ UNCHANGED <<ctx, pc, paths, located, tcp, tls>> /\ stage = "sweep" /\ stage' = "paths"
      /\ pc = "returned" /\ SweepInv /\ ~params.tls
    BY DEF BeginPaths, transportVars, clockVars, sweepVars, graphVars, ownerVars, PostgresInv,
           VerifiedInv
<1>2. EvidenceInv'
    BY EvidenceQuiet DEF BeginPaths, PostgresGraphInv
<1>3. ReplyInv' /\ ResultInv'
    BY <1>1, DiscoveryKeepsResult DEF BeginPaths, ReplyInv
<1>4. DialledInv' /\ \A a \in Addr : tls[a] = NoNode
  <2>1. /\ pending = {}
        /\ \A a \in Addr : Accounted(a) /\ ~HandshakeUnderway(a)
      BY <1>1 DEF SweepInv, AccountInv, CursorInv, HandshakeUnderway
  <2> QED
      BY <1>1, <2>1 DEF DialledInv, Accounted, Dealt, InHand
<1>5. PathInv'
    BY <1>1, <1>4, NotRecorded
    DEF BeginPaths, PostgresGraphInv, PathInv, Untouched, WholePaths
<1> QED
    BY <1>2, <1>3, <1>4, <1>5 DEF PostgresGraphInv

LEMMA NegotiateKeepsGraph ==
    ASSUME PostgresInv, PostgresGraphInv, NEW a \in Addr, Negotiate(a)
    PROVE  PostgresGraphInv'
<1> USE DEF postgresInput, InPath, BeforeTLS
<1>1. /\ UNCHANGED <<plan, ctx, pc, located, dns, tcp, tls, startup, startupBlocker, method, auth,
                     ready>>
      /\ pc = "returned" /\ stage = "paths" /\ at' = a /\ stage' \in {"startup", "ssl"}
      /\ todo' = todo \ {a} /\ a \in todo
    BY DEF Negotiate, sweepDone, clockVars, sweepVars, PostgresInv, SocketInv, Ended
<1>2. \A b \in Addr : paths'[b].conn = paths[b].conn
    BY HolderConn DEF Negotiate, PostgresInv, TransportTypeOK
<1>3. EvidenceInv'
    BY <1>1, EvidenceKept DEF PostgresGraphInv, EvidenceInv
<1>4. DialledInv'
    BY <1>1, <1>2, DialledKept DEF PostgresGraphInv
<1>5. ReplyInv' /\ ResultInv'
    BY <1>1, DiscoveryKeepsResult DEF ReplyInv, Chosen, Proving
<1>6. PathInv'
  <2>1. \A b \in Addr : b # a => KeepsPath(b)
      BY <1>1, <1>2 DEF Negotiate, KeepsPath, PostgresInv, PostgresTypeOK
  <2>2. \A b \in Addr : b # a =>
          (Untouched(b)' <=> Untouched(b)) /\ (Discovered(b)' <=> Discovered(b))
      BY <1>1, <2>1, KeptPath
  <2>3. Untouched(a) /\ tls[a].state # "FAIL"
      BY <1>1 DEF PostgresGraphInv, PathInv
  <2>4. PathInHand'
    <3>1. stage' = "startup" => sslRequest'[a].state = "SKIPPED" /\ plan # "required"
        BY DEF Negotiate, PostgresInv, PostgresTypeOK, Node
    <3> QED
        BY <1>1, <2>3, <3>1 DEF PathInHand, Untouched, MayStart
  <2> QED
      BY <1>1, <1>2, <2>1, <2>2, <2>4 DEF PostgresGraphInv, PathInv, PostgresInv, PostgresTypeOK
<1> QED
    BY <1>3, <1>4, <1>5, <1>6 DEF PostgresGraphInv

\* An exchange comes back, or the upgrade is agreed to.
LEMMA ExchangeKeepsGraph ==
    ASSUME PostgresInv, PostgresGraphInv,
           \/ SSLAccepted \/ \E r \in SSLAnswers \cup Broken : SSLReturns(r)
           \/ \E r \in Outcomes : UpgradeReturns(r)
           \/ \E r \in Methods \cup {"notPermitted", "error"} \cup Broken : StartupReturns(r)
    PROVE  PostgresGraphInv'
<1> USE DEF postgresGraph, postgresInput, InPath, BeforeTLS, Chosen, Proving
<1>1. /\ UNCHANGED <<transportVars, plan, todo, at, startup, startupBlocker, method, auth, ready>>
      /\ stage \in InPath /\ stage' \in InPath
    BY DEF SSLAccepted, SSLReturns, UpgradeReturns, StartupReturns, Comes
<1>2. UNCHANGED <<ctx, pc, paths, located, dns, tcp, tls>>
    BY <1>1 DEF transportVars, clockVars, sweepVars, graphVars, ownerVars
<1>3. EvidenceInv' /\ DialledInv'
    BY <1>1, <1>2, EvidenceQuiet, DialledKept DEF PostgresGraphInv
<1>4. ResultInv'
    BY <1>1, DiscoveryKeepsResult
<1>5. ReplyInv'
    BY DEF SSLAccepted, SSLReturns, UpgradeReturns, StartupReturns, Comes, ReplyInv
<1>6. PathInv'
  <2>1. /\ at \in Addr /\ todo \subseteq Addr /\ ctx \in {"live"} \cup Endings
        /\ sslRequest \in [Addr -> PostgresNodes] /\ PathInHand
      BY <1>1 DEF PostgresInv, PostgresTypeOK, TransportTypeOK, PostgresGraphInv, PathInv
  <2>2. /\ \A a \in Addr : a # at => sslRequest'[a] = sslRequest[a]
        /\ stage' = "upgrade" => sslRequest'[at].state = "PASS"
        /\ stage' # "upgrade" => sslRequest' = sslRequest
      BY <2>1, SSLVerdict
      DEF SSLAccepted, SSLReturns, UpgradeReturns, StartupReturns, Comes, SSLAnswers
  <2>3. PathInHand'
      BY <1>1, <1>2, <2>1, <2>2
      DEF SSLAccepted, SSLReturns, UpgradeReturns, StartupReturns, Comes, PathInHand, MayStart
  <2>4. \A a \in Addr : a # at => KeepsPath(a)
      BY <1>1, <1>2, <2>2 DEF KeepsPath
  <2> QED
      BY <1>1, <1>2, <2>1, <2>3, <2>4, PathAdvances DEF PostgresGraphInv
<1> QED
    BY <1>3, <1>4, <1>5, <1>6 DEF PostgresGraphInv

LEMMA SSLRefusedKeepsGraph ==
    ASSUME PostgresInv, PostgresGraphInv, SSLRefused
    PROVE  PostgresGraphInv'
<1> USE DEF postgresInput, InPath, BeforeTLS, Chosen, Proving
<1>1. /\ UNCHANGED <<ctx, pc, paths, located, dns, tcp, plan, todo, at, method, auth, ready>>
      /\ stage = "sslRead" /\ stage' = "paths" /\ pc = "returned"
      /\ at \in Addr /\ todo \subseteq Addr /\ ctx \in {"live"} \cup Endings
      /\ reply \in {"declined", "unexpected"} \cup Broken /\ method[at] = "none"
    BY DEF SSLRefused, SkipStartup, sweepDone, clockVars, sweepVars, PostgresInv, SocketInv, Ended,
           PostgresTypeOK, TransportTypeOK, PostgresGraphInv, ReplyInv, PathInv, PathInHand,
           SSLAnswers
<1>2. /\ \A a \in Addr : a # at => KeepsPath(a)
      /\ tls'[at] = Node("SKIPPED", "PREREQUISITE")
      /\ sslRequest'[at] = classifySSLResponse(reply, ctx)
      /\ startup'[at] = Node("SKIPPED", "PREREQUISITE") /\ startupBlocker'[at] = "ssl_request"
    BY <1>1 DEF SSLRefused, SkipStartup, KeepsPath, PostgresInv, PostgresTypeOK, TransportTypeOK
<1>3. EvidenceInv'
  <2>1. \A a \in Addr : /\ Explicit(tls'[a])
                        /\ tls'[a].state = "SKIPPED" => tls'[a].class = "PREREQUISITE"
      BY <1>2, ExplicitNodes DEF KeepsPath, PostgresGraphInv, EvidenceInv
  <2> QED
      BY <1>1, <2>1, EvidenceKept DEF PostgresGraphInv
<1>4. DialledInv' /\ ReplyInv' /\ ResultInv'
    BY <1>1, DialledKept, DiscoveryKeepsResult DEF PostgresGraphInv, ReplyInv
<1>5. PathInv'
  <2>1. Decided(sslRequest'[at]) /\ sslRequest'[at].state # "PASS"
      BY <1>1, <1>2, SSLVerdict DEF Broken, SSLAnswers
  <2>2. Discovered(at)'
      BY <1>1, <1>2, <2>1 DEF Discovered, Node, Decided, CutShort
  <2> QED
      BY <1>1, <1>2, <2>2, PathSettles DEF PostgresGraphInv
<1> QED
    BY <1>3, <1>4, <1>5 DEF PostgresGraphInv

LEMMA UpgradedKeepsGraph ==
    ASSUME PostgresInv, PostgresGraphInv, Upgraded
    PROVE  PostgresGraphInv'
<1> USE DEF postgresInput, postgresGraph, InPath, BeforeTLS, Chosen, Proving
<1>1. /\ UNCHANGED <<ctx, pc, paths, located, dns, tcp, plan, todo, at, sslRequest, startup,
                     startupBlocker, method, auth, ready>>
      /\ stage = "upgraded" /\ stage' = "startup" /\ pc = "returned"
      /\ at \in Addr /\ todo \subseteq Addr /\ ctx \in {"live"} \cup Endings
    BY DEF Upgraded, sweepDone, clockVars, sweepVars, PostgresInv, SocketInv, Ended,
           PostgresTypeOK, TransportTypeOK
<1>2. /\ \A a \in Addr : a # at => KeepsPath(a)
      /\ tls'[at] = classify("ok", ctx) /\ tls'[at].state = "PASS"
  <2>1. tls' = [tls EXCEPT ![at] = classify("ok", ctx)] /\ tls \in [Addr -> Nodes]
      BY DEF Upgraded, PostgresInv, TransportTypeOK
  <2>2. classify("ok", ctx).state = "PASS"
      BY DEF classify, Node
  <2> HIDE DEF postgresGraph
  <2>3. \A a \in Addr : a # at => tls'[a] = tls[a]
      BY <2>1
  <2>4. tls'[at] = classify("ok", ctx)
      BY <1>1, <2>1
  <2> QED
      BY <1>1, <2>2, <2>3, <2>4 DEF KeepsPath
<1>3. EvidenceInv'
  <2>1. \A a \in Addr : /\ Explicit(tls'[a])
                        /\ tls'[a].state = "SKIPPED" => tls'[a].class = "PREREQUISITE"
      BY <1>1, <1>2, ExplicitNodes DEF KeepsPath, PostgresGraphInv, EvidenceInv, Outcomes
  <2> QED
      BY <1>1, <2>1, EvidenceKept DEF PostgresGraphInv
<1>4. DialledInv' /\ ReplyInv' /\ ResultInv'
    BY <1>1, DialledKept, DiscoveryKeepsResult DEF PostgresGraphInv, ReplyInv
<1>5. PathInv'
  <2>1. PathInHand'
      BY <1>1, <1>2 DEF PostgresGraphInv, PathInv, PathInHand, MayStart
  <2> QED
      BY <1>1, <1>2, <2>1, PathAdvances DEF PostgresGraphInv
<1> QED
    BY <1>3, <1>4, <1>5 DEF PostgresGraphInv

LEMMA UpgradeFailedKeepsGraph ==
    ASSUME PostgresInv, PostgresGraphInv, UpgradeFailed
    PROVE  PostgresGraphInv'
<1> USE DEF postgresInput, InPath, BeforeTLS, Chosen, Proving
<1>1. /\ UNCHANGED <<ctx, pc, paths, located, dns, tcp, plan, todo, at, sslRequest, method, auth,
                     ready>>
      /\ stage = "upgraded" /\ stage' = "paths" /\ pc = "returned"
      /\ at \in Addr /\ todo \subseteq Addr /\ ctx \in {"live"} \cup Endings
      /\ reply \in Outcomes /\ reply # "ok" /\ method[at] = "none"
      /\ sslRequest[at].state = "PASS"
    BY DEF UpgradeFailed, SkipStartup, sweepDone, clockVars, sweepVars, PostgresInv, SocketInv,
           Ended, PostgresTypeOK, TransportTypeOK, PostgresGraphInv, PathInv, PathInHand
<1>2. /\ \A a \in Addr : a # at => KeepsPath(a)
      /\ tls'[at] = classify(reply, ctx)
      /\ startup'[at] = Node("SKIPPED", "PREREQUISITE") /\ startupBlocker'[at] = "tls"
    BY <1>1 DEF UpgradeFailed, SkipStartup, KeepsPath, PostgresInv, PostgresTypeOK, TransportTypeOK
<1>3. EvidenceInv'
  <2>1. \A a \in Addr : /\ Explicit(tls'[a])
                        /\ tls'[a].state = "SKIPPED" => tls'[a].class = "PREREQUISITE"
      BY <1>1, <1>2, ExplicitNodes DEF KeepsPath, PostgresGraphInv, EvidenceInv
  <2> QED
      BY <1>1, <2>1, EvidenceKept DEF PostgresGraphInv
<1>4. DialledInv' /\ ReplyInv' /\ ResultInv'
    BY <1>1, DialledKept, DiscoveryKeepsResult DEF PostgresGraphInv, ReplyInv
<1>5. PathInv'
  <2>1. tls'[at].state \in {"FAIL", "UNKNOWN"}
      BY <1>1, <1>2 DEF classify, Node, Endings, Outcomes
  <2>2. Discovered(at)'
      BY <1>1, <1>2, <2>1 DEF Discovered, Node, Decided, CutShort
  <2> QED
      BY <1>1, <1>2, <2>2, PathSettles DEF PostgresGraphInv
<1> QED
    BY <1>3, <1>4, <1>5 DEF PostgresGraphInv

LEMMA RecordStartupKeepsGraph ==
    ASSUME PostgresInv, PostgresGraphInv, RecordStartup
    PROVE  PostgresGraphInv'
<1> USE DEF postgresInput, InPath, BeforeTLS, Chosen, Proving
<1>1. /\ UNCHANGED <<ctx, pc, paths, located, dns, tcp, tls, plan, todo, at, sslRequest,
                     startupBlocker, auth, ready>>
      /\ stage = "started" /\ stage' = "paths" /\ pc = "returned"
      /\ at \in Addr /\ todo \subseteq Addr /\ ctx \in {"live"} \cup Endings
      /\ reply \in Methods \cup {"notPermitted", "error"} \cup Broken
      /\ startupBlocker[at] = "none" /\ MayStart(at)
    BY DEF RecordStartup, sweepDone, clockVars, sweepVars, PostgresInv, SocketInv,
           Ended, PostgresTypeOK, TransportTypeOK, PostgresGraphInv, ReplyInv, PathInv, PathInHand
<1>2. /\ \A a \in Addr : a # at => KeepsPath(a)
      /\ startup'[at] = classifyStartup(reply, ctx) /\ method'[at] = methodOf(reply)
    BY <1>1 DEF RecordStartup, KeepsPath, PostgresInv, PostgresTypeOK
<1>3. EvidenceInv'
    BY <1>1, EvidenceKept DEF PostgresGraphInv, EvidenceInv
<1>4. DialledInv' /\ ReplyInv' /\ ResultInv'
    BY <1>1, DialledKept, DiscoveryKeepsResult DEF PostgresGraphInv, ReplyInv
<1>5. PathInv'
  <2>0. Decided(startup'[at]) /\ (startup'[at].state = "PASS" <=> reply \in Methods)
      BY <1>1, <1>2, StartupVerdict
  <2>1. /\ Decided(startup'[at])
        /\ startup'[at].state = "PASS" <=> method'[at] # "none"
      BY <1>2, <2>0 DEF methodOf, Methods
  <2>2. MayStart(at)' /\ (Decided(sslRequest[at]) \/ sslRequest[at].state = "SKIPPED")
      BY <1>1 DEF MayStart, Decided
  <2>3. Discovered(at)'
      BY <1>1, <2>1, <2>2 DEF Discovered
  <2> QED
      BY <1>1, <1>2, <2>3, PathSettles DEF PostgresGraphInv
<1> QED
    BY <1>3, <1>4, <1>5 DEF PostgresGraphInv

LEMMA PathsDoneKeepsGraph ==
    ASSUME PostgresInv, PostgresGraphInv, PathsDone
    PROVE  PostgresGraphInv'
<1> USE DEF postgresInput, postgresGraph, InPath, BeforeTLS, Chosen, Proving
<1>1. /\ UNCHANGED <<ctx, pc, paths, located, dns, tcp, tls, plan, sslRequest, startup,
                     startupBlocker, method, auth, ready>>
      /\ stage = "paths" /\ stage' = "select" /\ (todo = {} \/ ctx # "live")
    BY DEF PathsDone, transportVars, clockVars, sweepVars, graphVars, ownerVars
<1>2. EvidenceInv' /\ DialledInv' /\ ReplyInv' /\ ResultInv'
    BY <1>1, EvidenceQuiet, DialledKept, DiscoveryKeepsResult
    DEF PathsDone, PostgresGraphInv, ReplyInv
<1>3. PathInv'
    BY <1>1 DEF PostgresGraphInv, PathInv, Untouched, Discovered, MayStart
<1> QED
    BY <1>2, <1>3 DEF PostgresGraphInv

LEMMA FailKeepsGraph ==
    ASSUME PostgresInv, PostgresGraphInv, Fail
    PROVE  PostgresGraphInv'
<1> USE DEF postgresInput, postgresGraph, InPath, BeforeTLS, Chosen, Proving
<1>1. /\ UNCHANGED <<ctx, located, dns, tcp, tls, auth, ready>> /\ stage' = "failed"
      /\ stage \in InPath /\ pc = "returned" /\ pc' = "closed"
    BY DEF Fail, clockVars, sweepVars, graphVars, PostgresInv, SocketInv, Ended
<1>2. \A b \in Addr : paths'[b].conn = paths[b].conn
    BY HolderConn DEF Fail, PostgresInv, TransportTypeOK
<1>3. EvidenceInv'
    BY <1>1, EvidenceKept DEF PostgresGraphInv, EvidenceInv
<1>4. DialledInv' /\ ReplyInv' /\ ResultInv'
    BY <1>1, <1>2, DialledKept, DiscoveryKeepsResult DEF PostgresGraphInv, ReplyInv
<1>5. PathInv'
    BY <1>1 DEF PathInv
<1> QED
    BY <1>3, <1>4, <1>5 DEF PostgresGraphInv

LEMMA DiscoveringKeepsGraph == PostgresInv /\ PostgresGraphInv /\ Discovering => PostgresGraphInv'
  BY BeginPathsKeepsGraph, NegotiateKeepsGraph, ExchangeKeepsGraph, SSLRefusedKeepsGraph,
     UpgradedKeepsGraph, UpgradeFailedKeepsGraph, RecordStartupKeepsGraph, PathsDoneKeepsGraph,
     FailKeepsGraph
  DEF Discovering

\* Past the selection nothing of a path changes any more.
LEMMA ChosenKeepsPaths ==
    ASSUME PostgresInv, PostgresGraphInv, UNCHANGED <<sweepDone, tls, paths>>,
           UNCHANGED <<plan, sslRequest, startup, startupBlocker, method>>,
           stage \in {"select"} \cup Chosen, stage' \in {"leave"} \cup Chosen
    PROVE  EvidenceInv' /\ DialledInv' /\ PathInv'
<1> USE DEF Chosen, Proving, InPath, BeforeTLS, sweepDone, clockVars, sweepVars
<1>1. pc = "returned" /\ \A a \in Addr : KeepsPath(a)
    BY DEF PostgresInv, SocketInv, Ended, KeepsPath
<1>2. EvidenceInv'
    BY <1>1, EvidenceKept DEF PostgresGraphInv, EvidenceInv
<1>3. DialledInv' /\ PathInv'
    BY <1>1, DialledKept, PathsSettled DEF PostgresGraphInv
<1> QED
    BY <1>2, <1>3

LEMMA QuietTransport ==
    UNCHANGED transportVars => UNCHANGED <<sweepDone, tls, paths>> /\ UNCHANGED ctx
  BY DEF transportVars, sweepDone, clockVars, graphVars, ownerVars

\* The steps of the chosen path that record nothing.
LEMMA ChosenMovesGraph ==
    ASSUME PostgresInv, PostgresGraphInv,
           \/ NothingToSelect \/ Trusted \/ BeginSCRAM
           \/ \E r \in {"challenge", "limit"} \cup Rejections \cup Broken : ServerFirst(r)
           \/ \E r \in {"signature", "mismatch", "limit"} \cup Rejections \cup Broken : ServerFinal(r)
           \/ \E r \in {"complete"} \cup Rejections \cup Broken : AuthenticationOk(r)
           \/ \E r \in {"ready", "notFound", "denied", "limitReached", "error"} \cup Broken :
                SessionReturns(r)
    PROVE  PostgresGraphInv'
<1> USE DEF postgresInput, postgresGraph, Chosen, Proving
<1>1. /\ UNCHANGED <<transportVars, plan, sslRequest, startup, startupBlocker, method, auth, ready,
                     at>>
      /\ stage \in {"select"} \cup Chosen /\ stage' \in {"leave"} \cup Chosen
      /\ stage' = "leave" => stage = "select" /\ Candidates = {}
    BY DEF NothingToSelect, Trusted, BeginSCRAM, ServerFirst, ServerFinal, AuthenticationOk,
           SessionReturns, Comes
<1>2. EvidenceInv' /\ DialledInv' /\ PathInv' /\ ctx' = ctx
    BY <1>1, ChosenKeepsPaths, QuietTransport
<1>3. ReplyInv'
    BY DEF NothingToSelect, Trusted, BeginSCRAM, ServerFirst, ServerFinal, Verify,
           AuthenticationOk, SessionReturns, Comes, ReplyInv, Broken, Rejections
<1>4. ResultInv'
  <2>1. Candidates' = Candidates
      BY <1>1 DEF Candidates
  <2>2. stage' = "leave" => auth.state # "PASS"
      BY <1>1, NotRecorded DEF PostgresInv, ProofInv
  <2> QED
      BY <1>1, <1>2, <2>1, <2>2 DEF PostgresGraphInv, ResultInv
<1> QED
    BY <1>2, <1>3, <1>4 DEF PostgresGraphInv

LEMMA SelectKeepsGraph ==
    ASSUME PostgresInv, PostgresGraphInv, NEW a \in Addr, Select(a)
    PROVE  PostgresGraphInv'
<1> USE DEF postgresInput, postgresGraph, Chosen, Proving
<1>1. /\ UNCHANGED <<sweepDone, tls, paths, plan, sslRequest, startup, startupBlocker, method, auth,
                     ready>>
      /\ stage = "select" /\ stage' \in {"leave", "authenticate"}
      /\ stage' = "leave" => ctx # "live"
      /\ ctx' = ctx
    BY DEF Select, sweepDone, clockVars
<1>2. EvidenceInv' /\ DialledInv' /\ PathInv'
    BY <1>1, ChosenKeepsPaths
<1>3. auth = NoNode /\ ready = NoNode
    BY <1>1 DEF PostgresInv, ProofInv
<1>4. ReplyInv' /\ ResultInv'
    BY <1>1, <1>3, NotRecorded DEF ReplyInv, ResultInv
<1> QED
    BY <1>2, <1>4 DEF PostgresGraphInv

LEMMA RefusalOutcome ==
    ASSUME method[at] \in Methods \ {"ok"}
    PROVE  AuthOutcome(Refusal) /\ Refusal.state # "PASS"
  BY DEF Refusal, Node, AuthOutcome, Methods

LEMMA RecordingKeepsGraph ==
    ASSUME PostgresInv, PostgresGraphInv, Withhold \/ RecordAuth \/ RecordSession
    PROVE  PostgresGraphInv'
<1> USE DEF postgresInput, Chosen, Proving
<1>1. /\ UNCHANGED <<sweepDone, tls, paths, plan, sslRequest, startup, startupBlocker, method, at>>
      /\ stage \in Chosen /\ stage' \in {"leave", "session"}
      /\ ctx' = ctx /\ ctx \in {"live"} \cup Endings
    BY DEF Withhold, RecordAuth, RecordSession, sweepDone, clockVars, PostgresInv, TransportTypeOK
<1>2. EvidenceInv' /\ DialledInv' /\ PathInv'
    BY <1>1, ChosenKeepsPaths
<1>3. at \in Candidates /\ Candidates' = Candidates /\ method[at] \in Methods
    BY <1>1 DEF Candidates, PostgresInv, SocketInv, PostgresTypeOK
<1>4. ReplyInv'
    BY <1>1 DEF ReplyInv
<1>5. CASE Withhold \/ RecordAuth
  <2>1. stage # "session" /\ stage # "sessionRead" /\ ready = NoNode /\ ready' = ready
      BY <1>5 DEF Withhold, RecordAuth, PostgresInv, ProofInv
  <2>2. AuthOutcome(auth') /\ (stage' = "leave" => auth'.state # "PASS")
    <3>1. CASE Withhold
        BY <1>3, <3>1, RefusalOutcome DEF Withhold
    <3>2. CASE RecordAuth
        BY <1>1, <3>2, AuthOutcomes DEF RecordAuth, PostgresGraphInv, ReplyInv
    <3> QED
        BY <1>5, <3>1, <3>2
  <2>3. auth' # NoNode
      BY <2>2, NotRecorded
  <2>4. ResultInv'
      BY <1>1, <1>3, <2>1, <2>2, <2>3 DEF ResultInv
  <2> QED
      BY <1>2, <1>4, <2>4 DEF PostgresGraphInv
<1>6. CASE RecordSession
  <2>1. auth' = auth /\ SessionOutcome(ready') /\ stage' = "leave"
      BY <1>1, <1>6, SessionVerdict DEF RecordSession, PostgresGraphInv, ReplyInv
  <2>2. ready' # NoNode
      BY <2>1, NotRecorded
  <2>3. ResultInv'
      BY <1>1, <1>3, <2>1, <2>2 DEF PostgresGraphInv, ResultInv
  <2> QED
      BY <1>2, <1>4, <2>3 DEF PostgresGraphInv
<1> QED
    BY <1>5, <1>6

LEMMA LeaveKeepsGraph == PostgresInv /\ PostgresGraphInv /\ Leave => PostgresGraphInv'
<1> SUFFICES ASSUME PostgresInv, PostgresGraphInv, Leave PROVE PostgresGraphInv'
    OBVIOUS
<1> USE DEF postgresInput, postgresGraph, clockVars, sweepVars, graphVars
<1>1. /\ UNCHANGED <<ctx, located, dns, tcp, tls, plan, sslRequest, startup, startupBlocker,
                     method, auth, ready, at>>
      /\ stage = "leave" /\ stage' = "done" /\ pc' = "closed" /\ pc = "returned"
    BY DEF Leave, PostgresInv, SocketInv, Ended
<1>2. \A b \in Addr : paths'[b].conn = paths[b].conn
    BY HolderConn DEF Leave, PostgresInv, TransportTypeOK
<1>3. EvidenceInv' /\ DialledInv'
    BY <1>1, <1>2, EvidenceKept, DialledKept DEF PostgresGraphInv, EvidenceInv
<1>4. PathInv'
  <2>1. \A a \in Addr : KeepsPath(a)
      BY <1>1, <1>2 DEF KeepsPath
  <2> QED
      BY <1>1, <2>1, PathsSettled DEF PostgresGraphInv, InPath, BeforeTLS
<1>5. ReplyInv'
    BY <1>1 DEF ReplyInv
<1>6. ResultInv'
  <2>1. Recorded' = Recorded /\ established' = established /\ Candidates' = Candidates
      BY <1>1 DEF Recorded, SweepNodes, established, Candidates
  <2>2. incomplete' <=> incompleteRun(Recorded, established)'
      BY <1>1, <2>1 DEF Leave, incompleteRun
  <2> QED
      BY <1>1, <2>1, <2>2 DEF PostgresGraphInv, ResultInv
<1> QED
    BY <1>3, <1>4, <1>5, <1>6 DEF PostgresGraphInv

LEMMA PostgresGraphStep ==
    PostgresInv /\ PostgresGraphInv /\ [PostgresNext]_journeyVars => PostgresGraphInv'
<1> SUFFICES ASSUME PostgresInv, PostgresGraphInv, [PostgresNext]_journeyVars
             PROVE  PostgresGraphInv'
    OBVIOUS
<1>1. CASE UNCHANGED journeyVars
  <2>1. /\ UNCHANGED <<postgresVars, ctx, pc, paths, located, dns, tcp, tls>> /\ EvidenceInv'
      BY <1>1, EvidenceQuiet
      DEF PostgresGraphInv, journeyVars, transportVars, clockVars, sweepVars, graphVars, ownerVars
  <2>2. DialledInv' /\ ReplyInv'
      BY <2>1 DEF PostgresGraphInv, DialledInv, ReplyInv, postgresVars
  <2>3. PathInv'
      BY <2>1
      DEF PostgresGraphInv, PathInv, Untouched, Discovered, MayStart, PathInHand, WholePaths,
          postgresVars, postgresGraph, postgresInput
  <2>4. Recorded' = Recorded /\ established' = established /\ Candidates' = Candidates
      BY <2>1 DEF Recorded, SweepNodes, established, Candidates, postgresVars, postgresGraph
  <2>5. ResultInv'
      BY <2>1, <2>4
      DEF PostgresGraphInv, ResultInv, incompleteRun, postgresVars, postgresGraph
  <2> QED
      BY <2>1, <2>2, <2>3, <2>5 DEF PostgresGraphInv
<1> QED
    BY <1>1, TransportingKeepsGraph, DiscoveringKeepsGraph, ChosenMovesGraph, SelectKeepsGraph,
       RecordingKeepsGraph, LeaveKeepsGraph
    DEF PostgresNext, PostgresOver, Authenticating, Establishing

-----------------------------------------------------------------------------
(* What the rules make of the graph.                                       *)

LEMMA PostgresEvFacts ==
    /\ \A a \in Addr : /\ sslEv(a).step = "postgres.ssl_request" /\ sslEv(a).layer = 3
                       /\ sslEv(a).subject = Address(a)
                       /\ sslEv(a).state = sslRequest[a].state
                       /\ startupEv(a).step = "postgres.startup" /\ startupEv(a).layer = 4
                       /\ startupEv(a).subject = Address(a)
                       /\ startupEv(a).state = startup[a].state
                       /\ handshakeEv(a).layer = 3 /\ handshakeEv(a).state = tls[a].state
    /\ authEv.step = "postgres.authentication" /\ authEv.layer = 5
    /\ authEv.subject = Address(at) /\ authEv.state = auth.state /\ authEv.class = auth.class
    /\ sessionEv.step = "postgres.session" /\ sessionEv.layer = 5
    /\ sessionEv.subject = Address(at)
    /\ sessionEv.state = ready.state /\ sessionEv.class = ready.class
    /\ targetEv.step = "target.requested" /\ targetEv.layer = 0 /\ targetEv.state = "PASS"
  BY RecordedFacts DEF sslEv, startupEv, handshakeEv, authEv, sessionEv, targetEv, Node

\* The nodes of each step, and no others.
LEMMA PostgresNodesAt ==
    /\ \A e \in nodesAt(PostgresEvidence, "postgres.ssl_request") :
          e \in PostgresEvidence /\ \E a \in Addr : e = sslEv(a)
    /\ \A e \in nodesAt(PostgresEvidence, "postgres.startup") :
          e \in PostgresEvidence /\ \E a \in Addr : e = startupEv(a)
    /\ \A e \in nodesAt(PostgresEvidence, "postgres.authentication") :
          e \in PostgresEvidence /\ e = authEv
    /\ \A e \in nodesAt(PostgresEvidence, "postgres.session") :
          e \in PostgresEvidence /\ e = sessionEv
    /\ \A a \in Addr : sslRequest[a].state # "NONE" =>
          sslEv(a) \in nodesAt(PostgresEvidence, "postgres.ssl_request")
    /\ \A a \in Addr : startup[a].state # "NONE" =>
          startupEv(a) \in nodesAt(PostgresEvidence, "postgres.startup")
    /\ auth.state # "NONE" => authEv \in nodesAt(PostgresEvidence, "postgres.authentication")
    /\ ready.state # "NONE" => sessionEv \in nodesAt(PostgresEvidence, "postgres.session")
    /\ targetEv \in PostgresEvidence /\ SweepEvidence \subseteq PostgresEvidence
    /\ \A e \in PostgresEvidence : e.layer \in 0..6
  BY PostgresEvFacts, SweepSteps DEF PostgresEvidence, RecordedIn, nodesAt

\* The path of a session that was established has nothing against it.
LEMMA EstablishedPath ==
    ASSUME PostgresInv, PostgresGraphInv, stage = "done", established
    PROVE  /\ sslRequest[at].state # "FAIL" /\ tls[at].state # "FAIL"
           /\ startup[at].state # "FAIL" /\ auth.state # "FAIL"
<1>1. ready # NoNode
    BY DEF established, NoNode
<1>2. at \in Candidates /\ at \in Addr /\ (auth = NoNode \/ auth.state = "PASS")
    BY <1>1 DEF PostgresInv, ProofInv, Mutual, PostgresTypeOK, PostgresGraphInv, ResultInv
<1>3. Discovered(at) /\ method[at] # "none"
    BY <1>2 DEF PostgresGraphInv, PathInv, Untouched, Candidates, InPath, BeforeTLS
<1> QED
    BY <1>2, <1>3 DEF Discovered, MayStart, NoNode

\* What every rule but the admission scope owes: its evidence is there, and was
\* not cut short; an ERROR rests on a failure of its own layer, and says
\* nothing against an endpoint that reached ReadyForQuery.
PostgresClaim(f) ==
    /\ f.refs # {} /\ f.refs \subseteq PostgresEvidence /\ \A e \in f.refs : ~CutShort(e)
    /\ f.code # "POSTGRES_ADMISSION_SCOPE" /\ f.severity # "CRITICAL"
    /\ f.severity = "ERROR" => \E e \in f.refs : e.state = "FAIL" /\ e.layer = f.layer
    /\ f.severity = "ERROR" /\ f.subject = Address(at) => ~established

LEMMA ClaimFacts ==
    ASSUME NEW code, NEW e, NEW refs
    PROVE  /\ Claim(code, e, refs).code = code /\ Claim(code, e, refs).severity = "ERROR"
           /\ Claim(code, e, refs).layer = e.layer /\ Claim(code, e, refs).subject = e.subject
           /\ Claim(code, e, refs).refs = refs \cup {e}
  BY FindingFacts DEF Claim

LEMMA SSLRequestClaims ==
    ASSUME PostgresInv, PostgresGraphInv, stage = "done", NEW f \in SSLRequest
    PROVE  PostgresClaim(f)
<1>1. PICK e \in nodesAt(PostgresEvidence, "postgres.ssl_request") :
        /\ e.state = "FAIL"
        /\ f = Claim(IF e.class = "UNSUPPORTED_CAPABILITY" THEN "POSTGRES_TLS_DECLINED"
                     ELSE "POSTGRES_SSL_NEGOTIATION_FAILED", e, {})
    BY DEF SSLRequest
<1>2. /\ f.refs = {e} /\ f.layer = e.layer /\ f.subject = e.subject /\ f.severity = "ERROR"
      /\ f.code # "POSTGRES_ADMISSION_SCOPE"
    BY <1>1, ClaimFacts
<1>3. PICK a \in Addr : e = sslEv(a)
    BY PostgresNodesAt
<1>4. sslRequest[a].state = "FAIL" /\ e.subject = Address(a) /\ e \in PostgresEvidence
    BY <1>1, <1>3, PostgresEvFacts, PostgresNodesAt
<1>5. e.subject = Address(at) => ~established
    BY <1>4, SubjectFacts, EstablishedPath
<1> QED
    BY <1>1, <1>2, <1>4, <1>5 DEF PostgresClaim, CutShort

LEMMA PostgresTLSClaims ==
    ASSUME PostgresInv, PostgresGraphInv, stage = "done", NEW f \in PostgresTLS
    PROVE  PostgresClaim(f)
<1>1. PICK a \in Addr : /\ tls[a].state = "FAIL" /\ sslRequest[a].state = "PASS"
                        /\ f = Claim("POSTGRES_TLS", handshakeEv(a), {sslEv(a)})
    BY DEF PostgresTLS
<1>2. /\ f.refs = {sslEv(a), handshakeEv(a)} /\ f.layer = 3 /\ f.subject = Address(a)
      /\ f.severity = "ERROR" /\ f.code = "POSTGRES_TLS"
    BY <1>1, ClaimFacts, RecordedFacts DEF handshakeEv
<1>3. handshakeEv(a) \in PostgresEvidence /\ sslEv(a) \in PostgresEvidence
    BY <1>1, SweepIsRecorded, PostgresNodesAt DEF nodesAt
<1>4. f.subject = Address(at) => ~established
    BY <1>1, <1>2, SubjectFacts, EstablishedPath
<1>5. /\ handshakeEv(a).state = "FAIL" /\ handshakeEv(a).layer = 3
      /\ ~CutShort(handshakeEv(a)) /\ ~CutShort(sslEv(a))
    BY <1>1, PostgresEvFacts DEF CutShort
<1> QED
    BY <1>2, <1>3, <1>4, <1>5 DEF PostgresClaim

LEMMA StartupClaims ==
    ASSUME PostgresInv, PostgresGraphInv, stage = "done", NEW f \in Startup
    PROVE  PostgresClaim(f)
<1>1. PICK e \in nodesAt(PostgresEvidence, "postgres.startup") :
        /\ e.state = "FAIL"
        /\ f = Claim(IF e.class = "NOT_PERMITTED" THEN "POSTGRES_CONNECTION_NOT_PERMITTED"
                     ELSE "POSTGRES_STARTUP_FAILED", e, {})
    BY DEF Startup
<1>2. /\ f.refs = {e} /\ f.layer = e.layer /\ f.subject = e.subject /\ f.severity = "ERROR"
      /\ f.code # "POSTGRES_ADMISSION_SCOPE"
    BY <1>1, ClaimFacts
<1>3. PICK a \in Addr : e = startupEv(a)
    BY PostgresNodesAt
<1>4. startup[a].state = "FAIL" /\ e.subject = Address(a) /\ e \in PostgresEvidence
    BY <1>1, <1>3, PostgresEvFacts, PostgresNodesAt
<1>5. e.subject = Address(at) => ~established
    BY <1>4, SubjectFacts, EstablishedPath
<1> QED
    BY <1>1, <1>2, <1>4, <1>5 DEF PostgresClaim, CutShort

\* The startup the selected path got through, which both verdicts cite.
LEMMA ChosenStartup ==
    ASSUME PostgresInv, PostgresGraphInv, auth # NoNode \/ ready # NoNode
    PROVE  /\ at \in Addr /\ startup[at].state = "PASS" /\ startupEv(at).state = "PASS"
           /\ startupEv(at) \in PostgresEvidence
<1>1. at \in Candidates /\ at \in Addr
    BY DEF PostgresGraphInv, ResultInv, PostgresInv, PostgresTypeOK
<1>2. startup[at].state = "PASS"
    BY <1>1 DEF PostgresInv, MethodInv, Candidates
<1> QED
    BY <1>1, <1>2, PostgresEvFacts, PostgresNodesAt

\* What the rule makes of each class an authentication can end in.
LEMMA AuthenticationSeverity ==
    ASSUME NEW n, AuthOutcome(n), n.state # "PASS"
    PROVE  n.class \in DOMAIN AuthenticationClaims =>
             /\ ~CutShort(n)
             /\ AuthenticationClaims[n.class][1] # "POSTGRES_ADMISSION_SCOPE"
             /\ AuthenticationClaims[n.class][2] \in {"ERROR", "WARN", "INFO"}
             /\ AuthenticationClaims[n.class][2] = "ERROR" => n.state = "FAIL"
             /\ n.state \in {"FAIL", "SKIPPED"} => AuthenticationClaims[n.class][2] # "INFO"
<1>1. /\ DOMAIN AuthenticationClaims =
           {"REJECTED", "PEER_VERIFICATION", "NOT_PERMITTED", "MECHANISM_NOT_OFFERED", "TARGET",
            "MECHANISM_UNSUPPORTED", "UNSUPPORTED", "POLICY", "INPUT_MISSING"}
      /\ \A c \in {"REJECTED", "PEER_VERIFICATION", "NOT_PERMITTED", "TARGET"} :
            AuthenticationClaims[c][2] = "ERROR"
      /\ \A c \in {"MECHANISM_NOT_OFFERED", "POLICY", "INPUT_MISSING"} :
            AuthenticationClaims[c][2] = "WARN"
      /\ \A c \in {"MECHANISM_UNSUPPORTED", "UNSUPPORTED"} : AuthenticationClaims[c][2] = "INFO"
      /\ \A c \in DOMAIN AuthenticationClaims :
            AuthenticationClaims[c][1] # "POSTGRES_ADMISSION_SCOPE"
    BY DEF AuthenticationClaims
<1> QED
    BY <1>1 DEF AuthOutcome, CutShort, BudgetClasses

LEMMA AuthenticationRuleClaims ==
    ASSUME PostgresInv, PostgresGraphInv, stage = "done", NEW f \in evaluateAuthentication
    PROVE  PostgresClaim(f)
<1>1. PICK e \in nodesAt(PostgresEvidence, "postgres.authentication") :
        /\ e.state # "PASS" /\ e.class \in DOMAIN AuthenticationClaims
        /\ f = Finding(AuthenticationClaims[e.class][1], AuthenticationClaims[e.class][2], 5,
                       e.subject, {e, startupEv(at)})
    BY DEF evaluateAuthentication
<1>2. e = authEv /\ e \in PostgresEvidence
    BY PostgresNodesAt
<1>3. e.layer = 5 /\ e.state = auth.state /\ e.class = auth.class /\ e.subject = Address(at)
    BY <1>2, PostgresEvFacts
<1>4. auth # NoNode
  <2>1. NoNode.class \notin DOMAIN AuthenticationClaims
      BY DEF NoNode, AuthenticationClaims
  <2> QED
      BY <1>1, <1>3, <2>1
<1>5. /\ ~CutShort(auth) /\ f.code # "POSTGRES_ADMISSION_SCOPE" /\ f.severity # "CRITICAL"
      /\ f.severity = "ERROR" => auth.state = "FAIL"
      /\ f.layer = 5 /\ f.subject = Address(at) /\ f.refs = {e, startupEv(at)}
  <2>1. AuthOutcome(auth)
      BY <1>4 DEF PostgresGraphInv, ResultInv
  <2> QED
      BY <1>1, <1>3, <2>1, AuthenticationSeverity, FindingFacts
<1>6. startupEv(at) \in PostgresEvidence /\ ~CutShort(startupEv(at)) /\ ~CutShort(e)
    BY <1>3, <1>4, <1>5, ChosenStartup DEF CutShort
<1>7. f.severity = "ERROR" => ~established
    BY <1>5, EstablishedPath
<1> QED
    BY <1>2, <1>3, <1>5, <1>6, <1>7 DEF PostgresClaim

\* Whoever proved what, the session rule cites nodes that passed.
LEMMA ProofIsRecorded ==
    ASSUME PostgresInv, PostgresGraphInv, auth # NoNode \/ ready # NoNode,
           NEW e \in authenticationProof
    PROVE  e \in PostgresEvidence /\ e.state = "PASS"
<1>1. CASE e \in {n \in {authEv} : n.state = "PASS"}
    BY <1>1, PostgresNodesAt, PostgresEvFacts DEF nodesAt
<1>2. CASE e = startupEv(at)
    BY <1>2, ChosenStartup
<1> QED
    BY <1>1, <1>2 DEF authenticationProof

LEMMA SessionRuleClaims ==
    ASSUME PostgresInv, PostgresGraphInv, stage = "done", NEW f \in evaluateSession
    PROVE  PostgresClaim(f)
<1>1. PICK e \in nodesAt(PostgresEvidence, "postgres.session") :
        /\ e.state = "FAIL"
        /\ f = Claim(SessionClaims[e.class], e, authenticationProof \cup {startupEv(at)})
    BY DEF evaluateSession
<1>2. /\ e \in PostgresEvidence /\ e.layer = 5 /\ e.state = ready.state /\ e.class = ready.class
      /\ e.subject = Address(at)
    BY PostgresNodesAt, PostgresEvFacts
<1>3. ready # NoNode /\ ready.state = "FAIL"
    BY <1>1, <1>2 DEF NoNode
<1>4. SessionClaims[e.class] # "POSTGRES_ADMISSION_SCOPE"
  <2>1. ready.class \in DOMAIN SessionClaims
      BY <1>3 DEF PostgresGraphInv, ResultInv, SessionOutcome, CutShort
  <2> QED
      BY <1>2, <2>1 DEF SessionClaims
<1>5. /\ f.refs = authenticationProof \cup {startupEv(at), e} /\ f.layer = 5
      /\ f.severity = "ERROR" /\ f.code # "POSTGRES_ADMISSION_SCOPE"
    BY <1>1, <1>2, <1>4, ClaimFacts
<1>6. \A n \in f.refs : n \in PostgresEvidence /\ n.state \in {"PASS", "FAIL"}
    BY <1>1, <1>2, <1>3, <1>5, ProofIsRecorded, ChosenStartup
<1>7. ~established
    BY <1>3 DEF established
<1> QED
    BY <1>1, <1>2, <1>5, <1>6, <1>7 DEF PostgresClaim, CutShort

\* Only what the server itself decided is said of all the addresses.
LEMMA AdmissionClaims ==
    ASSUME NEW f \in AdmissionScope
    PROVE  /\ f.refs # {} /\ f.refs \subseteq PostgresEvidence /\ f.severity = "INFO"
           /\ f.code = "POSTGRES_ADMISSION_SCOPE" =>
                \A e \in f.refs : e.state = "PASS" \/ e.class = "NOT_PERMITTED"
<1> DEFINE startups == nodesAt(PostgresEvidence, "postgres.startup")
           Undetermined == {e \in startups : classifyAdmission(e) = "undetermined"}
           complete == Undetermined = {} /\ ~incomplete
<1>1. f = Finding(IF complete THEN "POSTGRES_ADMISSION_SCOPE"
                  ELSE "POSTGRES_ADMISSION_SCOPE_INCOMPLETE",
                  "INFO", 4, Target, startups \cup {targetEv})
    BY DEF AdmissionScope
<1> HIDE DEF startups
<1>2. /\ f.refs = startups \cup {targetEv} /\ f.severity = "INFO"
      /\ f.code = "POSTGRES_ADMISSION_SCOPE" => Undetermined = {}
    BY <1>1, FindingFacts
<1>3. startups \subseteq PostgresEvidence /\ targetEv \in PostgresEvidence
    BY PostgresNodesAt DEF startups, nodesAt
<1>4. Undetermined = {} => \A e \in startups : e.state = "PASS" \/ e.class = "NOT_PERMITTED"
    BY DEF classifyAdmission
<1> QED
    BY <1>2, <1>3, <1>4, PostgresEvFacts

LEMMA PostgresGrounded ==
    ASSUME PostgresInv, PostgresGraphInv, stage = "done"
    PROVE  PostgresFindingsGrounded
<1> SUFFICES ASSUME NEW f \in PostgresFindings
             PROVE  /\ f.refs # {} /\ f.refs \subseteq PostgresEvidence
                    /\ Notable(f) => \A e \in f.refs : ~CutShort(e)
                    /\ Problem(f) => /\ \E e \in f.refs : e.state = "FAIL"
                                     /\ FirstBrokenLayer(PostgresEvidence) <= f.layer
                    /\ Problem(f) /\ f.subject = Address(at) => ~established
                    /\ f.code = "POSTGRES_ADMISSION_SCOPE" =>
                         \A e \in f.refs : e.state = "PASS" \/ e.class = "NOT_PERMITTED"
    BY Zenon DEF PostgresFindingsGrounded, RefsResolve
<1>1. \A e \in PostgresEvidence : e.state = "FAIL" => FirstBrokenLayer(PostgresEvidence) <= e.layer
    BY PostgresNodesAt, BrokenLayerIsLeast
<1>2. CASE f \in FailureBoundary(PostgresEvidence)
    BY <1>2, BoundaryFacts DEF Notable, Problem
<1>3. CASE f \in AdmissionScope
    BY <1>3, AdmissionClaims DEF Notable, Problem
<1>4. CASE f \in evaluateDNS \cup evaluateTCP
  <2>1. SweepClaim(f, SweepEvidence) /\ f.code # "POSTGRES_ADMISSION_SCOPE"
      BY <1>4, DialClaims
  <2>2. f.subject = Address(at) => ~established
      BY <2>1, EstablishedPath DEF SweepClaim, PostgresInv, PostgresTypeOK
  <2> QED
      BY <1>1, <2>1, <2>2, PostgresNodesAt DEF SweepClaim, CutShort
<1>5. CASE PostgresClaim(f)
  <2>1. /\ f.refs # {} /\ f.refs \subseteq PostgresEvidence /\ \A e \in f.refs : ~CutShort(e)
        /\ f.code # "POSTGRES_ADMISSION_SCOPE"
        /\ Problem(f) => /\ \E e \in f.refs : e.state = "FAIL" /\ e.layer = f.layer
                         /\ f.subject = Address(at) => ~established
      BY <1>5 DEF PostgresClaim, Problem
  <2> QED
      BY <1>1, <2>1
<1>6. CASE f \in SSLRequest \cup PostgresTLS \cup Startup
    BY <1>5, <1>6, SSLRequestClaims, PostgresTLSClaims, StartupClaims
<1>7. CASE f \in evaluateAuthentication \cup evaluateSession
    BY <1>5, <1>7, AuthenticationRuleClaims, SessionRuleClaims
<1> QED
    BY <1>2, <1>3, <1>4, <1>6, <1>7 DEF PostgresFindings

\* Each node that says something is wrong has its claim.
LEMMA PostgresClaimsAreMade ==
    /\ \A a \in Addr : sslRequest[a].state = "FAIL" => \E f \in PostgresFindings : Notable(f)
    /\ \A a \in Addr : tls[a].state = "FAIL" /\ sslRequest[a].state = "PASS" =>
         \E f \in PostgresFindings : Notable(f)
    /\ \A a \in Addr : startup[a].state = "FAIL" => \E f \in PostgresFindings : Notable(f)
    /\ auth.state \in {"FAIL", "SKIPPED"} /\ AuthOutcome(auth) =>
         \E f \in PostgresFindings : Notable(f)
    /\ ready.state = "FAIL" /\ authenticationProof # {} =>
         \E f \in PostgresFindings : Notable(f)
<1> USE DEF PostgresFindings
<1>1. ASSUME NEW a \in Addr, sslRequest[a].state = "FAIL"
      PROVE  \E f \in PostgresFindings : Notable(f)
  <2> DEFINE c == Claim(IF sslEv(a).class = "UNSUPPORTED_CAPABILITY" THEN "POSTGRES_TLS_DECLINED"
                        ELSE "POSTGRES_SSL_NEGOTIATION_FAILED", sslEv(a), {})
  <2>1. sslEv(a) \in nodesAt(PostgresEvidence, "postgres.ssl_request") /\ sslEv(a).state = "FAIL"
      BY <1>1, PostgresNodesAt, PostgresEvFacts
  <2>2. c \in SSLRequest /\ c.severity = "ERROR"
      BY <2>1, ClaimFacts DEF SSLRequest
  <2> QED
      BY <2>2 DEF Notable
<1>2. ASSUME NEW a \in Addr, tls[a].state = "FAIL", sslRequest[a].state = "PASS"
      PROVE  \E f \in PostgresFindings : Notable(f)
  <2>1. handshakeFailures \subseteq DOMAIN tlsClaims
      BY DEF handshakeFailures, tlsClaims
  <2>2. Claim("POSTGRES_TLS", handshakeEv(a), {sslEv(a)}) \in PostgresTLS
      BY <1>2, <2>1 DEF PostgresTLS
  <2> QED
      BY <2>2, ClaimFacts DEF Notable
<1>3. ASSUME NEW a \in Addr, startup[a].state = "FAIL"
      PROVE  \E f \in PostgresFindings : Notable(f)
  <2> DEFINE c == Claim(IF startupEv(a).class = "NOT_PERMITTED"
                        THEN "POSTGRES_CONNECTION_NOT_PERMITTED"
                        ELSE "POSTGRES_STARTUP_FAILED", startupEv(a), {})
  <2>1. startupEv(a) \in nodesAt(PostgresEvidence, "postgres.startup") /\ startupEv(a).state = "FAIL"
      BY <1>3, PostgresNodesAt, PostgresEvFacts
  <2>2. c \in Startup /\ c.severity = "ERROR"
      BY <2>1, ClaimFacts DEF Startup
  <2> QED
      BY <2>2 DEF Notable
<1>4. ASSUME auth.state \in {"FAIL", "SKIPPED"}, AuthOutcome(auth)
      PROVE  \E f \in PostgresFindings : Notable(f)
  <2> DEFINE c == Finding(AuthenticationClaims[authEv.class][1],
                          AuthenticationClaims[authEv.class][2], 5, authEv.subject,
                          {authEv, startupEv(at)})
  <2>1. authEv \in nodesAt(PostgresEvidence, "postgres.authentication")
      BY <1>4, PostgresNodesAt
  <2>2. auth.class \in DOMAIN AuthenticationClaims
      BY <1>4 DEF AuthOutcome, AuthenticationClaims, CutShort
  <2>3. AuthenticationClaims[authEv.class][2] # "INFO"
      BY <1>4, <2>2, AuthenticationSeverity, PostgresEvFacts
  <2>4. c \in evaluateAuthentication
      BY <1>4, <2>1, <2>2, PostgresEvFacts DEF evaluateAuthentication
  <2> QED
      BY <2>3, <2>4, FindingFacts DEF Notable
<1>5. ASSUME ready.state = "FAIL", authenticationProof # {}
      PROVE  \E f \in PostgresFindings : Notable(f)
  <2> DEFINE c == Claim(SessionClaims[sessionEv.class], sessionEv,
                        authenticationProof \cup {startupEv(at)})
  <2>1. sessionEv \in nodesAt(PostgresEvidence, "postgres.session") /\ sessionEv.state = "FAIL"
      BY <1>5, PostgresNodesAt, PostgresEvFacts
  <2>2. c \in evaluateSession /\ c.severity = "ERROR"
      BY <1>5, <2>1, ClaimFacts DEF evaluateSession
  <2> QED
      BY <2>2 DEF Notable
<1> QED
    BY <1>1, <1>2, <1>3, <1>4, <1>5

\* A path that was dialled and did not get through its startup has a claim.
LEMMA StoppedPathIsClaimed ==
    ASSUME NEW a \in Addr, Discovered(a), method[a] = "none", Explicit(tls[a]),
           ~CutShort(sslRequest[a]), ~CutShort(tls[a]), ~CutShort(startup[a])
    PROVE  \E f \in PostgresFindings : Notable(f)
<1>1. \/ startup[a].state = "FAIL"
      \/ sslRequest[a].state = "FAIL"
      \/ sslRequest[a].state = "PASS" /\ tls[a].state = "FAIL"
    BY DEF Discovered, Decided, Explicit
<1> QED
    BY <1>1, PostgresClaimsAreMade

LEMMA PostgresIsExplained ==
    ASSUME PostgresInv, PostgresGraphInv, stage = "done", ~incomplete, ~established
    PROVE  \/ \E f \in PostgresFindings : Notable(f)
           \/ auth.class \in {"UNSUPPORTED", "MECHANISM_UNSUPPORTED"}
<1>1. ctx = "live" /\ \A n \in Recorded : ~CutShort(n)
    BY DEF PostgresGraphInv, ResultInv, incompleteRun
<1>2. /\ ~CutShort(auth) /\ ~CutShort(ready) /\ ~CutShort(dns)
      /\ \A a \in Addr : /\ ~CutShort(sslRequest[a]) /\ ~CutShort(startup[a])
                         /\ ~CutShort(tcp[a]) /\ ~CutShort(tls[a])
    BY <1>1 DEF Recorded, SweepNodes
<1>3. CASE ready # NoNode
  <2>1. ready.state = "FAIL"
      BY <1>2, <1>3 DEF PostgresGraphInv, ResultInv, SessionOutcome, established
  <2>2. authenticationProof # {}
    <3>1. CASE auth.state = "PASS"
        BY <3>1, PostgresEvFacts DEF authenticationProof
    <3>2. CASE method[at] = "ok" /\ auth = NoNode
        BY <1>3, <3>2, ChosenStartup DEF authenticationProof
    <3> QED
        BY <1>3, <3>1, <3>2 DEF PostgresInv, ProofInv, Mutual
  <2> QED
      BY <2>1, <2>2, PostgresClaimsAreMade
<1>4. CASE ready = NoNode /\ auth # NoNode
  <2>1. AuthOutcome(auth) /\ auth.state # "PASS"
      BY <1>4 DEF PostgresGraphInv, ResultInv
  <2>2. \/ auth.state \in {"FAIL", "SKIPPED"}
        \/ auth.class \in {"UNSUPPORTED", "MECHANISM_UNSUPPORTED"}
      BY <1>2, <2>1 DEF AuthOutcome
  <2> QED
      BY <2>1, <2>2, PostgresClaimsAreMade
<1>5. CASE ready = NoNode /\ auth = NoNode
  <2>1. Candidates = {} /\ pc = "closed"
      BY <1>1, <1>5 DEF PostgresGraphInv, ResultInv, PostgresInv, SocketInv, Ended
  <2>2. \A a \in Addr : /\ tcp[a] # NoNode <=> a \in located
                        /\ paths[a].conn <=> tcp[a].state = "PASS"
      BY DEF PostgresGraphInv, DialledInv
  <2>3. CASE \A a \in Addr : tcp[a].state # "PASS"
    <3>1. \E f \in evaluateDNS \cup evaluateTCP : f.severity = "ERROR"
        BY <1>1, <1>2, <2>1, <2>2, <2>3, DialsExplain DEF PostgresInv, PostgresGraphInv
    <3> QED
        BY <3>1 DEF PostgresFindings, Notable
  <2>4. ASSUME NEW a \in Addr, tcp[a].state = "PASS"
        PROVE  \E f \in PostgresFindings : Notable(f)
    <3>1. Discovered(a)
        BY <1>1, <2>2, <2>4 DEF PostgresGraphInv, PathInv, InPath, BeforeTLS
    <3>2. method[a] = "none" /\ Explicit(tls[a])
        BY <2>1 DEF Candidates, PostgresGraphInv, EvidenceInv
    <3> QED
        BY <1>2, <3>1, <3>2, StoppedPathIsClaimed
  <2> QED
      BY <2>3, <2>4
<1> QED
    BY <1>3, <1>4, <1>5

LEMMA StartupIsExplained ==
    ASSUME PostgresInv, PostgresGraphInv
    PROVE  StartupExplained
<1> SUFFICES ASSUME stage \in {"select", "authenticate", "leave", "done"}, NEW a \in Addr
             PROVE  /\ (sslRequest[a] # NoNode) = (startup[a] # NoNode)
                    /\ startupBlocker[a] = "ssl_request" => sslRequest[a].state \in {"FAIL", "UNKNOWN"}
                    /\ startupBlocker[a] = "tls" => tls[a].state \in {"FAIL", "UNKNOWN"}
                    /\ (startup[a].state = "SKIPPED") = (startupBlocker[a] # "none")
                    /\ method[a] # "none" /\ plan = "required" => tls[a].state = "PASS"
    BY DEF StartupExplained
<1>1. Untouched(a) \/ Discovered(a)
    BY DEF PostgresGraphInv, PathInv, InPath, BeforeTLS
<1>2. CASE Untouched(a)
    BY <1>2 DEF Untouched, NoNode
<1>3. CASE Discovered(a)
  <2>1. (sslRequest[a] # NoNode) = (startup[a] # NoNode)
      BY <1>3, DiscoveredIsTouched
  <2>2. (startup[a].state = "SKIPPED") = (startupBlocker[a] # "none")
      BY <1>3 DEF Discovered, Decided, CutShort
  <2>3. /\ startupBlocker[a] = "ssl_request" => sslRequest[a].state \in {"FAIL", "UNKNOWN"}
        /\ startupBlocker[a] = "tls" => tls[a].state \in {"FAIL", "UNKNOWN"}
        /\ method[a] # "none" /\ plan = "required" => tls[a].state = "PASS"
      BY <1>3 DEF Discovered, MayStart
  <2> QED
      BY <2>1, <2>2, <2>3
<1> QED
    BY <1>1, <1>2, <1>3

LEMMA CompletenessIsMeasured ==
    ASSUME PostgresInv, PostgresGraphInv
    PROVE  CompleteIsMeasured
<1> SUFFICES ASSUME stage = "done", ~incomplete
             PROVE  /\ \A a \in located : tcp[a].state # "SKIPPED"
                    /\ \A a \in Addr : paths[a].conn => startup[a] # NoNode
                    /\ established \/ \A n \in Recorded : ~CutShort(n)
                    /\ Candidates # {} => auth # NoNode \/ ready # NoNode
    BY DEF CompleteIsMeasured
<1>1. ctx = "live" /\ (established \/ \A n \in Recorded : ~CutShort(n))
    BY DEF PostgresGraphInv, ResultInv, incompleteRun
<1>2. \A a \in located : tcp[a].state # "SKIPPED"
    BY <1>1 DEF PostgresGraphInv, EvidenceInv, PostgresInv, TransportTypeOK
<1>3. ASSUME NEW a \in Addr, paths[a].conn PROVE startup[a] # NoNode
  <2>1. Discovered(a)
      BY <1>1, <1>3 DEF PostgresGraphInv, PathInv, InPath, BeforeTLS
  <2> QED
      BY <2>1, DiscoveredIsTouched
<1>4. Candidates # {} => auth # NoNode \/ ready # NoNode
    BY <1>1 DEF PostgresGraphInv, ResultInv
<1> QED
    BY <1>1, <1>2, <1>3, <1>4

\* A finished PostgreSQL run is faithful, for any set of addresses, any answers
\* and any moment at which its budget ends: a complete run started up on every
\* path it dialled, each startup it skipped names what stood in its way, an
\* ERROR rests on a failure at or below the layer the summary calls broken and
\* never on svcdoctor's own budget, and a complete run that did not reach
\* ReadyForQuery says why.
THEOREM PostgresRunIsFaithful == PostgresSpec => []PostgresRunFaithful
<1>1. PostgresSpec => []PostgresGraphInv
  <2>1. PostgresSpec => []PostgresInv /\ PostgresGraphInv /\ [][PostgresNext]_journeyVars
      BY PostgresInvariant, PostgresGraphInit DEF PostgresSpec
  <2> QED
      BY <2>1, PostgresGraphStep, PTL
<1>2. PostgresInv /\ PostgresGraphInv => PostgresRunFaithful
  <2> SUFFICES ASSUME PostgresInv, PostgresGraphInv PROVE PostgresRunFaithful
      OBVIOUS
  <2>1. PostgresFindingsGrounded
    <3>1. CASE stage = "done"
        BY <3>1, PostgresGrounded
    <3>2. CASE stage # "done"
        BY <3>2 DEF PostgresFindingsGrounded
    <3> QED
        BY <3>1, <3>2
  <2>2. PostgresExplained
      BY PostgresIsExplained DEF PostgresExplained
  <2> QED
      BY <2>1, <2>2, StartupIsExplained, CompletenessIsMeasured DEF PostgresRunFaithful
<1> QED
    BY <1>1, <1>2, PostgresInvariant, PTL
=============================================================================
