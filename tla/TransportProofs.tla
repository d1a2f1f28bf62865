--------------------------- MODULE TransportProofs ---------------------------
(***************************************************************************)
(* Ownership of connections, truth of classification and the account Run   *)
(* gives of every address, for any set of addresses; and what a service's  *)
(* journey over the sweep's connections may rely on.                       *)
(***************************************************************************)
EXTENDS TransportRules, TLAPS

InHand == pc \in {"dial", "dialled", "handshake", "handshaken"}

\* Who has a connection when: the two probe results only at their own steps,
\* the caller only once the sweep returned, the paths until it was closed.
HolderInv ==
    /\ Connected(conn) => pc = "dialled"
    /\ Connected(session) <=> pc \in {"handshake", "handshaken"}
    /\ held # {} => pc \in {"returned", "closed"}
    /\ pc \in {"lookup", "located", "failed", "closed"} => \A a \in Addr : ~Connected(paths[a])

\* Addresses still to come and the one in hand have no path yet, and no
\* connection is held twice.
FreshInv ==
    /\ \A a \in pending : ~Connected(paths[a])
    /\ InHand => cur \notin pending /\ ~Connected(paths[cur])
    /\ \A a \in held : ~Connected(paths[a])

\* The open sockets are those somebody holds.
OpenInv ==
    \A a \in Addr :
        a \in open <=> \/ Connected(paths[a])
                       \/ a \in held
                       \/ a = cur /\ (Connected(conn) \/ Connected(session))

\* A call that was interrupted was interrupted by a context that stays ended.
HeardInv ==
    pc \in {"located", "dialled", "handshaken"} /\ heard = "interrupted" => step # "live"

-----------------------------------------------------------------------------
(* The classifications.                                                    *)

LEMMA ClassifyFacts ==
    ASSUME NEW o \in Outcomes, NEW e \in {"live"} \cup Endings
    PROVE  /\ classify(o, e) \in Nodes
           /\ o = "ok" => classify(o, e).state = "PASS"
           /\ o = "timeout" => classify(o, e).state = "UNKNOWN"
           /\ o = "interrupted" /\ e # "live" => classify(o, e).state = "UNKNOWN"
  BY DEF classify, Node, Nodes, Outcomes, Endings

LEMMA ClassifyLookupFacts ==
    ASSUME NEW o \in Outcomes, NEW e \in {"live"} \cup Endings, NEW answers
    PROVE  /\ classifyLookup(o, answers, e) \in Nodes
           /\ o = "interrupted" /\ e # "live" => classifyLookup(o, answers, e).state = "UNKNOWN"
  BY DEF classifyLookup, Node, Nodes, Outcomes, Endings

LEMMA HolderFacts ==
    /\ Nothing \in Holder /\ Holding \in Holder
    /\ ~Connected(Nothing) /\ Connected(Holding)
    /\ \A h \in Holder : /\ TakeConn(h) \in Holder /\ ~Connected(TakeConn(h))
                         /\ CloseConn(h) \in Holder /\ ~Connected(CloseConn(h))
  BY DEF Nothing, Holding, Holder, Connected, TakeConn, CloseConn

LEMMA NodeFacts ==
    /\ NoNode \in Nodes
    /\ \A e \in {"live"} \cup Endings : Node("SKIPPED", budgetFailure(e)) \in Nodes
    /\ Node("SKIPPED", "PREREQUISITE") \in Nodes
  BY DEF NoNode, Node, Nodes, budgetFailure, Endings

-----------------------------------------------------------------------------
(* Type correctness.                                                       *)

LEMMA TypeInit == TransportInit => TransportTypeOK
<1> SUFFICES ASSUME TransportInit PROVE TransportTypeOK
    OBVIOUS
<1>1. cur \in Addr
    BY AddrAssumption DEF TransportInit
<1>2. located \in SUBSET Addr /\ pending \in SUBSET Addr
    BY DEF TransportInit
<1>3. dns \in Nodes /\ tcp \in [Addr -> Nodes] /\ tls \in [Addr -> Nodes]
    BY NodeFacts DEF TransportInit
<1>4. conn \in Holder /\ session \in Holder /\ paths \in [Addr -> Holder]
    BY HolderFacts DEF TransportInit
<1> QED
    BY <1>1, <1>2, <1>3, <1>4 DEF TransportInit, TransportTypeOK, Outcomes

LEMMA TypeReturns == TransportTypeOK /\ Returns => TransportTypeOK'
<1> SUFFICES ASSUME TransportTypeOK, Returns PROVE TransportTypeOK'
    OBVIOUS
<1>1. ASSUME NEW raw \in SUBSET Spellings, NEW o \in Outcomes, LookupReturns(raw, o)
      PROVE  TransportTypeOK'
  <2>1. \A r \in raw : r[1] \in Addr
      BY DEF Spellings
  <2>2. located' \in SUBSET Addr
      BY <1>1, <2>1 DEF LookupReturns
  <2> QED
      BY <1>1, <2>2 DEF LookupReturns, TransportTypeOK, clockVars, graphVars, ownerVars
<1>2. ASSUME NEW o \in Outcomes, DialReturns(o)
      PROVE  TransportTypeOK'
    BY <1>2, HolderFacts
    DEF DialReturns, TransportTypeOK, clockVars, graphVars, sweepVars
<1>3. ASSUME NEW o \in Outcomes, HandshakeReturns(o)
      PROVE  TransportTypeOK'
    BY <1>3 DEF HandshakeReturns, TransportTypeOK, clockVars, graphVars, sweepVars, ownerVars
<1> QED
    BY <1>1, <1>2, <1>3 DEF Returns

\* Leaving with an error keeps the types of what it touches.
LEMMA TypeAbandon ==
    ASSUME TransportTypeOK, NEW h \in Holder, Abandon(h)
    PROVE  /\ pc' = "failed" /\ conn' \in Holder /\ paths' \in [Addr -> Holder]
           /\ open' \in SUBSET Addr
  BY HolderFacts DEF Abandon, TransportTypeOK

LEMMA TypeRecords == TransportTypeOK /\ Records => TransportTypeOK'
<1> SUFFICES ASSUME TransportTypeOK, Records PROVE TransportTypeOK'
    OBVIOUS
<1> USE DEF clockVars, graphVars, sweepVars, ownerVars
<1>1. CASE RecordLookup
  <2>1. dns' \in Nodes
      BY <1>1, ClassifyLookupFacts DEF RecordLookup, TransportTypeOK
  <2> QED
      BY <1>1, <2>1 DEF RecordLookup, TransportTypeOK
<1>2. CASE LookupRefused
    BY <1>2, TypeAbandon, HolderFacts DEF LookupRefused, TransportTypeOK
<1>3. CASE UnattemptedRefused
    BY <1>3, TypeAbandon, HolderFacts DEF UnattemptedRefused, TransportTypeOK
<1>4. ASSUME NEW a \in Addr, Attempt(a) PROVE TransportTypeOK'
    BY <1>4, HolderFacts DEF Attempt, TransportTypeOK, stepContext
<1>5. ASSUME NEW a \in Addr, RecordUnattempted(a) PROVE TransportTypeOK'
  <2>1. tcp' \in [Addr -> Nodes] /\ tls' \in [Addr -> Nodes]
      BY <1>5, NodeFacts DEF RecordUnattempted, TransportTypeOK
  <2> QED
      BY <1>5, <2>1 DEF RecordUnattempted, TransportTypeOK
<1>6. CASE DialRefused
    BY <1>6, TypeAbandon DEF DialRefused, TransportTypeOK
<1>7. CASE DialFailed
  <2>1. tcp' \in [Addr -> Nodes] /\ tls' \in [Addr -> Nodes]
      BY <1>7, NodeFacts, ClassifyFacts DEF DialFailed, TransportTypeOK
  <2> QED
      BY <1>7, <2>1 DEF DialFailed, TransportTypeOK
<1>8. CASE PlaintextPath
  <2>1. tcp' \in [Addr -> Nodes]
      BY <1>8, ClassifyFacts DEF PlaintextPath, TransportTypeOK
  <2> QED
      BY <1>8, <2>1, HolderFacts DEF PlaintextPath, TransportTypeOK
<1>9. CASE BeginHandshake
  <2>1. tcp' \in [Addr -> Nodes]
      BY <1>9, ClassifyFacts DEF BeginHandshake, TransportTypeOK
  <2> QED
      BY <1>9, <2>1, HolderFacts DEF BeginHandshake, TransportTypeOK, stepContext
<1>10. CASE HandshakeUnusable
  <2>1. tcp' \in [Addr -> Nodes]
      BY <1>10, ClassifyFacts DEF HandshakeUnusable, TransportTypeOK
  <2> QED
      BY <1>10, <2>1, TypeAbandon DEF HandshakeUnusable, TransportTypeOK
<1>11. CASE HandshakeFailed
  <2>1. tls' \in [Addr -> Nodes]
      BY <1>11, ClassifyFacts DEF HandshakeFailed, TransportTypeOK
  <2> QED
      BY <1>11, <2>1, HolderFacts DEF HandshakeFailed, TransportTypeOK
<1>12. CASE EncryptedPath
  <2>1. tls' \in [Addr -> Nodes]
      BY <1>12, ClassifyFacts DEF EncryptedPath, TransportTypeOK
  <2> QED
      BY <1>12, <2>1, HolderFacts DEF EncryptedPath, TransportTypeOK
<1>13. CASE Return
    BY <1>13 DEF Return, TransportTypeOK
<1> QED
    BY <1>1, <1>2, <1>3, <1>4, <1>5, <1>6, <1>7, <1>8, <1>9, <1>10, <1>11, <1>12, <1>13
    DEF Records

LEMMA TypeStep == TransportTypeOK /\ [TransportNext]_transportVars => TransportTypeOK'
<1> SUFFICES ASSUME TransportTypeOK, [TransportNext]_transportVars PROVE TransportTypeOK'
    OBVIOUS
<1> USE DEF clockVars, graphVars, sweepVars, ownerVars
<1>1. CASE Returns \/ Records
    BY <1>1, TypeReturns, TypeRecords
<1>2. CASE StepEnds
    BY <1>2 DEF StepEnds, TransportTypeOK, Endings
<1>3. ASSUME NEW how \in Endings, CtxEnds(how) PROVE TransportTypeOK'
    BY <1>3 DEF CtxEnds, TransportTypeOK, stepContext
<1>4. ASSUME NEW a \in Addr, CallerTakes(a) PROVE TransportTypeOK'
    BY <1>4, HolderFacts DEF CallerTakes, TransportTypeOK
<1>5. ASSUME NEW a \in Addr, CallerCloses(a) PROVE TransportTypeOK'
    BY <1>5 DEF CallerCloses, TransportTypeOK
<1>6. CASE CloseResult
    BY <1>6, HolderFacts DEF CloseResult, TransportTypeOK
<1>7. CASE UNCHANGED transportVars
    BY <1>7 DEF transportVars, TransportTypeOK
<1> QED
    BY <1>1, <1>2, <1>3, <1>4, <1>5, <1>6, <1>7
    DEF TransportNext, RunStep, CallerStep, Budget

\* Run's state stays within its types, for any set of addresses.
THEOREM SweepTypeCorrect == TransportSpec => []TransportTypeOK
  BY TypeInit, TypeStep, PTL DEF TransportSpec

-----------------------------------------------------------------------------
(* Ownership.                                                              *)

OwnInv == HolderInv /\ FreshInv /\ OpenInv

LEMMA OwnInit == TransportInit => OwnInv
<1> SUFFICES ASSUME TransportInit PROVE OwnInv
    OBVIOUS
<1>1. pc \in {"lookup", "sweep"} /\ pending \in SUBSET Addr /\ held = {} /\ open = {}
    BY DEF TransportInit
<1>2. ~Connected(conn) /\ ~Connected(session) /\ \A a \in Addr : ~Connected(paths[a])
    BY HolderFacts DEF TransportInit
<1> QED
    BY <1>1, <1>2 DEF OwnInv, HolderInv, FreshInv, OpenInv, InHand

\* Leaving with an error gives up everything there is.
LEMMA OwnAbandon ==
    ASSUME TransportTypeOK, OwnInv, NEW h \in Holder, Abandon(h),
           Connected(conn) => h = conn,
           ~Connected(session), held = {},
           Connected(h) => h = conn,
           UNCHANGED <<cur, session, held, pending>>
    PROVE  OwnInv'
<1>1. ~Connected(conn') /\ \A a \in Addr : ~Connected(paths'[a])
    BY HolderFacts DEF Abandon, TransportTypeOK
<1>2. open' = {}
    BY DEF Abandon, Released, OwnInv, OpenInv, TransportTypeOK
<1>3. pc' = "failed" /\ cur' \in Addr /\ pending' \in SUBSET Addr
    BY DEF Abandon, TransportTypeOK
<1>4. ~Connected(session') /\ held' = {}
    OBVIOUS
<1> QED
    BY <1>1, <1>2, <1>3, <1>4 DEF OwnInv, HolderInv, FreshInv, OpenInv, InHand

LEMMA OwnReturns == TransportTypeOK /\ OwnInv /\ Returns => OwnInv'
<1> SUFFICES ASSUME TransportTypeOK, OwnInv, Returns PROVE OwnInv'
    OBVIOUS
<1> USE DEF clockVars, graphVars, sweepVars, ownerVars, OwnInv, HolderInv, FreshInv, OpenInv,
            InHand
<1>1. ASSUME NEW raw \in SUBSET Spellings, NEW o \in Outcomes, LookupReturns(raw, o)
      PROVE  OwnInv'
    BY <1>1 DEF LookupReturns
<1>2. ASSUME NEW o \in Outcomes, DialReturns(o)
      PROVE  OwnInv'
    BY <1>2, HolderFacts DEF DialReturns, TransportTypeOK
<1>3. ASSUME NEW o \in Outcomes, HandshakeReturns(o)
      PROVE  OwnInv'
    BY <1>3 DEF HandshakeReturns
<1> QED
    BY <1>1, <1>2, <1>3 DEF Returns

LEMMA OwnRecords == TransportTypeOK /\ OwnInv /\ Records => OwnInv'
<1> SUFFICES ASSUME TransportTypeOK, OwnInv, Records PROVE OwnInv'
    OBVIOUS
<1> USE DEF clockVars, graphVars, sweepVars, ownerVars
<1>0. /\ pc \in {"located", "sweep", "dialled"} => ~Connected(session) /\ held = {}
      /\ pc \in {"located", "sweep"} => ~Connected(conn)
    BY DEF OwnInv, HolderInv
<1>1. CASE RecordLookup
    BY <1>1 DEF RecordLookup, OwnInv, HolderInv, FreshInv, OpenInv, InHand, TransportTypeOK
<1>2. CASE LookupRefused
    BY <1>0, <1>2, OwnAbandon, HolderFacts DEF LookupRefused
<1>3. CASE UnattemptedRefused
    BY <1>0, <1>3, OwnAbandon, HolderFacts DEF UnattemptedRefused
<1>4. ASSUME NEW a \in Addr, Attempt(a) PROVE OwnInv'
    BY <1>4, HolderFacts
    DEF Attempt, IsNext, OwnInv, HolderInv, FreshInv, OpenInv, InHand, TransportTypeOK
<1>5. ASSUME NEW a \in Addr, RecordUnattempted(a) PROVE OwnInv'
    BY <1>5 DEF RecordUnattempted, OwnInv, HolderInv, FreshInv, OpenInv, InHand
<1>6. CASE DialRefused
    BY <1>0, <1>6, OwnAbandon DEF DialRefused, TransportTypeOK
<1>7. CASE DialFailed
    BY <1>7 DEF DialFailed, OwnInv, HolderInv, FreshInv, OpenInv, InHand
<1>8. CASE PlaintextPath
    BY <1>8, HolderFacts
    DEF PlaintextPath, OwnInv, HolderInv, FreshInv, OpenInv, InHand, TransportTypeOK
<1>9. CASE BeginHandshake
    BY <1>9, HolderFacts
    DEF BeginHandshake, OwnInv, HolderInv, FreshInv, OpenInv, InHand, TransportTypeOK
<1>10. CASE HandshakeUnusable
    BY <1>0, <1>10, OwnAbandon DEF HandshakeUnusable, TransportTypeOK
<1>11. CASE HandshakeFailed
    BY <1>11, HolderFacts
    DEF HandshakeFailed, Released, OwnInv, HolderInv, FreshInv, OpenInv, InHand, TransportTypeOK
<1>12. CASE EncryptedPath
    BY <1>12, HolderFacts
    DEF EncryptedPath, OwnInv, HolderInv, FreshInv, OpenInv, InHand, TransportTypeOK
<1>13. CASE Return
    BY <1>13 DEF Return, OwnInv, HolderInv, FreshInv, OpenInv, InHand
<1> QED
    BY <1>1, <1>2, <1>3, <1>4, <1>5, <1>6, <1>7, <1>8, <1>9, <1>10, <1>11, <1>12, <1>13
    DEF Records

LEMMA OwnStep == TransportTypeOK /\ OwnInv /\ [TransportNext]_transportVars => OwnInv'
<1> SUFFICES ASSUME TransportTypeOK, OwnInv, [TransportNext]_transportVars PROVE OwnInv'
    OBVIOUS
<1> USE DEF clockVars, graphVars, sweepVars, ownerVars
<1>1. CASE Returns \/ Records
    BY <1>1, OwnReturns, OwnRecords
<1>2. CASE StepEnds
    BY <1>2 DEF StepEnds, OwnInv, HolderInv, FreshInv, OpenInv, InHand
<1>3. ASSUME NEW how \in Endings, CtxEnds(how) PROVE OwnInv'
    BY <1>3 DEF CtxEnds, OwnInv, HolderInv, FreshInv, OpenInv, InHand
<1>4. ASSUME NEW a \in Addr, CallerTakes(a) PROVE OwnInv'
    BY <1>4, HolderFacts
    DEF CallerTakes, OwnInv, HolderInv, FreshInv, OpenInv, InHand, TransportTypeOK
<1>5. ASSUME NEW a \in Addr, CallerCloses(a) PROVE OwnInv'
    BY <1>5 DEF CallerCloses, OwnInv, HolderInv, FreshInv, OpenInv, InHand
<1>6. CASE CloseResult
    BY <1>6, HolderFacts
    DEF CloseResult, OwnInv, HolderInv, FreshInv, OpenInv, InHand, TransportTypeOK
<1>7. CASE UNCHANGED transportVars
    BY <1>7 DEF transportVars, OwnInv, HolderInv, FreshInv, OpenInv, InHand
<1> QED
    BY <1>1, <1>2, <1>3, <1>4, <1>5, <1>6, <1>7
    DEF TransportNext, RunStep, CallerStep, Budget

\* The owners are told apart, so the invariant names exactly one.
LEMMA OwnImpliesOneOwner == TransportTypeOK /\ OwnInv => OneOwner
<1> SUFFICES ASSUME TransportTypeOK, OwnInv, NEW a \in Addr
             PROVE  IF a \in open
                    THEN \E o \in Owner : Owns(o, a) /\ \A p \in Owner : Owns(p, a) => p = o
                    ELSE \A o \in Owner : ~Owns(o, a)
    BY DEF OneOwner
<1> USE DEF Owns, Owner, OwnInv, HolderInv, FreshInv, OpenInv, InHand, TransportTypeOK
<1>1. CASE a \notin open
    BY <1>1
<1>2. CASE a \in open /\ Connected(paths[a])
    BY <1>2
<1>3. CASE a \in open /\ a \in held
    BY <1>3
<1>4. CASE a \in open /\ a = cur /\ Connected(conn)
    BY <1>4
<1>5. CASE a \in open /\ a = cur /\ Connected(session)
    BY <1>5
<1> QED
    BY <1>1, <1>2, <1>3, <1>4, <1>5

LEMMA OwnImpliesNothingLeaks == TransportTypeOK /\ OwnInv => NothingLeaks
  BY DEF NothingLeaks, OwnInv, HolderInv, FreshInv, OpenInv, InHand, TransportTypeOK

LEMMA SweepOwnership == TransportSpec => [](TransportTypeOK /\ OwnInv)
  BY TypeInit, TypeStep, OwnInit, OwnStep, PTL DEF TransportSpec

\* ADR 0021's ownership rule holds for any set of addresses: through dialling,
\* handshaking, hand-over and every Close an open socket has exactly one owner,
\* and nobody holds a closed one.
THEOREM SocketsHaveOneOwner == TransportSpec => []OneOwner
  BY SweepOwnership, OwnImpliesOneOwner, PTL

\* Whichever way Run ends, for any set of addresses: an error leaves no socket
\* open, a return only those of its paths and its caller.
THEOREM SweepLeaksNothing == TransportSpec => []NothingLeaks
  BY SweepOwnership, OwnImpliesNothingLeaks, PTL

-----------------------------------------------------------------------------
(* Blame.                                                                  *)

LEMMA HeardStep ==
    TransportTypeOK /\ HeardInv /\ [TransportNext]_transportVars => HeardInv'
<1> SUFFICES ASSUME TransportTypeOK, HeardInv, [TransportNext]_transportVars PROVE HeardInv'
    OBVIOUS
<1> USE DEF HeardInv, clockVars, graphVars, sweepVars, ownerVars
<1>1. CASE Returns
    BY <1>1 DEF Returns, LookupReturns, DialReturns, HandshakeReturns, CanReturn
<1>2. CASE Records
    BY <1>2
    DEF Records, RecordLookup, LookupRefused, UnattemptedRefused, Attempt, RecordUnattempted,
        DialRefused, DialFailed, PlaintextPath, BeginHandshake, HandshakeUnusable,
        HandshakeFailed, EncryptedPath, Return, Abandon
<1>3. CASE Budget
    BY <1>3 DEF Budget, StepEnds, CtxEnds, stepContext, Endings
<1>4. CASE CallerStep
    BY <1>4 DEF CallerStep, CloseResult, CallerTakes, CallerCloses
<1>5. CASE UNCHANGED transportVars
    BY <1>5 DEF transportVars
<1> QED
    BY <1>1, <1>2, <1>3, <1>4, <1>5 DEF TransportNext, RunStep

\* What one step may say about the target, as NoFalseBlame has it.
Blameless ==
    /\ pc = "located" /\ dns' # dns => (heard = "interrupted" => dns'.state = "UNKNOWN")
    /\ pc = "dialled" /\ tcp'[cur] # tcp[cur] =>
          /\ heard \in {"interrupted", "timeout"} => tcp'[cur].state = "UNKNOWN"
          /\ heard = "ok" => tcp'[cur].state = "PASS"
    /\ pc = "handshaken" /\ tls'[cur] # tls[cur] =>
          /\ heard \in {"interrupted", "timeout"} => tls'[cur].state = "UNKNOWN"
          /\ heard = "ok" => tls'[cur].state = "PASS"
    /\ \A a \in Addr : pc = "sweep" /\ tcp'[a] # tcp[a] => tcp'[a].state = "SKIPPED"

\* A step that records nothing blames nobody.
LEMMA QuietSteps == UNCHANGED graphVars => Blameless
  BY DEF Blameless, graphVars

LEMMA RecordsBlameless == TransportTypeOK /\ HeardInv /\ Records => Blameless
<1> SUFFICES ASSUME TransportTypeOK, HeardInv, Records PROVE Blameless
    OBVIOUS
<1>0. heard \in Outcomes /\ step \in {"live"} \cup Endings /\ cur \in Addr
    BY DEF TransportTypeOK
<1>1. CASE RecordLookup
    BY <1>0, <1>1, ClassifyLookupFacts DEF RecordLookup, Blameless, HeardInv
<1>2. ASSUME NEW a \in Addr, RecordUnattempted(a) PROVE Blameless
    BY <1>2 DEF RecordUnattempted, Blameless, TransportTypeOK, Node
<1>3. CASE DialFailed \/ PlaintextPath \/ BeginHandshake \/ HandshakeUnusable
  <2>1. pc = "dialled" /\ tcp'[cur] = classify(heard, step)
      BY <1>0, <1>3
      DEF DialFailed, PlaintextPath, BeginHandshake, HandshakeUnusable, TransportTypeOK
  <2> QED
      BY <1>0, <2>1, ClassifyFacts DEF Blameless, HeardInv
<1>4. CASE HandshakeFailed \/ EncryptedPath
  <2>1. pc = "handshaken" /\ tls'[cur] = classify(heard, step)
      BY <1>0, <1>4 DEF HandshakeFailed, EncryptedPath, TransportTypeOK
  <2> QED
      BY <1>0, <2>1, ClassifyFacts DEF Blameless, HeardInv
<1>5. CASE LookupRefused \/ UnattemptedRefused \/ DialRefused \/ Return
    BY <1>5, QuietSteps DEF LookupRefused, UnattemptedRefused, DialRefused, Return
<1>6. ASSUME NEW a \in Addr, Attempt(a) PROVE Blameless
    BY <1>6, QuietSteps DEF Attempt
<1> QED
    BY <1>1, <1>2, <1>3, <1>4, <1>5, <1>6 DEF Records

LEMMA BlamelessStep ==
    TransportTypeOK /\ HeardInv /\ [TransportNext]_transportVars => [Blameless]_transportVars
<1> SUFFICES ASSUME TransportTypeOK, HeardInv, TransportNext PROVE Blameless
    BY DEF Blameless
<1>1. CASE Returns
    BY <1>1, QuietSteps DEF Returns, LookupReturns, DialReturns, HandshakeReturns
<1>2. CASE Records
    BY <1>2, RecordsBlameless
<1>3. CASE Budget
    BY <1>3, QuietSteps DEF Budget, StepEnds, CtxEnds
<1>4. CASE CallerStep
    BY <1>4, QuietSteps DEF CallerStep, CloseResult, CallerTakes, CallerCloses
<1>5. CASE UNCHANGED transportVars
    BY <1>5, QuietSteps DEF transportVars
<1> QED
    BY <1>1, <1>2, <1>3, <1>4, <1>5 DEF TransportNext, RunStep

\* svcdoctor's own budget is never blamed on the target, for any set of
\* addresses and any moment at which a context ends between a probe call's
\* return and its classification.
THEOREM BudgetIsNotBlamed == TransportSpec => NoFalseBlame
<1>1. TransportInit => HeardInv
    BY DEF TransportInit, HeardInv
<1>2. TransportTypeOK /\ HeardInv /\ [TransportNext]_transportVars => [Blameless]_transportVars
    BY BlamelessStep
<1> QED
    BY <1>1, <1>2, TypeInit, TypeStep, HeardStep, PTL
    DEF TransportSpec, NoFalseBlame, Blameless

-----------------------------------------------------------------------------
(* What Run recorded of every address.                                     *)

\* The addresses Run has dealt with to the end.
Dealt(a) == /\ pc \notin {"lookup", "located"}
            /\ a \in located \ pending
            /\ InHand => a # cur

HandshakeUnderway(a) == pc \in {"handshake", "handshaken"} /\ a = cur

\* EveryAddressAccounted at every moment of the sweep: an address dealt with is
\* accounted for, one whose handshake is underway has its TCP node only, and
\* nothing is recorded of the rest.
Accounted(a) ==
    /\ tcp[a] # NoNode <=> Dealt(a) \/ HandshakeUnderway(a)
    /\ HandshakeUnderway(a) => tcp[a].state = "PASS"
    /\ tls[a] # NoNode <=> Dealt(a) /\ params.tls
    /\ a \in blocked <=> tls[a].state = "SKIPPED"
    /\ tls[a].state = "SKIPPED" <=> params.tls /\ Dealt(a) /\ tcp[a].state # "PASS"
    /\ paths[a].conn <=> IF params.tls THEN tls[a].state = "PASS"
                         ELSE tcp[a].state = "PASS"

\* Where Run is in its list of addresses, and what the dial left in hand.
CursorInv ==
    /\ pc \notin {"lookup", "located"} => pending \subseteq located
    /\ InHand => cur \in located \ pending
    /\ pc = "dialled" => (heard = "ok" <=> Connected(conn))
    /\ pc \in {"handshake", "handshaken"} => params.tls
    /\ pc \in {"returned", "closed"} => pending = {}

AccountInv == pc # "failed" => CursorInv /\ \A a \in Addr : Accounted(a)

\* What a classification can be: never "not recorded" and never SKIPPED, and
\* PASS exactly for a completed call.
LEMMA ClassifyRecords ==
    ASSUME NEW o \in Outcomes, NEW e \in {"live"} \cup Endings
    PROVE  /\ classify(o, e) \in Nodes
           /\ classify(o, e) # NoNode
           /\ classify(o, e).state # "SKIPPED"
           /\ classify(o, e).state = "PASS" <=> o = "ok"
  BY DEF classify, Node, Nodes, NoNode, Outcomes, Endings

LEMMA SkippedRecords ==
    ASSUME NEW c \in {"PREREQUISITE", "LOCAL_TIMEOUT", "CANCELLED"}
    PROVE  Node("SKIPPED", c) # NoNode /\ Node("SKIPPED", c).state = "SKIPPED"
  BY DEF Node, NoNode

LEMMA HolderConn ==
    /\ ~Nothing.conn /\ Holding.conn
    /\ \A h \in Holder : TakeConn(h).conn = h.conn /\ CloseConn(h).conn = h.conn
  BY DEF Nothing, Holding, Holder, TakeConn, CloseConn

\* No step but Run's own records touches the account of an address.
LEMMA QuietKeepsAccount ==
    ASSUME AccountInv, NEW a \in Addr, pc # "failed",
           pc' \notin {"lookup", "located"} => pc \notin {"lookup", "located"},
           Dealt(a)' <=> Dealt(a), HandshakeUnderway(a)' <=> HandshakeUnderway(a),
           params' = params, UNCHANGED graphVars, paths'[a].conn = paths[a].conn
    PROVE  Accounted(a)'
  BY DEF AccountInv, Accounted, graphVars

LEMMA AccountInit == TransportInit => AccountInv
<1> SUFFICES ASSUME TransportInit, NEW a \in Addr PROVE CursorInv /\ Accounted(a)
    BY AddrAssumption DEF AccountInv
<1>1. pc \in {"lookup", "sweep"} /\ located = pending /\ ~InHand
    BY DEF TransportInit, InHand
<1>2. ~Dealt(a) /\ ~HandshakeUnderway(a) /\ CursorInv
    BY <1>1 DEF Dealt, HandshakeUnderway, CursorInv
<1>3. /\ tcp[a] = NoNode /\ tls[a] = NoNode /\ a \notin blocked
      /\ ~paths[a].conn
    BY HolderConn DEF TransportInit
<1> QED
    BY <1>2, <1>3 DEF Accounted, NoNode

\* The step that deals with an address writes its account and no other.
Writes(a) ==
    /\ tcp' = [tcp EXCEPT ![a] = tcp'[a]]
    /\ tls' = [tls EXCEPT ![a] = tls'[a]]
    /\ paths' = [paths EXCEPT ![a] = paths'[a]]
    /\ blocked' \ {a} = blocked \ {a}
    /\ params' = params /\ located' = located

\* Accounts of the other addresses stay as they are.
LEMMA OthersKeepAccount ==
    ASSUME TransportTypeOK, AccountInv, NEW a \in Addr, NEW b \in Addr, b # a,
           pc # "failed", Writes(a),
           Dealt(b)' <=> Dealt(b), HandshakeUnderway(b)' <=> HandshakeUnderway(b)
    PROVE  Accounted(b)'
<1>1. /\ tcp'[b] = tcp[b] /\ tls'[b] = tls[b] /\ paths'[b] = paths[b]
      /\ (b \in blocked' <=> b \in blocked)
    BY DEF Writes, TransportTypeOK
<1> QED
    BY <1>1 DEF AccountInv, Accounted, Writes

LEMMA AccountReturns == TransportTypeOK /\ AccountInv /\ Returns => AccountInv'
<1> SUFFICES ASSUME TransportTypeOK, AccountInv, Returns, NEW a \in Addr
             PROVE  CursorInv' /\ Accounted(a)'
    BY AddrAssumption DEF AccountInv
<1> USE DEF clockVars, graphVars, sweepVars, ownerVars
<1>1. ASSUME NEW raw \in SUBSET Spellings, NEW o \in Outcomes, LookupReturns(raw, o)
      PROVE  CursorInv' /\ Accounted(a)'
    BY <1>1 DEF LookupReturns, AccountInv, CursorInv, Accounted, InHand, Dealt, HandshakeUnderway
<1>2. ASSUME NEW o \in Outcomes, DialReturns(o)
      PROVE  CursorInv' /\ Accounted(a)'
    BY <1>2, HolderFacts
    DEF DialReturns, AccountInv, CursorInv, Accounted, InHand, Dealt, HandshakeUnderway
<1>3. ASSUME NEW o \in Outcomes, HandshakeReturns(o)
      PROVE  CursorInv' /\ Accounted(a)'
    BY <1>3 DEF HandshakeReturns, AccountInv, CursorInv, Accounted, InHand, Dealt,
                HandshakeUnderway
<1> QED
    BY <1>1, <1>2, <1>3 DEF Returns

LEMMA AccountRecords == TransportTypeOK /\ OwnInv /\ AccountInv /\ Records => AccountInv'
<1> SUFFICES ASSUME TransportTypeOK, OwnInv, AccountInv, Records, pc' # "failed",
                    NEW b \in Addr
             PROVE  CursorInv' /\ Accounted(b)'
    BY AddrAssumption DEF AccountInv
<1> USE DEF clockVars, graphVars, sweepVars, ownerVars
<1>0. /\ heard \in Outcomes /\ step \in {"live"} \cup Endings /\ cur \in Addr
      /\ conn \in Holder /\ session \in Holder /\ params.tls \in BOOLEAN
      /\ ctx \in {"live"} \cup Endings
    BY DEF TransportTypeOK, Params
<1>1. CASE RecordLookup
    BY <1>1 DEF RecordLookup, AccountInv, CursorInv, Accounted, InHand, Dealt, HandshakeUnderway
<1>2. CASE LookupRefused \/ UnattemptedRefused \/ DialRefused \/ HandshakeUnusable
    BY <1>2 DEF LookupRefused, UnattemptedRefused, DialRefused, HandshakeUnusable, Abandon
<1>3. ASSUME NEW a \in Addr, Attempt(a) PROVE CursorInv' /\ Accounted(b)'
  <2>1. CursorInv'
      BY <1>3 DEF Attempt, IsNext, AccountInv, CursorInv, InHand
  <2>2. (Dealt(b)' <=> Dealt(b)) /\ (HandshakeUnderway(b)' <=> HandshakeUnderway(b))
      BY <1>3 DEF Attempt, IsNext, Dealt, HandshakeUnderway, InHand
  <2> QED
      BY <1>3, <2>1, <2>2, QuietKeepsAccount DEF Attempt
<1>4. ASSUME NEW a \in Addr, RecordUnattempted(a) PROVE CursorInv' /\ Accounted(b)'
  <2>1. CursorInv' /\ pc = "sweep" /\ pc' = "sweep" /\ a \in located
      BY <1>4 DEF RecordUnattempted, IsNext, AccountInv, CursorInv, InHand
  <2>2. CASE b = a
    <3>1. Dealt(a)' /\ ~HandshakeUnderway(a)' /\ ~Dealt(a) /\ ~HandshakeUnderway(a)
        BY <1>4, <2>1 DEF RecordUnattempted, IsNext, Dealt, HandshakeUnderway, InHand
    <3>2. /\ tls[a] = NoNode /\ ~paths[a].conn /\ a \notin blocked
        BY <2>1, <3>1 DEF AccountInv, Accounted, NoNode
    <3>3. /\ tcp'[a] # NoNode /\ tcp'[a].state = "SKIPPED"
          /\ tls'[a] = IF params.tls THEN Node("SKIPPED", "PREREQUISITE") ELSE NoNode
          /\ (a \in blocked' <=> params.tls)
          /\ paths' = paths /\ params' = params
        BY <1>0, <1>4, <3>2, SkippedRecords
        DEF RecordUnattempted, TransportTypeOK, budgetFailure
    <3> QED
        BY <1>0, <2>1, <2>2, <3>1, <3>2, <3>3, SkippedRecords DEF Accounted, NoNode
  <2>3. CASE b # a
    <3>1. (Dealt(b)' <=> Dealt(b)) /\ (HandshakeUnderway(b)' <=> HandshakeUnderway(b))
        BY <1>4, <2>1, <2>3 DEF RecordUnattempted, Dealt, HandshakeUnderway, InHand
    <3>2. Writes(a)
        BY <1>4 DEF RecordUnattempted, Writes, TransportTypeOK
    <3> QED
        BY <2>1, <2>3, <3>1, <3>2, OthersKeepAccount
  <2> QED
      BY <2>2, <2>3
<1>5. CASE DialFailed
  <2>1. CursorInv' /\ pc = "dialled" /\ pc' = "sweep" /\ cur \in located \ pending /\ heard # "ok"
      BY <1>5 DEF DialFailed, AccountInv, CursorInv, InHand
  <2>2. CASE b = cur
    <3>1. Dealt(b)' /\ ~HandshakeUnderway(b)' /\ ~Dealt(b) /\ ~HandshakeUnderway(b)
        BY <1>5, <2>1, <2>2 DEF DialFailed, Dealt, HandshakeUnderway, InHand
    <3>2. tls[b] = NoNode /\ ~paths[b].conn /\ b \notin blocked
        BY <2>1, <3>1 DEF AccountInv, Accounted, NoNode
    <3>3. /\ tcp'[b] # NoNode /\ tcp'[b].state # "PASS"
          /\ tls'[b] = IF params.tls THEN Node("SKIPPED", "PREREQUISITE") ELSE NoNode
          /\ (b \in blocked' <=> params.tls)
          /\ paths' = paths /\ params' = params
        BY <1>0, <1>5, <2>1, <2>2, <3>2, ClassifyRecords DEF DialFailed, TransportTypeOK
    <3> QED
        BY <1>0, <2>1, <3>1, <3>2, <3>3, SkippedRecords DEF Accounted, NoNode
  <2>3. CASE b # cur
    <3>1. (Dealt(b)' <=> Dealt(b)) /\ (HandshakeUnderway(b)' <=> HandshakeUnderway(b))
        BY <1>5, <2>1, <2>3 DEF DialFailed, Dealt, HandshakeUnderway, InHand
    <3>2. Writes(cur)
        BY <1>5 DEF DialFailed, Writes, TransportTypeOK
    <3> QED
        BY <1>0, <2>1, <2>3, <3>1, <3>2, OthersKeepAccount
  <2> QED
      BY <2>2, <2>3
<1>6. CASE PlaintextPath
  <2>1. CursorInv' /\ pc = "dialled" /\ pc' = "sweep" /\ cur \in located \ pending /\ heard = "ok"
      BY <1>6 DEF PlaintextPath, AccountInv, CursorInv, InHand
  <2>2. CASE b = cur
    <3>1. Dealt(b)' /\ ~HandshakeUnderway(b)' /\ ~Dealt(b) /\ ~HandshakeUnderway(b)
        BY <1>6, <2>1, <2>2 DEF PlaintextPath, Dealt, HandshakeUnderway, InHand
    <3>2. tls[b] = NoNode /\ b \notin blocked
        BY <2>1, <3>1 DEF AccountInv, Accounted, NoNode
    <3>3. /\ tcp'[b] # NoNode /\ tcp'[b].state = "PASS" /\ tls'[b] = NoNode /\ b \notin blocked'
          /\ paths'[b].conn /\ params' = params /\ ~params.tls
        BY <1>0, <1>6, <2>1, <2>2, <3>2, ClassifyRecords, HolderConn
        DEF PlaintextPath, TransportTypeOK
    <3> QED
        BY <2>1, <3>1, <3>3 DEF Accounted, NoNode
  <2>3. CASE b # cur
    <3>1. (Dealt(b)' <=> Dealt(b)) /\ (HandshakeUnderway(b)' <=> HandshakeUnderway(b))
        BY <1>6, <2>1, <2>3 DEF PlaintextPath, Dealt, HandshakeUnderway, InHand
    <3>2. Writes(cur)
        BY <1>6 DEF PlaintextPath, Writes, TransportTypeOK
    <3> QED
        BY <1>0, <2>1, <2>3, <3>1, <3>2, OthersKeepAccount
  <2> QED
      BY <2>2, <2>3
<1>7. CASE BeginHandshake
  <2>1. /\ CursorInv' /\ pc = "dialled" /\ pc' = "handshake" /\ cur \in located \ pending
        /\ heard = "ok" /\ cur' = cur
      BY <1>7 DEF BeginHandshake, AccountInv, CursorInv, InHand
  <2>2. CASE b = cur
    <3>1. ~Dealt(b)' /\ HandshakeUnderway(b)' /\ ~Dealt(b) /\ ~HandshakeUnderway(b)
        BY <1>7, <2>1, <2>2 DEF BeginHandshake, Dealt, HandshakeUnderway, InHand
    <3>2. tls[b] = NoNode /\ b \notin blocked /\ ~paths[b].conn
        BY <2>1, <3>1 DEF AccountInv, Accounted, NoNode
    <3>3. /\ tcp'[b] # NoNode /\ tcp'[b].state = "PASS" /\ tls' = tls /\ blocked' = blocked
          /\ paths' = paths /\ params' = params /\ params.tls
        BY <1>0, <1>7, <2>1, <2>2, <3>2, ClassifyRecords DEF BeginHandshake, TransportTypeOK
    <3> QED
        BY <2>1, <3>1, <3>2, <3>3 DEF Accounted, NoNode
  <2>3. CASE b # cur
    <3>1. (Dealt(b)' <=> Dealt(b)) /\ (HandshakeUnderway(b)' <=> HandshakeUnderway(b))
        BY <1>7, <2>1, <2>3 DEF BeginHandshake, Dealt, HandshakeUnderway, InHand
    <3>2. Writes(cur)
        BY <1>7 DEF BeginHandshake, Writes, TransportTypeOK
    <3> QED
        BY <1>0, <2>1, <2>3, <3>1, <3>2, OthersKeepAccount
  <2> QED
      BY <2>2, <2>3
<1>8. CASE HandshakeFailed \/ EncryptedPath
  <2>1. /\ CursorInv' /\ pc = "handshaken" /\ pc' = "sweep" /\ cur \in located \ pending
        /\ params.tls
      BY <1>8 DEF HandshakeFailed, EncryptedPath, AccountInv, CursorInv, InHand
  <2>2. CASE b = cur
    <3>1. Dealt(b)' /\ ~HandshakeUnderway(b)' /\ ~Dealt(b) /\ HandshakeUnderway(b)
        BY <1>8, <2>1, <2>2
        DEF HandshakeFailed, EncryptedPath, Dealt, HandshakeUnderway, InHand
    <3>2. /\ tcp[b] # NoNode /\ tcp[b].state = "PASS"
          /\ tls[b] = NoNode /\ b \notin blocked /\ ~paths[b].conn
        BY <2>1, <3>1 DEF AccountInv, Accounted, NoNode
    <3>3. /\ tls'[b] = classify(heard, step) /\ tcp' = tcp /\ blocked' = blocked
          /\ (paths'[b].conn <=> heard = "ok") /\ params' = params
        BY <1>0, <1>8, <2>2, <3>2, HolderConn
        DEF HandshakeFailed, EncryptedPath, TransportTypeOK
    <3> QED
        BY <1>0, <2>1, <3>1, <3>2, <3>3, ClassifyRecords DEF Accounted
  <2>3. CASE b # cur
    <3>1. (Dealt(b)' <=> Dealt(b)) /\ (HandshakeUnderway(b)' <=> HandshakeUnderway(b))
        BY <1>8, <2>1, <2>3 DEF HandshakeFailed, EncryptedPath, Dealt, HandshakeUnderway, InHand
    <3>2. Writes(cur)
        BY <1>8 DEF HandshakeFailed, EncryptedPath, Writes, TransportTypeOK
    <3> QED
        BY <1>0, <2>1, <2>3, <3>1, <3>2, OthersKeepAccount
  <2> QED
      BY <2>2, <2>3
<1>9. CASE Return
    BY <1>9 DEF Return, AccountInv, CursorInv, Accounted, InHand, Dealt, HandshakeUnderway
<1> QED
    BY <1>1, <1>2, <1>3, <1>4, <1>5, <1>6, <1>7, <1>8, <1>9 DEF Records

LEMMA AccountStep ==
    TransportTypeOK /\ OwnInv /\ AccountInv /\ [TransportNext]_transportVars => AccountInv'
<1> SUFFICES ASSUME TransportTypeOK, OwnInv, AccountInv, [TransportNext]_transportVars
             PROVE  AccountInv'
    OBVIOUS
<1> USE DEF clockVars, graphVars, sweepVars, ownerVars
<1>1. CASE Returns \/ Records
    BY <1>1, AccountReturns, AccountRecords
<1>2. CASE Budget \/ UNCHANGED transportVars
    BY <1>2 DEF Budget, StepEnds, CtxEnds, transportVars, AccountInv, CursorInv, Accounted,
                InHand, Dealt, HandshakeUnderway
<1>3. CASE CallerStep
  <2> SUFFICES ASSUME NEW a \in Addr PROVE CursorInv' /\ Accounted(a)'
      BY AddrAssumption DEF AccountInv
  <2>1. /\ pc \in {"returned", "closed"} /\ pc' \in {"returned", "closed"}
        /\ UNCHANGED <<params, heard, sweepVars, graphVars>>
        /\ paths'[a].conn = paths[a].conn
      BY <1>3, HolderConn
      DEF CallerStep, CloseResult, CallerTakes, CallerCloses, TransportTypeOK
  <2> QED
      BY <2>1 DEF AccountInv, CursorInv, Accounted, InHand, Dealt, HandshakeUnderway
<1> QED
    BY <1>1, <1>2, <1>3 DEF TransportNext, RunStep

\* When Run returns, for any set of addresses, every located address has one
\* account of itself: no path is kept without a PASS, no TLS node is missing or
\* invented, and SKIPPED is always explained by the TCP node that blocks it.
THEOREM AddressesAreAccounted == TransportSpec => []EveryAddressAccounted
<1>1. TransportTypeOK /\ AccountInv => EveryAddressAccounted
  <2> SUFFICES ASSUME TransportTypeOK, AccountInv, pc \in {"returned", "closed"},
                      NEW a \in Addr
               PROVE  /\ (tcp[a] # NoNode) = (a \in located)
                      /\ (tls[a] # NoNode) = (a \in located /\ params.tls)
                      /\ (a \in blocked) = (tls[a].state = "SKIPPED")
                      /\ (tls[a].state = "SKIPPED") =
                            (params.tls /\ a \in located /\ tcp[a].state # "PASS")
                      /\ paths[a].conn = (IF params.tls THEN tls[a].state = "PASS"
                                          ELSE tcp[a].state = "PASS")
      BY DEF EveryAddressAccounted
  <2>1. (Dealt(a) <=> a \in located) /\ ~HandshakeUnderway(a)
      BY DEF AccountInv, CursorInv, Dealt, HandshakeUnderway, InHand
  <2>2. params.tls \in BOOLEAN /\ paths[a].conn \in BOOLEAN
      BY DEF TransportTypeOK, Params, Holder
  <2> QED
      BY <2>1, <2>2 DEF AccountInv, Accounted
<1> QED
    BY <1>1, TypeInit, TypeStep, OwnInit, OwnStep, AccountInit, AccountStep, PTL
    DEF TransportSpec

-----------------------------------------------------------------------------
(* What a journey over the sweep's connections relies on.                  *)

\* What a channel is said to have proved, a passed handshake proved.
ChannelInv ==
    pc # "failed" =>
        \A a \in Addr :
            /\ channel[a] # "unknown" => Dealt(a)
            /\ channel[a] = "tls_verified" => tls[a].state = "PASS" /\ ~params.insecure

SweepInv == TransportTypeOK /\ OwnInv /\ AccountInv /\ ChannelInv

\* A step that keeps the channels and every address already dealt with.
LEMMA QuietKeepsChannel ==
    ASSUME ChannelInv, pc # "failed", params' = params, channel' = channel,
           \A a \in Addr : Dealt(a) => Dealt(a)' /\ tls'[a] = tls[a]
    PROVE  ChannelInv'
  BY DEF ChannelInv

LEMMA ChannelRunStep ==
    TransportTypeOK /\ AccountInv /\ ChannelInv /\ RunStep => ChannelInv'
<1> SUFFICES ASSUME TransportTypeOK, AccountInv, ChannelInv, RunStep, pc' # "failed"
             PROVE  ChannelInv'
    BY DEF ChannelInv
<1> USE DEF clockVars, graphVars, sweepVars, ownerVars
<1>1. CASE Returns
  <2>1. pc # "failed" /\ params' = params /\ channel' = channel /\ tls' = tls
      BY <1>1 DEF Returns, LookupReturns, DialReturns, HandshakeReturns
  <2>2. ASSUME NEW a \in Addr, Dealt(a) PROVE Dealt(a)'
      BY <1>1, <2>2 DEF Returns, LookupReturns, DialReturns, HandshakeReturns, Dealt, InHand
  <2> QED
      BY <2>1, <2>2, QuietKeepsChannel
<1>2. CASE Budget
    BY <1>2, QuietKeepsChannel DEF Budget, StepEnds, CtxEnds, Dealt, InHand, ChannelInv
<1>3. CASE RecordLookup \/ Return
    BY <1>3 DEF RecordLookup, Return, ChannelInv, Dealt, InHand
<1>4. CASE LookupRefused \/ UnattemptedRefused \/ DialRefused \/ HandshakeUnusable
    BY <1>4 DEF LookupRefused, UnattemptedRefused, DialRefused, HandshakeUnusable, Abandon
<1>5. ASSUME NEW a \in Addr, Attempt(a) PROVE ChannelInv'
  <2>1. ASSUME NEW b \in Addr, Dealt(b) PROVE Dealt(b)'
      BY <1>5, <2>1 DEF Attempt, IsNext, Dealt, InHand
  <2> QED
      BY <1>5, <2>1, QuietKeepsChannel DEF Attempt
<1>6. ASSUME NEW a \in Addr, RecordUnattempted(a) PROVE ChannelInv'
  <2>1. ASSUME NEW b \in Addr, Dealt(b) PROVE Dealt(b)' /\ tls'[b] = tls[b]
      BY <1>6, <2>1 DEF RecordUnattempted, IsNext, Dealt, InHand, TransportTypeOK
  <2> QED
      BY <1>6, <2>1, QuietKeepsChannel DEF RecordUnattempted
<1>7. CASE DialFailed \/ BeginHandshake \/ HandshakeFailed
  <2>1. ASSUME NEW b \in Addr, Dealt(b) PROVE Dealt(b)' /\ tls'[b] = tls[b]
      BY <1>7, <2>1
      DEF DialFailed, BeginHandshake, HandshakeFailed, Dealt, InHand, TransportTypeOK
  <2> QED
      BY <1>7, <2>1, QuietKeepsChannel DEF DialFailed, BeginHandshake, HandshakeFailed
<1>8. CASE PlaintextPath \/ EncryptedPath
  <2> SUFFICES ASSUME NEW b \in Addr
               PROVE  /\ channel'[b] # "unknown" => Dealt(b)'
                      /\ channel'[b] = "tls_verified" =>
                           tls'[b].state = "PASS" /\ ~params'.insecure
      BY DEF ChannelInv
  <2>1. CASE b # cur
    <3>1. channel'[b] = channel[b] /\ tls'[b] = tls[b] /\ params' = params
        BY <1>8, <2>1 DEF PlaintextPath, EncryptedPath, TransportTypeOK
    <3>2. Dealt(b) => Dealt(b)'
        BY <1>8 DEF PlaintextPath, EncryptedPath, Dealt, InHand
    <3>3. pc # "failed"
        BY <1>8 DEF PlaintextPath, EncryptedPath
    <3> QED
        BY <3>1, <3>2, <3>3 DEF ChannelInv
  <2>2. CASE b = cur
    <3>1. Dealt(b)'
        BY <1>8, <2>2 DEF PlaintextPath, EncryptedPath, Dealt, InHand, AccountInv, CursorInv
    <3>2. CASE PlaintextPath
        BY <2>2, <3>1, <3>2 DEF PlaintextPath, TransportTypeOK
    <3>3. CASE EncryptedPath
      <4>1. tls'[b] = classify("ok", step) /\ step \in {"live"} \cup Endings
            /\ params' = params
            /\ channel'[b] = (IF params.insecure THEN "tls_unverified" ELSE "tls_verified")
          BY <2>2, <3>3 DEF EncryptedPath, TransportTypeOK
      <4>2. tls'[b].state = "PASS"
          BY <4>1, ClassifyFacts DEF Outcomes
      <4> QED
          BY <3>1, <4>1, <4>2
    <3> QED
        BY <1>8, <3>2, <3>3
  <2> QED
      BY <2>1, <2>2
<1> QED
    BY <1>1, <1>2, <1>3, <1>4, <1>5, <1>6, <1>7, <1>8 DEF RunStep, Records

\* The sweep's invariant, whoever calls it.
LEMMA SweepInit == TransportInit => SweepInv
<1>1. TransportInit => ChannelInv
    BY DEF TransportInit, ChannelInv
<1> QED
    BY <1>1, TypeInit, OwnInit, AccountInit DEF SweepInv

LEMMA SweepRunStep == SweepInv /\ RunStep => SweepInv'
  BY TypeStep, OwnStep, AccountStep, ChannelRunStep DEF SweepInv, TransportNext

LEMMA SweepQuiet == SweepInv /\ UNCHANGED transportVars => SweepInv'
<1>1. ChannelInv /\ UNCHANGED transportVars => ChannelInv'
    BY DEF transportVars, clockVars, graphVars, sweepVars, ownerVars, ChannelInv, Dealt, InHand
<1> QED
    BY <1>1, TypeStep, OwnStep, AccountStep DEF SweepInv

\* Run takes nothing on its caller's behalf, and does not close its Result.
LEMMA RunStepTakesNothing ==
    RunStep => params' = params /\ held' = held /\ (pc # "closed" => pc' # "closed")
<1> SUFFICES ASSUME RunStep
             PROVE  params' = params /\ held' = held /\ (pc # "closed" => pc' # "closed")
    OBVIOUS
<1> USE DEF clockVars, graphVars, sweepVars, ownerVars
<1>1. CASE Returns \/ Budget
    BY <1>1 DEF Returns, LookupReturns, DialReturns, HandshakeReturns, Budget, StepEnds, CtxEnds
<1>2. CASE Records
    BY <1>2
    DEF Records, RecordLookup, LookupRefused, UnattemptedRefused, Attempt, RecordUnattempted,
        DialRefused, DialFailed, PlaintextPath, BeginHandshake, HandshakeUnusable,
        HandshakeFailed, EncryptedPath, Return, Abandon
<1> QED
    BY <1>1, <1>2 DEF RunStep

\* Once Run has returned, only the budget still moves.
LEMMA RunStepAfterReturn ==
    ASSUME pc \in {"returned", "closed"}, RunStep
    PROVE  /\ UNCHANGED <<params, pc, heard, sweepVars, graphVars, ownerVars>>
           /\ ctx # "live" => ctx' = ctx
<1> USE DEF clockVars, graphVars, sweepVars, ownerVars
<1>1. ~Returns
    BY DEF Returns, LookupReturns, DialReturns, HandshakeReturns
<1>2. ~Records
    BY DEF Records, RecordLookup, LookupRefused, UnattemptedRefused, Attempt,
           RecordUnattempted, DialRefused, DialFailed, PlaintextPath, BeginHandshake,
           HandshakeUnusable, HandshakeFailed, EncryptedPath, Return
<1> QED
    BY <1>1, <1>2 DEF RunStep, Budget, StepEnds, CtxEnds, Noted

\* The journey's steps on what the sweep returned: it takes a path's
\* connection, gives up connections it took, and leaves, closing the Result.
TakesPath(a) ==
    /\ paths' = [paths EXCEPT ![a] = TakeConn(@)]
    /\ held' = held \cup {a}
    /\ UNCHANGED <<pc, open>>

GivesUp(S) ==
    /\ open' = open \ S
    /\ held' = held \ S
    /\ UNCHANGED <<pc, paths>>

LeavesSweep(S) ==
    /\ pc' = "closed"
    /\ paths' = [a \in Addr |-> CloseConn(paths[a])]
    /\ open' = (open \ {a \in Addr : Connected(paths[a])}) \ S
    /\ held' = held \ S

SocketTypes ==
    /\ paths' \in [Addr -> Holder]
    /\ held' \subseteq Addr /\ open' \subseteq Addr
    /\ \A a \in Addr : paths'[a].conn = paths[a].conn

LEMMA TakesPathKeepsOwn ==
    ASSUME TransportTypeOK, OwnInv, pc = "returned", UNCHANGED <<pending, cur, conn, session>>,
           NEW a \in Addr, Connected(paths[a]), TakesPath(a)
    PROVE  OwnInv' /\ SocketTypes
  BY HolderFacts, HolderConn
  DEF TakesPath, SocketTypes, OwnInv, HolderInv, FreshInv, OpenInv, InHand, TransportTypeOK

LEMMA GivesUpKeepsOwn ==
    ASSUME TransportTypeOK, OwnInv, pc = "returned", UNCHANGED <<pending, cur, conn, session>>,
           NEW S, \A a \in S : a \in Addr => ~Connected(paths[a]), GivesUp(S)
    PROVE  OwnInv' /\ SocketTypes
  BY DEF GivesUp, SocketTypes, OwnInv, HolderInv, FreshInv, OpenInv, InHand, TransportTypeOK

LEMMA LeavesKeepsOwn ==
    ASSUME TransportTypeOK, OwnInv, pc = "returned", UNCHANGED <<pending, cur, conn, session>>,
           NEW S, \A a \in S : a \in Addr => ~Connected(paths[a]), LeavesSweep(S)
    PROVE  /\ OwnInv' /\ SocketTypes
           /\ \A a \in Addr : ~Connected(paths'[a])
<1>1. SocketTypes
  <2>1. /\ paths' \in [Addr -> Holder]
        /\ \A a \in Addr : paths'[a].conn = paths[a].conn
      BY HolderFacts, HolderConn DEF LeavesSweep, TransportTypeOK
  <2> QED
      BY <2>1 DEF LeavesSweep, SocketTypes, TransportTypeOK
<1>2. \A a \in Addr : ~Connected(paths'[a])
    BY HolderFacts DEF LeavesSweep, TransportTypeOK
<1>3. OwnInv'
    BY <1>2 DEF LeavesSweep, OwnInv, HolderInv, FreshInv, OpenInv, InHand, TransportTypeOK
<1> QED
    BY <1>1, <1>2, <1>3

\* Where the journey leaves the sweep's evidence alone, all of it stays true.
JourneyKeeps ==
    UNCHANGED <<params, clockVars, heard, sweepVars, graphVars, conn, session, channel>>

LEMMA SweepJourneyStep ==
    ASSUME SweepInv, pc = "returned", JourneyKeeps, OwnInv', SocketTypes,
           pc' \in {"returned", "closed"}
    PROVE  SweepInv'
<1> USE DEF clockVars, graphVars, sweepVars, ownerVars, JourneyKeeps, SocketTypes
<1>1. TransportTypeOK'
    BY DEF SweepInv, TransportTypeOK
<1>2. AccountInv'
  <2> SUFFICES ASSUME NEW a \in Addr PROVE CursorInv' /\ Accounted(a)'
      BY AddrAssumption DEF AccountInv
  <2> QED
      BY DEF SweepInv, AccountInv, CursorInv, Accounted, InHand, Dealt, HandshakeUnderway
<1>3. ChannelInv'
    BY DEF SweepInv, ChannelInv, InHand, Dealt
<1> QED
    BY <1>1, <1>2, <1>3 DEF SweepInv

LEMMA SweepTakesPath ==
    ASSUME SweepInv, pc = "returned", JourneyKeeps, NEW a \in Addr, Connected(paths[a]),
           TakesPath(a)
    PROVE  SweepInv'
<1>1. OwnInv' /\ SocketTypes
    BY TakesPathKeepsOwn DEF SweepInv, JourneyKeeps, sweepVars
<1> QED
    BY <1>1, SweepJourneyStep DEF TakesPath

LEMMA SweepGivesUp ==
    ASSUME SweepInv, pc = "returned", JourneyKeeps, NEW S,
           \A a \in S : a \in Addr => ~Connected(paths[a]), GivesUp(S)
    PROVE  SweepInv'
<1>1. OwnInv' /\ SocketTypes
    BY GivesUpKeepsOwn DEF SweepInv, JourneyKeeps, sweepVars
<1> QED
    BY <1>1, SweepJourneyStep DEF GivesUp

LEMMA SweepLeaves ==
    ASSUME SweepInv, pc = "returned", JourneyKeeps, NEW S,
           \A a \in S : a \in Addr => ~Connected(paths[a]), LeavesSweep(S)
    PROVE  SweepInv' /\ \A a \in Addr : ~Connected(paths'[a])
<1>1. OwnInv' /\ SocketTypes /\ \A a \in Addr : ~Connected(paths'[a])
    BY LeavesKeepsOwn DEF SweepInv, JourneyKeeps, sweepVars
<1> QED
    BY <1>1, SweepJourneyStep DEF LeavesSweep

\* A returned sweep's open sockets are those of its paths and of its caller,
\* and no socket is both's.
LEMMA ReturnedSockets ==
    ASSUME TransportTypeOK, OwnInv, pc \in {"returned", "closed"}
    PROVE  /\ pc = "closed" => open = held
           /\ \A a \in held : ~Connected(paths[a])
           /\ \A a \in open : Connected(paths[a]) \/ a \in held
  BY OwnImpliesNothingLeaks DEF OwnInv, FreshInv, NothingLeaks

-----------------------------------------------------------------------------
(* What a returned sweep's evidence says by itself.                        *)

\* A node that is there says how its step ended, and UNKNOWN is nothing but
\* svcdoctor's own budget.
Explicit(n) ==
    /\ n.state = "NONE" => n = NoNode
    /\ n.state = "UNKNOWN" => CutShort(n)

\* Only an ended budget leaves an address untried, a handshake is skipped only
\* after its dial, and only a lookup that did not succeed leaves none to try.
EvidenceInv ==
    /\ pc \in {"lookup", "located"} => dns = NoNode
    /\ pc = "located" /\ heard # "ok" => located = {}
    /\ Explicit(dns) /\ dns.state # "SKIPPED"
    /\ dns.state \in {"FAIL", "UNKNOWN"} => located = {}
    /\ pc \notin {"lookup", "located", "failed"} /\ located = {} => dns.state \in {"FAIL", "UNKNOWN"}
    /\ \A a \in Addr : /\ Explicit(tcp[a]) /\ Explicit(tls[a])
                       /\ tcp[a].state = "SKIPPED" =>
                            ctx # "live" /\ tcp[a].class \in BudgetClasses
                       /\ tls[a].state = "SKIPPED" => tls[a].class = "PREREQUISITE"

LEMMA ExplicitNodes ==
    /\ Explicit(NoNode)
    /\ \A o \in Outcomes, e \in {"live"} \cup Endings : Explicit(classify(o, e))
    /\ \A o \in Outcomes, e \in {"live"} \cup Endings : classify(o, e).state # "SKIPPED"
    /\ \A c : /\ Explicit(Node("SKIPPED", c)) /\ Node("SKIPPED", c).state = "SKIPPED"
             /\ Node("SKIPPED", c).class = c
    /\ \A e : budgetFailure(e) \in BudgetClasses
  BY DEF budgetFailure, Explicit, NoNode, Node, classify, CutShort, BudgetClasses, Outcomes, Endings

LEMMA ExplicitLookup ==
    ASSUME NEW o \in Outcomes, NEW e \in {"live"} \cup Endings, NEW answers
    PROVE  /\ Explicit(classifyLookup(o, answers, e))
           /\ classifyLookup(o, answers, e).state # "SKIPPED"
           /\ classifyLookup(o, answers, e).state \in {"FAIL", "UNKNOWN"} =>
                o # "ok" \/ answers = {}
           /\ answers = {} => classifyLookup(o, answers, e).state \in {"FAIL", "UNKNOWN"}
  BY DEF Explicit, NoNode, Node, classifyLookup, CutShort, BudgetClasses, Outcomes, Endings

LEMMA EvidenceInit == TransportInit => EvidenceInv
<1> SUFFICES ASSUME TransportInit PROVE EvidenceInv
    OBVIOUS
<1>1. pc \notin {"lookup", "located", "failed"} => located # {}
    BY DEF TransportInit
<1>2. /\ dns = NoNode /\ pc # "located" /\ NoNode.state = "NONE"
      /\ \A a \in Addr : tcp[a] = NoNode /\ tls[a] = NoNode
    BY DEF TransportInit, NoNode
<1> QED
    BY <1>1, <1>2, ExplicitNodes DEF EvidenceInv

LEMMA EvidenceRunStep == TransportTypeOK /\ EvidenceInv /\ RunStep => EvidenceInv'
<1> SUFFICES ASSUME TransportTypeOK, EvidenceInv, RunStep PROVE EvidenceInv'
    OBVIOUS
<1> USE DEF clockVars, graphVars, sweepVars, ownerVars
<1>0. step \in {"live"} \cup Endings /\ ctx \in {"live"} \cup Endings /\ heard \in Outcomes
      /\ cur \in Addr
    BY DEF TransportTypeOK
<1>1. CASE Returns
  <2>1. UNCHANGED <<ctx, dns, tcp, tls>>
      BY <1>1 DEF Returns, LookupReturns, DialReturns, HandshakeReturns
  <2>2. ASSUME NEW raw, NEW o, LookupReturns(raw, o)
        PROVE  EvidenceInv'
      BY <2>1, <2>2 DEF LookupReturns, EvidenceInv, Explicit, NoNode
  <2>3. ASSUME NEW o, DialReturns(o) \/ HandshakeReturns(o) PROVE EvidenceInv'
      BY <2>1, <2>3 DEF DialReturns, HandshakeReturns, EvidenceInv
  <2> QED
      BY <1>1, <2>2, <2>3 DEF Returns
<1>2. CASE Budget
    BY <1>2 DEF Budget, StepEnds, CtxEnds, Endings, EvidenceInv
<1>3. CASE RecordLookup
    BY <1>0, <1>3, ExplicitLookup DEF RecordLookup, EvidenceInv
<1>4. CASE LookupRefused \/ UnattemptedRefused \/ DialRefused
    BY <1>4 DEF LookupRefused, UnattemptedRefused, DialRefused, Abandon, EvidenceInv
<1>5. CASE HandshakeUnusable \/ PlaintextPath \/ BeginHandshake
  <2>1. /\ tcp' = [tcp EXCEPT ![cur] = classify(heard, step)]
        /\ UNCHANGED <<ctx, dns, tls, located>>
        /\ pc = "dialled" /\ pc' \in {"failed", "sweep", "handshake"}
      BY <1>5 DEF HandshakeUnusable, PlaintextPath, BeginHandshake, Abandon
  <2>2. /\ Explicit(tcp'[cur]) /\ tcp'[cur].state # "SKIPPED"
        /\ \A a \in Addr : a # cur => tcp'[a] = tcp[a]
      BY <1>0, <2>1, ExplicitNodes DEF TransportTypeOK
  <2> QED
      BY <2>1, <2>2 DEF EvidenceInv
<1>6. CASE DialFailed
  <2>1. /\ tcp' = [tcp EXCEPT ![cur] = classify(heard, step)]
        /\ tls' = IF params.tls THEN [tls EXCEPT ![cur] = Node("SKIPPED", "PREREQUISITE")]
                  ELSE tls
        /\ UNCHANGED <<ctx, dns, located>>
        /\ pc = "dialled" /\ pc' = "sweep"
      BY <1>6 DEF DialFailed
  <2>2. /\ Explicit(tcp'[cur]) /\ tcp'[cur].state # "SKIPPED" /\ Explicit(tls'[cur])
        /\ tls'[cur].state = "SKIPPED" => tls'[cur].class = "PREREQUISITE"
        /\ \A a \in Addr : a # cur => tcp'[a] = tcp[a] /\ tls'[a] = tls[a]
      BY <1>0, <2>1, ExplicitNodes DEF TransportTypeOK, EvidenceInv
  <2> QED
      BY <2>1, <2>2 DEF EvidenceInv
<1>7. CASE HandshakeFailed \/ EncryptedPath
  <2>1. /\ tls' = [tls EXCEPT ![cur] = classify(heard, step)]
        /\ UNCHANGED <<ctx, dns, tcp, located>>
        /\ pc = "handshaken" /\ pc' = "sweep"
      BY <1>7 DEF HandshakeFailed, EncryptedPath
  <2>2. /\ Explicit(tls'[cur]) /\ tls'[cur].state # "SKIPPED"
        /\ \A a \in Addr : a # cur => tls'[a] = tls[a]
      BY <1>0, <2>1, ExplicitNodes DEF TransportTypeOK
  <2> QED
      BY <2>1, <2>2 DEF EvidenceInv
<1>8. ASSUME NEW b \in Addr, RecordUnattempted(b) PROVE EvidenceInv'
  <2>1. /\ tcp' = [tcp EXCEPT ![b] = Node("SKIPPED", budgetFailure(ctx))]
        /\ tls' = IF params.tls THEN [tls EXCEPT ![b] = Node("SKIPPED", "PREREQUISITE")]
                  ELSE tls
        /\ UNCHANGED <<ctx, pc, dns, located>> /\ ctx # "live" /\ pc = "sweep"
      BY <1>8 DEF RecordUnattempted
  <2>2. /\ Explicit(tcp'[b]) /\ tcp'[b].class \in BudgetClasses
        /\ Explicit(tls'[b]) /\ (tls'[b].state = "SKIPPED" => tls'[b].class = "PREREQUISITE")
        /\ \A a \in Addr : a # b => tcp'[a] = tcp[a] /\ tls'[a] = tls[a]
      BY <2>1, ExplicitNodes DEF TransportTypeOK, EvidenceInv
  <2> QED
      BY <2>1, <2>2 DEF EvidenceInv
<1>9. CASE Return \/ \E b \in Addr : Attempt(b)
    BY <1>9 DEF Return, Attempt, EvidenceInv
<1> QED
    BY <1>1, <1>2, <1>3, <1>4, <1>5, <1>6, <1>7, <1>8, <1>9 DEF RunStep, Records

\* A sweep whose builder and server name are in order does not fail.
LEMMA UsableSweepReturns ==
    ASSUME RunStep, ~params.collides, params.parentKnown, params.usableName, pc # "failed"
    PROVE  pc' # "failed"
<1> USE DEF clockVars, graphVars, sweepVars, ownerVars
<1>1. CASE Returns \/ Budget
    BY <1>1 DEF Returns, LookupReturns, DialReturns, HandshakeReturns, Budget, StepEnds, CtxEnds
<1>2. CASE Records
    BY <1>2
    DEF Records, RecordLookup, LookupRefused, UnattemptedRefused, Attempt, RecordUnattempted,
        DialRefused, DialFailed, PlaintextPath, BeginHandshake, HandshakeUnusable,
        HandshakeFailed, EncryptedPath, Return, FirstRefused, AddRefused
<1> QED
    BY <1>1, <1>2 DEF RunStep

\* A budget that ended does not come back.
LEMMA BudgetStaysEnded ==
    ASSUME RunStep
    PROVE  ctx # "live" => ctx' = ctx
<1> USE DEF clockVars, graphVars, sweepVars, ownerVars
<1>1. CASE Returns \/ Budget
    BY <1>1 DEF Returns, LookupReturns, DialReturns, HandshakeReturns, Budget, StepEnds, CtxEnds
<1>2. CASE Records
    BY <1>2
    DEF Records, RecordLookup, LookupRefused, UnattemptedRefused, Attempt, RecordUnattempted,
        DialRefused, DialFailed, PlaintextPath, BeginHandshake, HandshakeUnusable,
        HandshakeFailed, EncryptedPath, Return
<1> QED
    BY <1>1, <1>2 DEF RunStep

\* A sweep that failed has nothing more to do.
LEMMA FailureIsFinal == RunStep /\ pc = "failed" => pc' = "failed"
<1> SUFFICES ASSUME RunStep, pc = "failed" PROVE pc' = "failed"
    OBVIOUS
<1> USE DEF clockVars, graphVars, sweepVars, ownerVars
<1>1. ~Returns
    BY DEF Returns, LookupReturns, DialReturns, HandshakeReturns
<1>2. ~Records
    BY DEF Records, RecordLookup, LookupRefused, UnattemptedRefused, Attempt,
           RecordUnattempted, DialRefused, DialFailed, PlaintextPath, BeginHandshake,
           HandshakeUnusable, HandshakeFailed, EncryptedPath, Return
<1> QED
    BY <1>1, <1>2 DEF RunStep, Budget, StepEnds, CtxEnds

\* The journey's steps leave the sweep's evidence as it is.
LEMMA EvidenceQuiet == EvidenceInv /\ UNCHANGED transportVars => EvidenceInv'
  BY DEF EvidenceInv, transportVars, clockVars, graphVars, sweepVars, ownerVars

LEMMA EvidenceJourneyStep ==
    ASSUME EvidenceInv, pc = "returned", JourneyKeeps, pc' \in {"returned", "closed"}
    PROVE  EvidenceInv'
  BY DEF EvidenceInv, JourneyKeeps, clockVars, sweepVars, graphVars

\* Until a journey takes them, the paths of the sweep hold their connections.
WholePaths == \A a \in Addr : paths[a].conn => Connected(paths[a])

LEMMA WholeInit == TransportInit => WholePaths
  BY HolderConn DEF TransportInit, WholePaths

LEMMA WholeRunStep ==
    ASSUME TransportTypeOK, WholePaths, RunStep, pc' # "failed"
    PROVE  WholePaths'
<1> USE DEF clockVars, graphVars, sweepVars, ownerVars
<1>1. CASE Returns \/ Budget
    BY <1>1
    DEF Returns, LookupReturns, DialReturns, HandshakeReturns, Budget, StepEnds, CtxEnds,
        WholePaths
<1>2. CASE PlaintextPath \/ EncryptedPath
    BY <1>2, HolderFacts DEF PlaintextPath, EncryptedPath, WholePaths, TransportTypeOK
<1>3. CASE Records /\ ~PlaintextPath /\ ~EncryptedPath
  <2>1. paths' = paths
      BY <1>3
      DEF Records, RecordLookup, LookupRefused, UnattemptedRefused, Attempt, RecordUnattempted,
          DialRefused, DialFailed, BeginHandshake, HandshakeUnusable, HandshakeFailed, Return,
          Abandon
  <2> QED
      BY <2>1 DEF WholePaths
<1> QED
    BY <1>1, <1>2, <1>3 DEF RunStep

-----------------------------------------------------------------------------
(* What the rules every journey shares make of a returned sweep.           *)

\* The outcome of a step that was tried: an answer, or the run's own budget.
Decided(n) == n.state \in {"PASS", "FAIL"} \/ CutShort(n)

LEMMA SubjectFacts ==
    /\ \A a : Address(a) # Target /\ Address(a) # Host
    /\ \A a, b : Address(a) = Address(b) => a = b
<1>1. \A a : Address(a)[1] = "address" /\ Address(a)[2] = a
    BY DEF Address
<1>2. Target[1] = "target" /\ Host[1] = "host"
    BY DEF Target, Host
<1> QED
    BY <1>1, <1>2

LEMMA RecordedFacts ==
    ASSUME NEW layer, NEW order, NEW name, NEW subject, NEW n
    PROVE  LET e == Ev(layer, order, name, subject, n)
           IN /\ e.layer = layer /\ e.order = order /\ e.step = name /\ e.subject = subject
              /\ e.state = n.state /\ e.class = n.class /\ (CutShort(e) <=> CutShort(n))
  BY DEF Ev, CutShort

LEMMA FindingFacts ==
    ASSUME NEW code, NEW severity, NEW layer, NEW subject, NEW refs
    PROVE  LET f == Finding(code, severity, layer, subject, refs)
           IN /\ f.code = code /\ f.severity = severity /\ f.layer = layer
              /\ f.subject = subject /\ f.refs = refs
  BY DEF Finding

\* The failure boundary restates what its nodes say: it is never above INFO.
LEMMA BoundaryFacts ==
    ASSUME NEW E, NEW f \in FailureBoundary(E)
    PROVE  /\ f.severity = "INFO" /\ f.code = "DIAG_FAILURE_BOUNDARY"
           /\ f.refs # {} /\ f.refs \subseteq E
<1> DEFINE About(s) == {Finding("DIAG_FAILURE_BOUNDARY", "INFO", h.layer, s,
                                {h} \cup LastGood(NodesForSubject(E, s), h))
                          : h \in FirstFailures(NodesForSubject(E, s))}
<1>1. FailureBoundary(E) = UNION {About(s) : s \in Subjects(E)}
    BY Zenon DEF FailureBoundary
<1>2. PICK s \in Subjects(E) : f \in About(s)
    BY <1>1
<1>3. PICK h \in FirstFailures(NodesForSubject(E, s)) :
        f = Finding("DIAG_FAILURE_BOUNDARY", "INFO", h.layer, s,
                    {h} \cup LastGood(NodesForSubject(E, s), h))
    BY <1>2
<1>4. /\ f.severity = "INFO" /\ f.code = "DIAG_FAILURE_BOUNDARY"
      /\ f.refs = {h} \cup LastGood(NodesForSubject(E, s), h)
    BY <1>3, FindingFacts
<1>5. h \in E /\ LastGood(NodesForSubject(E, s), h) \subseteq E
    BY DEF FirstFailures, NodesForSubject, LastGood
<1> QED
    BY <1>4, <1>5

\* The layer the summary calls broken is no deeper than any failure.
LEMMA BrokenLayerIsLeast ==
    ASSUME NEW E, NEW e \in E, e.state = "FAIL", \A n \in E : n.layer \in 0..6
    PROVE  FirstBrokenLayer(E) <= e.layer
<1> DEFINE L(l) == \E n \in E : n.state = "FAIL" /\ n.layer = l
           Least(l) == L(l) /\ \A n \in E : n.state = "FAIL" => l <= n.layer
<1>1. \E l \in 0..6 : L(l) /\ \A m \in 0..6 : L(m) => l <= m
  <2>1. \E l \in 0..6 : L(l)
      OBVIOUS
  <2> HIDE DEF L
  <2>2. L(0) \/ L(1) \/ L(2) \/ L(3) \/ L(4) \/ L(5) \/ L(6)
      BY <2>1
  <2> QED
      BY <2>2
<1>2. PICK l \in 0..6 : Least(l)
    BY <1>1
<1>3. FirstBrokenLayer(E) = CHOOSE m \in 0..6 : Least(m)
    BY DEF FirstBrokenLayer
<1> HIDE DEF Least
<1>4. Least(FirstBrokenLayer(E))
    BY <1>2, <1>3
<1> QED
    BY <1>4 DEF Least

\* What the rules may say of the sweep: of a failure each, and of an address
\* only that its handshake failed.
SweepClaim(f, E) ==
    /\ f.refs # {} /\ f.refs \subseteq E
    /\ \A e \in f.refs : e.state \in {"PASS", "FAIL"}
    /\ \E e \in f.refs : e.state = "FAIL" /\ e.layer = f.layer
    /\ \A a \in Addr : f.subject = Address(a) => tls[a].state = "FAIL"

LEMMA SweepIsRecorded ==
    /\ dns.state # "NONE" => lookupEv \in SweepEvidence
    /\ \A a \in Addr : tcp[a].state # "NONE" => connectEv(a) \in SweepEvidence
    /\ \A a \in Addr : tls[a].state # "NONE" => handshakeEv(a) \in SweepEvidence
  BY RecordedFacts DEF SweepEvidence, RecordedIn, lookupEv, connectEv, handshakeEv

LEMMA SweepSteps ==
    \A e \in SweepEvidence : /\ e.step \in {"dns.lookup", "tcp.connect", "tls.handshake"}
                             /\ e.layer \in 1..3
  BY RecordedFacts DEF SweepEvidence, RecordedIn, lookupEv, connectEv, handshakeEv

\* What is said of the lookup and of the dials, a handshake in band or not.
LEMMA DialClaims ==
    ASSUME NEW f \in evaluateDNS \cup evaluateTCP
    PROVE  SweepClaim(f, SweepEvidence) /\ f.code \in {"DNS", "TCP"}
<1>0. /\ \A a \in Addr : connectEv(a).state = tcp[a].state /\ connectEv(a).layer = 2
      /\ lookupEv.state = dns.state /\ lookupEv.layer = 1
    BY RecordedFacts DEF connectEv, lookupEv
<1>1. CASE f \in evaluateDNS
  <2>1. dns.state = "FAIL" /\ f = Finding("DNS", "ERROR", 1, Target, {lookupEv})
      BY <1>1 DEF evaluateDNS
  <2>2. f.code = "DNS" /\ f.layer = 1 /\ f.subject = Target /\ f.refs = {lookupEv}
      BY <2>1, FindingFacts
  <2> QED
      BY <1>0, <2>1, <2>2, SweepIsRecorded, SubjectFacts DEF SweepClaim, CutShort
<1>2. CASE f \in evaluateTCP
  <2> DEFINE refs == connects \cup (IF hasLookup THEN {lookupEv} ELSE {})
  <2>1. /\ connects # {} /\ (hasLookup => dns.state = "PASS")
        /\ \A c \in connects : c.state = "FAIL"
        /\ f = Finding("TCP", "ERROR", 2, Target, refs)
      BY <1>2 DEF evaluateTCP
  <2>2. f.code = "TCP" /\ f.layer = 2 /\ f.subject = Target /\ f.refs = refs
      BY <2>1, FindingFacts
  <2>3. \A c \in connects : c \in SweepEvidence /\ c.layer = 2
      BY <1>0, <2>1, SweepIsRecorded DEF connects
  <2> QED
      BY <1>0, <2>1, <2>2, <2>3, SweepIsRecorded, SubjectFacts DEF SweepClaim, CutShort
<1> QED
    BY <1>1, <1>2

LEMMA SweepClaims ==
    ASSUME SweepInv, EvidenceInv, pc \in {"returned", "closed"},
           NEW f \in TransportFindings
    PROVE  SweepClaim(f, SweepEvidence)
<1>0. /\ \A a \in Addr : connectEv(a).state = tcp[a].state
      /\ \A a \in Addr : handshakeEv(a).state = tls[a].state /\ handshakeEv(a).layer = 3
    BY RecordedFacts DEF connectEv, handshakeEv
<1>1. CASE f \in evaluateDNS \cup evaluateTCP
    BY <1>1, DialClaims
<1>2. CASE f \in evaluateTLS
  <2>1. PICK a \in Addr : /\ tls[a].state = "FAIL"
                          /\ f = Finding("TLS", "ERROR", 3, Address(a),
                                         {handshakeEv(a), connectEv(a)})
      BY <1>2 DEF evaluateTLS
  <2>2. f.layer = 3 /\ f.subject = Address(a) /\ f.refs = {handshakeEv(a), connectEv(a)}
      BY <2>1, FindingFacts
  <2>3. tcp[a].state = "PASS"
      BY <2>1 DEF SweepInv, AccountInv, Accounted, NoNode
  <2> QED
      BY <1>0, <2>1, <2>2, <2>3, SweepIsRecorded, SubjectFacts DEF SweepClaim, CutShort
<1> QED
    BY <1>1, <1>2 DEF TransportFindings

\* Dials nobody cut short, none of which passed, are explained.
LEMMA DialsExplain ==
    ASSUME TransportTypeOK, EvidenceInv, pc \in {"returned", "closed"}, ctx = "live",
           ~CutShort(dns), \A a \in Addr : ~CutShort(tcp[a]),
           \A a \in Addr : tcp[a] # NoNode <=> a \in located,
           \A a \in Addr : tcp[a].state # "PASS"
    PROVE  \E f \in evaluateDNS \cup evaluateTCP : f.severity = "ERROR"
<1>1. CASE dns.state = "FAIL"
  <2>1. lookupFailures \subseteq DOMAIN dnsClaims
      BY DEF lookupFailures, dnsClaims
  <2>2. Finding("DNS", "ERROR", 1, Target, {lookupEv}) \in evaluateDNS
      BY <1>1, <2>1 DEF evaluateDNS
  <2> QED
      BY <2>2, FindingFacts
<1>2. CASE dns.state # "FAIL"
  <2>1. located # {} /\ located \subseteq Addr /\ (hasLookup => dns.state = "PASS")
      BY <1>2 DEF EvidenceInv, hasLookup, Explicit, TransportTypeOK, Nodes
  <2>2. \A a \in located : tcp[a] # NoNode /\ tcp[a].state = "FAIL"
      BY <2>1 DEF TransportTypeOK, EvidenceInv, Explicit, Nodes
  <2>3. connects # {} /\ \A c \in connects : c.state = "FAIL"
      BY <2>1, <2>2, RecordedFacts DEF connects, connectEv
  <2>4. connectFailures \subseteq authorizedTCPFailures
      BY DEF connectFailures, authorizedTCPFailures
  <2>5. Finding("TCP", "ERROR", 2, Target,
                connects \cup (IF hasLookup THEN {lookupEv} ELSE {})) \in evaluateTCP
      BY <2>1, <2>3, <2>4 DEF evaluateTCP
  <2> QED
      BY <2>5, FindingFacts
<1> QED
    BY <1>1, <1>2

\* A sweep nobody cut short that left no path says why.
LEMMA SweepExplains ==
    ASSUME SweepInv, EvidenceInv, pc \in {"returned", "closed"}, ctx = "live",
           \A n \in SweepNodes : ~CutShort(n), \A a \in Addr : ~paths[a].conn
    PROVE  \E f \in TransportFindings : Notable(f)
<1> SUFFICES \E f \in TransportFindings : f.severity = "ERROR"
    BY DEF Notable
<1>0. /\ ~CutShort(dns) /\ \A a \in Addr : ~CutShort(tcp[a]) /\ ~CutShort(tls[a])
    BY DEF SweepNodes
<1>1. CASE \A a \in Addr : tcp[a].state # "PASS"
  <2>1. \A a \in Addr : tcp[a] # NoNode <=> a \in located
      BY DEF SweepInv, AccountInv, CursorInv, Accounted, Dealt, InHand, HandshakeUnderway
  <2>2. \E f \in evaluateDNS \cup evaluateTCP : f.severity = "ERROR"
      BY <1>0, <1>1, <2>1, DialsExplain DEF SweepInv
  <2> QED
      BY <2>2 DEF TransportFindings
<1>2. ASSUME NEW a \in Addr, tcp[a].state = "PASS"
      PROVE  \E f \in TransportFindings : f.severity = "ERROR"
  <2>1. Dealt(a)
      BY <1>2 DEF SweepInv, AccountInv, Accounted, HandshakeUnderway, NoNode
  <2>2. tls[a].state = "FAIL"
      BY <1>0, <1>2, <2>1
      DEF SweepInv, TransportTypeOK, AccountInv, Accounted, EvidenceInv, Explicit, Nodes
  <2>3. handshakeFailures \subseteq DOMAIN tlsClaims
      BY DEF handshakeFailures, tlsClaims
  <2>4. Finding("TLS", "ERROR", 3, Address(a), {handshakeEv(a), connectEv(a)})
          \in TransportFindings
      BY <1>2, <2>2, <2>3 DEF evaluateTLS, TransportFindings
  <2> QED
      BY <2>4, FindingFacts
<1> QED
    BY <1>1, <1>2
=============================================================================
