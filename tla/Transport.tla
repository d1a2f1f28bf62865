------------------------------ MODULE Transport ------------------------------
(***************************************************************************)
(* transport.Run: one endpoint is located (a name through the resolver, a  *)
(* literal directly), every address is dialled in canonical order, and TLS *)
(* runs over each established connection when it was asked for. Each probe *)
(* call blocks, may outlive its context, and reads the context again after *)
(* it returned; the caller's context may end at any moment. What the sweep *)
(* leaves behind is evidence and the connections of the completed paths.   *)
(***************************************************************************)
EXTENDS Naturals

CONSTANT Addr   \* the addresses the host may have, numbered canonically

ASSUME AddrAssumption == Addr \subseteq Nat /\ Addr # {}

VARIABLES
    params,     \* the Params of this sweep and the builder it was handed
    ctx,        \* the caller's context: "live", or how it ended
    step,       \* the context of the probe call in flight
    pc,         \* where Run is
    heard,      \* what the probe call in flight returned
    located,    \* the addresses the sweep attempts
    pending,    \* those it has not come to yet
    cur,        \* the address in hand
    dns,        \* the dns.lookup node
    tcp,        \* the tcp.connect node of each address
    tls,        \* the tls.handshake node of each address
    blocked,    \* addresses whose TLS node is blocked by their TCP node
    conn,       \* tcp.Result of the address in hand
    session,    \* tls.Result of the address in hand
    paths,      \* the Continuations of the Result
    channel,    \* what each Continuation proved about its peer
    open,       \* addresses with an open socket
    held        \* sockets the caller took and has not closed

graphVars  == <<dns, tcp, tls, blocked>>
ownerVars  == <<conn, session, paths, channel, open, held>>
sweepVars  == <<located, pending, cur>>
clockVars  == <<ctx, step>>
transportVars == <<params, clockVars, pc, heard, sweepVars, graphVars, ownerVars>>

Endings == {"cancelled", "deadline"}
NoNode  == [state |-> "NONE", class |-> "NONE"]
Node(s, c) == [state |-> s, class |-> c]
Nodes == [state : {"NONE", "PASS", "FAIL", "UNKNOWN", "SKIPPED"},
          class : {"NONE", "TARGET", "CANCELLED", "LOCAL_TIMEOUT", "PREREQUISITE"}]

\* A tcp.Result, a tls.Result and a Continuation own a connection alike.
Holder    == [conn : BOOLEAN, taken : BOOLEAN, closed : BOOLEAN]
Nothing   == [conn |-> FALSE, taken |-> FALSE, closed |-> FALSE]
Holding   == [conn |-> TRUE, taken |-> FALSE, closed |-> FALSE]
Connected(h) == h.conn /\ ~h.taken /\ ~h.closed

\* TakeConn and Close: the only two ways a holder gives its connection up.
TakeConn(h) == IF Connected(h) THEN [h EXCEPT !.taken = TRUE] ELSE h
CloseConn(h) == IF Connected(h) THEN [h EXCEPT !.closed = TRUE] ELSE h
Released(h, a) == IF Connected(h) THEN {a} ELSE {}

\* Mutant: a step context that does not derive from the caller's.
stepContextDetached(c) == "live"

stepContext(c) == c

\* What a probe call can return: the peer's own answer, its own context's end,
\* or a socket deadline the runtime applied before the context's timer fired.
Outcomes == {"ok", "refused", "interrupted", "timeout"}
CanReturn(o) == o = "interrupted" => step # "live"

\* Mutant: the error is classified without asking whose budget it was.
classifyWithoutContext(o, ended) ==
    CASE o = "ok"      -> Node("PASS", "NONE")
      [] o = "timeout" -> Node("UNKNOWN", "LOCAL_TIMEOUT")
      [] OTHER         -> Node("FAIL", "TARGET")

\* classify, of the TCP and of the TLS probe: a completed measurement first,
\* then the context as it is when it is read, then the error itself.
classify(o, ended) ==
    CASE o = "ok"                        -> Node("PASS", "NONE")
      [] o # "ok" /\ ended = "cancelled" -> Node("UNKNOWN", "CANCELLED")
      [] o # "ok" /\ ended = "deadline"  -> Node("UNKNOWN", "LOCAL_TIMEOUT")
      [] o = "timeout" /\ ended = "live" -> Node("UNKNOWN", "LOCAL_TIMEOUT")
      [] OTHER                           -> Node("FAIL", "TARGET")

\* classify, of the DNS probe: an answer without a usable address fails the
\* name, and a timeout the context knows nothing of is the resolver's own.
classifyLookup(o, answers, ended) ==
    CASE o = "ok" /\ answers # {} -> Node("PASS", "NONE")
      [] o = "ok" /\ answers = {} -> Node("FAIL", "TARGET")
      [] o # "ok" /\ ended = "cancelled" -> Node("UNKNOWN", "CANCELLED")
      [] o # "ok" /\ ended = "deadline"  -> Node("UNKNOWN", "LOCAL_TIMEOUT")
      [] OTHER -> Node("FAIL", "TARGET")

budgetFailure(ended) == IF ended = "deadline" THEN "LOCAL_TIMEOUT" ELSE "CANCELLED"

-----------------------------------------------------------------------------
(* The budget and the probe calls in flight.                               *)

Noted   == pc \in {"lookup", "located", "dial", "dialled", "handshake", "handshaken"}

\* The caller's context ends; a step context that is still live ends with it.
CtxEnds(how) ==
    /\ ctx = "live"
    /\ ctx' = how
    /\ step' = IF step = "live" THEN stepContext(how) ELSE step
    /\ UNCHANGED <<params, pc, heard, sweepVars, graphVars, ownerVars>>

\* StepTimeout passes while a probe call is in progress.
StepEnds ==
    /\ params.stepTimeout
    /\ Noted
    /\ step = "live"
    /\ step' = "deadline"
    /\ UNCHANGED <<params, ctx, pc, heard, sweepVars, graphVars, ownerVars>>

\* The resolver answers with spellings of addresses (plain, IPv4-mapped or
\* invalid), or fails on its own account, or is cut short.
LookupReturns(raw, o) ==
    /\ pc = "lookup"
    /\ CanReturn(o)
    /\ o # "ok" => raw = {}
    /\ heard' = o
    /\ located' = {s[1] : s \in {r \in raw : r[2] # "invalid"}}
    /\ pc' = "located"
    /\ UNCHANGED <<params, clockVars, pending, cur, graphVars, ownerVars>>

DialReturns(o) ==
    /\ pc = "dial"
    /\ CanReturn(o)
    /\ heard' = o
    /\ conn' = IF o = "ok" THEN Holding ELSE Nothing
    /\ open' = IF o = "ok" THEN open \cup {cur} ELSE open
    /\ pc' = "dialled"
    /\ UNCHANGED <<params, clockVars, sweepVars, graphVars, session, paths, channel, held>>

HandshakeReturns(o) ==
    /\ pc = "handshake"
    /\ CanReturn(o)
    /\ heard' = o
    /\ pc' = "handshaken"
    /\ UNCHANGED <<params, clockVars, sweepVars, graphVars, ownerVars>>

-----------------------------------------------------------------------------
(* Run itself.                                                             *)

\* Mutant: the error path forgets the connection in hand.
AbandonLeaks(h) ==
    /\ pc' = "failed"
    /\ conn' = h
    /\ paths' = [a \in Addr |-> CloseConn(paths[a])]
    /\ open' = open \ {a \in Addr : Connected(paths[a])}

\* Run returns an error: sweepAddress' deferred Close of the tcp.Result, then
\* Run's own deferred Close of everything the Result still owns.
Abandon(h) ==
    /\ pc' = "failed"
    /\ conn' = CloseConn(h)
    /\ paths' = [a \in Addr |-> CloseConn(paths[a])]
    /\ open' = open \ (Released(h, cur) \cup {a \in Addr : Connected(paths[a])})

\* The builder refuses the sweep's first node when it already holds that
\* identifier, and its parent edge when the parent is not there. Every later
\* node has a fresh identifier and a parent the sweep itself recorded. The
\* caller drops the builder with the error.
FirstRefused == params.collides \/ ~params.parentKnown
AddRefused == params.literal /\ FirstRefused

\* locate, after the lookup: record it and read the answers back.
RecordLookup ==
    /\ pc = "located"
    /\ ~FirstRefused
    /\ dns' = classifyLookup(heard, located, step)
    /\ pending' = located
    /\ pc' = "sweep"
    /\ UNCHANGED <<params, clockVars, heard, located, cur, tcp, tls, blocked, ownerVars>>

LookupRefused ==
    /\ pc = "located"
    /\ FirstRefused
    /\ Abandon(Nothing)
    /\ UNCHANGED <<params, clockVars, heard, sweepVars, graphVars, session, channel, held>>

\* a is the next address in canonical order.
IsNext(a) == a \in pending /\ \A b \in pending : a <= b

\* sweepAddress, budget still there: dial.
Attempt(a) ==
    /\ pc = "sweep"
    /\ IsNext(a)
    /\ ctx = "live"
    /\ cur' = a
    /\ pending' = pending \ {a}
    /\ step' = stepContext(ctx)
    /\ conn' = Nothing
    /\ session' = Nothing
    /\ pc' = "dial"
    /\ UNCHANGED <<params, ctx, heard, located, graphVars, paths, channel, open, held>>

\* sweepAddress, budget gone: recordUnattempted.
RecordUnattempted(a) ==
    /\ pc = "sweep"
    /\ IsNext(a)
    /\ ctx # "live"
    /\ ~AddRefused
    /\ cur' = a
    /\ pending' = pending \ {a}
    /\ tcp' = [tcp EXCEPT ![a] = Node("SKIPPED", budgetFailure(ctx))]
    /\ tls' = IF params.tls
              THEN [tls EXCEPT ![a] = Node("SKIPPED", "PREREQUISITE")] ELSE tls
    /\ blocked' = IF params.tls THEN blocked \cup {a} ELSE blocked
    /\ UNCHANGED <<params, clockVars, pc, heard, located, dns, ownerVars>>

UnattemptedRefused ==
    /\ pc = "sweep"
    /\ pending # {}
    /\ ctx # "live"
    /\ AddRefused
    /\ Abandon(Nothing)
    /\ UNCHANGED <<params, clockVars, heard, sweepVars, graphVars, session, channel, held>>

\* The dial is recorded, and the builder refuses the node.
DialRefused ==
    /\ pc = "dialled"
    /\ AddRefused
    /\ Abandon(conn)
    /\ UNCHANGED <<params, clockVars, heard, sweepVars, graphVars, session, channel, held>>

\* No connection: a TLS node that was asked for is skipped, blocked by TCP.
DialFailed ==
    /\ pc = "dialled"
    /\ ~AddRefused
    /\ ~Connected(conn)
    /\ tcp' = [tcp EXCEPT ![cur] = classify(heard, step)]
    /\ tls' = IF params.tls
              THEN [tls EXCEPT ![cur] = Node("SKIPPED", "PREREQUISITE")] ELSE tls
    /\ blocked' = IF params.tls THEN blocked \cup {cur} ELSE blocked
    /\ pc' = "sweep"
    /\ UNCHANGED <<params, clockVars, heard, sweepVars, dns, ownerVars>>

\* A connection and no TLS asked for: a plaintext path.
PlaintextPath ==
    /\ pc = "dialled"
    /\ ~AddRefused
    /\ Connected(conn)
    /\ ~params.tls
    /\ tcp' = [tcp EXCEPT ![cur] = classify(heard, step)]
    /\ conn' = TakeConn(conn)
    /\ paths' = [paths EXCEPT ![cur] = Holding]
    /\ channel' = [channel EXCEPT ![cur] = "plaintext"]
    /\ pc' = "sweep"
    /\ UNCHANGED <<params, clockVars, heard, sweepVars, dns, tls, blocked, session, open, held>>

\* Mutant: the handshake borrows the connection instead of taking it.
BeginHandshakeBorrowed ==
    /\ pc = "dialled"
    /\ ~AddRefused
    /\ Connected(conn)
    /\ params.tls
    /\ params.usableName
    /\ tcp' = [tcp EXCEPT ![cur] = classify(heard, step)]
    /\ session' = Holding
    /\ step' = stepContext(ctx)
    /\ pc' = "handshake"
    /\ UNCHANGED <<params, ctx, heard, sweepVars, dns, tls, blocked, conn, paths, channel,
                   open, held>>

\* handshake: the connection is taken and tls.Handshake owns it from here on.
BeginHandshake ==
    /\ pc = "dialled"
    /\ ~AddRefused
    /\ Connected(conn)
    /\ params.tls
    /\ params.usableName
    /\ tcp' = [tcp EXCEPT ![cur] = classify(heard, step)]
    /\ conn' = TakeConn(conn)
    /\ session' = Holding
    /\ step' = stepContext(ctx)
    /\ pc' = "handshake"
    /\ UNCHANGED <<params, ctx, heard, sweepVars, dns, tls, blocked, paths, channel, open, held>>

\* tls.Handshake refuses its own parameters: it closes the connection it was
\* given and Run fails.
HandshakeUnusable ==
    /\ pc = "dialled"
    /\ ~AddRefused
    /\ Connected(conn)
    /\ params.tls
    /\ ~params.usableName
    /\ tcp' = [tcp EXCEPT ![cur] = classify(heard, step)]
    /\ Abandon(conn)
    /\ UNCHANGED <<params, clockVars, heard, sweepVars, dns, tls, blocked, session, channel,
                   held>>

\* Mutant: the failed handshake's connection is kept as a path.
HandshakeFailedKept ==
    /\ pc = "handshaken"
    /\ heard # "ok"
    /\ tls' = [tls EXCEPT ![cur] = classify(heard, step)]
    /\ paths' = [paths EXCEPT ![cur] = Holding]
    /\ channel' = [channel EXCEPT ![cur] = "tls_unverified"]
    /\ session' = Nothing
    /\ pc' = "sweep"
    /\ UNCHANGED <<params, clockVars, heard, sweepVars, dns, tcp, blocked, conn, open, held>>

\* A failed handshake closes the connection before the Result exists.
HandshakeFailed ==
    /\ pc = "handshaken"
    /\ heard # "ok"
    /\ tls' = [tls EXCEPT ![cur] = classify(heard, step)]
    /\ open' = open \ Released(session, cur)
    /\ session' = Nothing
    /\ pc' = "sweep"
    /\ UNCHANGED <<params, clockVars, heard, sweepVars, dns, tcp, blocked, conn, paths,
                   channel, held>>

\* A completed handshake hands the wrapped connection to the Result.
EncryptedPath ==
    /\ pc = "handshaken"
    /\ heard = "ok"
    /\ tls' = [tls EXCEPT ![cur] = classify(heard, step)]
    /\ session' = TakeConn(session)
    /\ paths' = [paths EXCEPT ![cur] = Holding]
    /\ channel' = [channel EXCEPT ![cur] =
                     IF params.insecure THEN "tls_unverified" ELSE "tls_verified"]
    /\ pc' = "sweep"
    /\ UNCHANGED <<params, clockVars, heard, sweepVars, dns, tcp, blocked, conn, open, held>>

\* Every address was dealt with: the caller gets the Result.
Return ==
    /\ pc = "sweep"
    /\ pending = {}
    /\ pc' = "returned"
    /\ UNCHANGED <<params, clockVars, heard, sweepVars, graphVars, ownerVars>>

-----------------------------------------------------------------------------
(* Any caller of Run: it takes connections, closes what it took, and its   *)
(* deferred Close releases the Result whenever it leaves.                  *)

CallerTakes(a) ==
    /\ pc = "returned"
    /\ Connected(paths[a])
    /\ paths' = [paths EXCEPT ![a] = TakeConn(@)]
    /\ held' = held \cup {a}
    /\ UNCHANGED <<params, clockVars, pc, heard, sweepVars, graphVars, conn, session,
                   channel, open>>

CallerCloses(a) ==
    /\ pc \in {"returned", "closed"}
    /\ a \in held
    /\ held' = held \ {a}
    /\ open' = open \ {a}
    /\ UNCHANGED <<params, clockVars, pc, heard, sweepVars, graphVars, conn, session,
                   paths, channel>>

\* Result.Close: every path it still owns, and none that was taken.
CloseResult ==
    /\ pc = "returned"
    /\ pc' = "closed"
    /\ paths' = [a \in Addr |-> CloseConn(paths[a])]
    /\ open' = open \ {a \in Addr : Connected(paths[a])}
    /\ UNCHANGED <<params, clockVars, heard, sweepVars, graphVars, conn, session, channel, held>>

-----------------------------------------------------------------------------
Params == [literal : BOOLEAN, tls : BOOLEAN, insecure : BOOLEAN, usableName : BOOLEAN,
           stepTimeout : BOOLEAN,
           collides : BOOLEAN, parentKnown : BOOLEAN]

Spellings == Addr \X {"plain", "mapped", "invalid"}

TransportInit ==
    /\ params \in Params
    /\ ctx \in {"live"} \cup Endings
    /\ step = ctx
    /\ heard = "ok"
    /\ located \in IF params.literal THEN {{a} : a \in Addr} ELSE {{}}
    /\ pending = located
    /\ pc = IF params.literal THEN "sweep" ELSE "lookup"
    /\ cur = CHOOSE a \in Addr : TRUE
    /\ dns = NoNode
    /\ tcp = [a \in Addr |-> NoNode]
    /\ tls = [a \in Addr |-> NoNode]
    /\ blocked = {}
    /\ conn = Nothing
    /\ session = Nothing
    /\ paths = [a \in Addr |-> Nothing]
    /\ channel = [a \in Addr |-> "unknown"]
    /\ open = {}
    /\ held = {}

Returns ==
    \/ pc = "lookup" /\ \E raw \in SUBSET Spellings, o \in Outcomes : LookupReturns(raw, o)
    \/ \E o \in Outcomes : DialReturns(o) \/ HandshakeReturns(o)

Records ==
    \/ RecordLookup \/ LookupRefused
    \/ UnattemptedRefused \/ \E a \in Addr : Attempt(a) \/ RecordUnattempted(a)
    \/ DialRefused \/ DialFailed \/ PlaintextPath \/ BeginHandshake \/ HandshakeUnusable
    \/ HandshakeFailed \/ EncryptedPath
    \/ Return

Budget == StepEnds \/ \E how \in Endings : CtxEnds(how)

RunStep == Returns \/ Records \/ Budget

CallerStep == CloseResult \/ \E a \in Addr : CallerTakes(a) \/ CallerCloses(a)

\* The sweep is over and everything was given back.
Quiet == pc = "failed" \/ (pc = "closed" /\ held = {})

TransportNext == RunStep \/ CallerStep \/ (Quiet /\ UNCHANGED transportVars)

TransportSpec == TransportInit /\ [][TransportNext]_transportVars

\* The command always gives the run a deadline, the runtime schedules the
\* goroutine, and every blocking call honours its context.
TransportFairness ==
    /\ WF_transportVars(CtxEnds("deadline"))
    /\ WF_transportVars(Records)
    /\ WF_transportVars(step # "live" /\ Returns)

-----------------------------------------------------------------------------
(* Properties.                                                             *)

\* Run's state stays within its types through every outcome of the resolver,
\* the dialer and the handshake.
TransportTypeOK ==
    /\ params \in Params
    /\ ctx \in {"live"} \cup Endings
    /\ step \in {"live"} \cup Endings
    /\ pc \in {"lookup", "located", "sweep", "dial", "dialled", "handshake",
               "handshaken", "returned", "failed", "closed"}
    /\ heard \in Outcomes
    /\ located \in SUBSET Addr
    /\ pending \in SUBSET Addr
    /\ cur \in Addr
    /\ dns \in Nodes
    /\ tcp \in [Addr -> Nodes]
    /\ tls \in [Addr -> Nodes]
    /\ blocked \in SUBSET Addr
    /\ conn \in Holder
    /\ session \in Holder
    /\ paths \in [Addr -> Holder]
    /\ channel \in [Addr -> {"unknown", "plaintext", "tls_unverified", "tls_verified"}]
    /\ open \in SUBSET Addr
    /\ held \in SUBSET Addr

Owner == {"tcp", "tls", "result", "caller"}

\* Whether holder o has the connection to address a at its disposal.
Owns(o, a) ==
    \/ o = "tcp" /\ a = cur /\ Connected(conn)
    \/ o = "tls" /\ a = cur /\ Connected(session)
    \/ o = "result" /\ Connected(paths[a])
    \/ o = "caller" /\ a \in held

\* ADR 0021's ownership rule for tcp.Result, tls.Result, Continuation and the
\* caller: an open socket has exactly one owner, and nobody holds a closed one,
\* through dialling, handshaking, transfer and every Close.
OneOwner ==
    \A a \in Addr :
        IF a \in open
        THEN \E o \in Owner : Owns(o, a) /\ \A p \in Owner : Owns(p, a) => p = o
        ELSE \A o \in Owner : ~Owns(o, a)

\* Run's cleanup contract: a failed Run leaves no socket open, a returned one
\* only those of its paths and its caller, a closed one only the caller's.
NothingLeaks ==
    /\ pc = "failed" => open = {}
    /\ pc = "returned" => \A a \in open : Connected(paths[a]) \/ a \in held
    /\ pc = "closed" => open = held

\* When Run returns, each located address has one account of itself: TCP was
\* recorded, TLS exactly if it was asked for, TLS is skipped and blocked by TCP
\* exactly when TCP handed it no connection, and a path was kept exactly when
\* the deepest layer passed.
EveryAddressAccounted ==
    pc \in {"returned", "closed"} =>
        \A a \in Addr :
            /\ (tcp[a] # NoNode) = (a \in located)
            /\ (tls[a] # NoNode) = (a \in located /\ params.tls)
            /\ (a \in blocked) = (tls[a].state = "SKIPPED")
            /\ (tls[a].state = "SKIPPED") = (params.tls /\ a \in located /\ tcp[a].state # "PASS")
            /\ paths[a].conn = (IF params.tls THEN tls[a].state = "PASS"
                                ELSE tcp[a].state = "PASS")

\* svcdoctor's own budget is never blamed on the target: a probe call that its
\* context interrupted, and an address nobody tried, never become a FAIL, and a
\* completed call never becomes anything but a PASS.
NoFalseBlame ==
    [][ /\ pc = "located" /\ dns' # dns =>
              (heard = "interrupted" => dns'.state = "UNKNOWN")
        /\ pc = "dialled" /\ tcp'[cur] # tcp[cur] =>
              /\ heard \in {"interrupted", "timeout"} => tcp'[cur].state = "UNKNOWN"
              /\ heard = "ok" => tcp'[cur].state = "PASS"
        /\ pc = "handshaken" /\ tls'[cur] # tls[cur] =>
              /\ heard \in {"interrupted", "timeout"} => tls'[cur].state = "UNKNOWN"
              /\ heard = "ok" => tls'[cur].state = "PASS"
        /\ \A a \in Addr : pc = "sweep" /\ tcp'[a] # tcp[a] => tcp'[a].state = "SKIPPED"
      ]_transportVars

\* A sweep always comes back to its caller, whatever the peer does, because
\* every probe call's context derives from the caller's.
SweepReturns == <>(pc \in {"returned", "failed"})
=============================================================================
