----------------------------- MODULE RedisJourney -----------------------------
(***************************************************************************)
(* DiagnoseRedis over a transport sweep: a credential-free HELLO on every  *)
(* completed path, one path selected, at most one AUTH on it, the identity *)
(* HELLO an authenticated connection still owes, and PING. Every exchange  *)
(* blocks, the run's context may end during any of them, and an exchange   *)
(* that was cut short leaves its answer on the connection.                 *)
(***************************************************************************)
EXTENDS Journey

VARIABLES
    credential, \* the run carries a credential
    peer,       \* what each address really is
    stage,      \* where measureRedis is
    todo,       \* paths HELLO has not come to yet
    at,         \* the path in hand, then the selected one
    reply,      \* what the exchange in flight returned
    late,       \* an unread answer may still arrive on the selected path
    said,       \* the normalized HELLO of each session, "none" without one
    hello,      \* the redis.hello node of each path
    identity,   \* the post-authentication redis.hello node
    auth,       \* the redis.authentication node
    ping,       \* the redis.ping node
    pingBlocked,\* the blocked-by edge of the redis.ping node
    attempts,   \* times the credential was written to a connection
    incomplete  \* what the Result says

redisGraph == <<hello, identity, auth, ping, pingBlocked>>
redisVars  == <<credential, peer, stage, todo, at, reply, late, said, redisGraph,
                attempts, incomplete>>
journeyVars == <<transportVars, redisVars>>
runVars     == <<params, clockVars, heard, sweepVars, graphVars, conn, session, channel>>

Peers   == {"data", "sentinel"}
Refusals == {"noauth", "unsupported", "denied", "other"}

\* A HELLO, AUTH or PING that got no answer; "limit" is a reply past the size
\* svcdoctor reads.
Unanswered == Broken \cup {"limit"}

\* A session's HELLO answer: the endpoint's mode, or how it refused.
HelloSays(a, r) == IF r = "answered" THEN peer[a] ELSE r
AuthRequired(a) == said[a] = "noauth"
IsSentinel(a)   == said[a] = "sentinel"
HasSession      == {a \in Addr : said[a] # "none"}

classifyHello(r, ended) ==
    CASE r = "answered" -> Node("PASS", "NONE")
      [] r = "denied"   -> Node("FAIL", "TARGET")
      [] r \in Refusals \ {"denied"} -> Node("UNKNOWN", "NONE")
      [] OTHER -> classifyBroken(r, ended)

\* WRONGPASS rejects the credential; any other named condition, a generic ERR
\* included, refuses the command and says no more.
classifyAuth(r, ended) ==
    CASE r = "accepted" -> Node("PASS", "NONE")
      [] r = "rejected" -> Node("FAIL", "REJECTED")
      [] r = "refused"  -> Node("FAIL", "TARGET")
      [] OTHER -> classifyBroken(r, ended)

\* PING: a refusal is not a failure, and the answer to another command is a
\* reply PING does not allow.
classifyPing(r, ended) ==
    CASE r = "pong"    -> Node("PASS", "NONE")
      [] r = "noperm"  -> Node("UNKNOWN", "AUTHZ_DENIED")
      [] r = "refused" -> Node("UNKNOWN", "UNEXPECTED")
      [] r = "stale"   -> IF ended = "live" THEN Node("FAIL", "TARGET")
                          ELSE classifyBroken(r, ended)
      [] OTHER -> classifyBroken(r, ended)

\* An exchange that gave up before its whole answer was read.
LeavesAnswer(r) == r \in {"interrupted", "timeout", "limit"}

-----------------------------------------------------------------------------
(* HELLO on every path.                                                    *)

BeginPaths ==
    /\ pc = "returned"
    /\ stage = "sweep"
    /\ todo' = {a \in Addr : Connected(paths[a])}
    /\ stage' = "paths"
    /\ UNCHANGED <<transportVars, credential, peer, at, reply, late, said, redisGraph,
                   attempts, incomplete>>

\* helloOnPath takes the connection, in the order the paths arrived.
SendHello(a) ==
    /\ stage = "paths"
    /\ a \in todo /\ \A b \in todo : a <= b
    /\ ctx = "live"
    /\ todo' = todo \ {a}
    /\ at' = a
    /\ paths' = [paths EXCEPT ![a] = TakeConn(@)]
    /\ held' = held \cup {a}
    /\ stage' = "hello"
    /\ UNCHANGED <<runVars, pc, open, credential, peer, reply, late, said, redisGraph,
                   attempts, incomplete>>

HelloReturns(r) ==
    /\ stage = "hello"
    /\ MayReturn(r)
    /\ reply' = r
    /\ stage' = "helloRead"
    /\ UNCHANGED <<transportVars, credential, peer, todo, at, late, said, redisGraph,
                   attempts, incomplete>>

\* Record the node; an exchange without an answer closes its connection.
RecordHello ==
    /\ stage = "helloRead"
    /\ hello' = [hello EXCEPT ![at] = classifyHello(reply, ctx)]
    /\ IF reply \in Unanswered
       THEN /\ held' = held \ {at}
            /\ open' = open \ {at}
            /\ UNCHANGED said
       ELSE /\ said' = [said EXCEPT ![at] = HelloSays(at, reply)]
            /\ UNCHANGED <<held, open>>
    /\ stage' = "paths"
    /\ UNCHANGED <<runVars, pc, paths, credential, peer, todo, at, reply, late, identity,
                   auth, ping, pingBlocked, attempts, incomplete>>

\* Every path was asked, or the budget ended and the rest never will be.
PathsDone ==
    /\ stage = "paths"
    /\ todo = {} \/ ctx # "live"
    /\ stage' = "select"
    /\ UNCHANGED <<transportVars, credential, peer, todo, at, reply, late, said, redisGraph,
                   attempts, incomplete>>

-----------------------------------------------------------------------------
(* One path past the credential boundary.                                  *)

Demanding == {a \in HasSession : AuthRequired(a)}

\* continueOneRedisPath up to the credential: the other sessions are closed,
\* and the run stops at an ended budget or a Sentinel.
Select(a) ==
    /\ stage = "select"
    /\ IsChosen(a, HasSession, Demanding, credential)
    /\ at' = a
    /\ open' = open \ (HasSession \ {a})
    /\ held' = held \ (HasSession \ {a})
    /\ stage' = IF ctx # "live" \/ IsSentinel(a) THEN "leave"
                ELSE IF ~AuthRequired(a) /\ ~credential THEN "ping"
                ELSE "authenticate"
    /\ UNCHANGED <<runVars, pc, paths, credential, peer, todo, reply, late, said, redisGraph,
                   attempts, incomplete>>

NothingToSelect ==
    /\ stage = "select"
    /\ HasSession = {}
    /\ stage' = "leave"
    /\ UNCHANGED <<transportVars, credential, peer, todo, at, reply, late, said, redisGraph,
                   attempts, incomplete>>

\* Authenticate without sending: no credential, or a channel the policy refuses.
Withhold ==
    /\ stage = "authenticate"
    /\ ~credential \/ ~PermitsCredentials(channel[at])
    /\ auth' = Node("SKIPPED", IF credential THEN "POLICY" ELSE "INPUT_MISSING")
    /\ stage' = "ping"
    /\ UNCHANGED <<transportVars, credential, peer, todo, at, reply, late, said, hello,
                   identity, ping, pingBlocked, attempts, incomplete>>

SendAuth ==
    /\ stage = "authenticate"
    /\ credential
    /\ PermitsCredentials(channel[at])
    /\ attempts' = attempts + 1
    /\ stage' = "auth"
    /\ UNCHANGED <<transportVars, credential, peer, todo, at, reply, late, said, redisGraph,
                   incomplete>>

AuthReturns(r) ==
    /\ stage = "auth"
    /\ MayReturn(r)
    /\ reply' = r
    /\ stage' = "authRead"
    /\ UNCHANGED <<transportVars, credential, peer, todo, at, late, said, redisGraph,
                   attempts, incomplete>>

\* Mutant: a rejected credential is presented again.
RecordAuthRetries ==
    /\ stage = "authRead"
    /\ auth' = classifyAuth(reply, ctx)
    /\ late' = LeavesAnswer(reply)
    /\ stage' = IF reply = "rejected" /\ attempts < 2 THEN "authenticate" ELSE "ping"
    /\ UNCHANGED <<transportVars, credential, peer, todo, at, reply, said, hello, identity,
                   ping, pingBlocked, attempts, incomplete>>

\* The attempt is recorded, whatever came of it. An authenticated connection
\* whose HELLO was refused is asked again who it is.
RecordAuth ==
    /\ stage = "authRead"
    /\ auth' = classifyAuth(reply, ctx)
    /\ late' = LeavesAnswer(reply)
    /\ stage' = IF reply = "accepted" /\ AuthRequired(at) THEN "identify" ELSE "ping"
    /\ UNCHANGED <<transportVars, credential, peer, todo, at, reply, said, hello, identity,
                   ping, pingBlocked, attempts, incomplete>>

IdentifyReturns(r) ==
    /\ stage = "identify"
    /\ MayReturn(r)
    /\ reply' = r
    /\ stage' = "identifyRead"
    /\ UNCHANGED <<transportVars, credential, peer, todo, at, late, said, redisGraph,
                   attempts, incomplete>>

\* Identify: only an answer replaces what the session said; without one the
\* journey goes on to PING over the same connection.
RecordIdentity ==
    /\ stage = "identifyRead"
    /\ identity' = classifyHello(reply, ctx)
    /\ late' = LeavesAnswer(reply)
    /\ said' = IF reply \in Unanswered THEN said
               ELSE [said EXCEPT ![at] = HelloSays(at, reply)]
    /\ stage' = IF reply = "answered" /\ peer[at] = "sentinel" THEN "leave" ELSE "ping"
    /\ UNCHANGED <<transportVars, credential, peer, todo, at, reply, hello, auth, ping,
                   pingBlocked, attempts, incomplete>>

-----------------------------------------------------------------------------
(* PING.                                                                   *)

\* pingBlocked: an authentication node exists and did not pass. (A run without
\* a credential against an endpoint that asked for none records no such node.)
IsBlocked == auth # NoNode /\ auth.state # "PASS"

SkipPing ==
    /\ stage = "ping"
    /\ IsBlocked
    /\ ping' = Node("SKIPPED", "PREREQUISITE")
    /\ pingBlocked' = TRUE
    /\ stage' = "leave"
    /\ UNCHANGED <<transportVars, credential, peer, todo, at, reply, late, said, hello,
                   identity, auth, attempts, incomplete>>

SendPing ==
    /\ stage = "ping"
    /\ ~IsBlocked
    /\ stage' = "pinging"
    /\ UNCHANGED <<transportVars, credential, peer, todo, at, reply, late, said, redisGraph,
                   attempts, incomplete>>

PingReturns(r) ==
    /\ stage = "pinging"
    /\ MayReturn(r)
    /\ r = "stale" => late
    /\ reply' = r
    /\ stage' = "pingRead"
    /\ UNCHANGED <<transportVars, credential, peer, todo, at, late, said, redisGraph,
                   attempts, incomplete>>

RecordPing ==
    /\ stage = "pingRead"
    /\ ping' = classifyPing(reply, ctx)
    /\ stage' = "leave"
    /\ UNCHANGED <<transportVars, credential, peer, todo, at, reply, late, said, hello,
                   identity, auth, pingBlocked, attempts, incomplete>>

-----------------------------------------------------------------------------
(* The deferred Closes, and the Result.                                    *)

\* Every node the run recorded.
Recorded == SweepNodes \cup {identity, auth, ping} \cup {hello[a] : a \in Addr}

\* Mutant: the sessions are left to the sweep, which no longer owns them.
LeaveKeepsSessions ==
    /\ stage = "leave"
    /\ stage' = "done"
    /\ pc' = "closed"
    /\ paths' = [a \in Addr |-> CloseConn(paths[a])]
    /\ open' = open \ {a \in Addr : Connected(paths[a])}
    /\ incomplete' = incompleteRun(Recorded, FALSE)
    /\ UNCHANGED <<runVars, held, credential, peer, todo, at, reply, late, said, redisGraph,
                   attempts>>

\* measureRedis returns: Sessions and the sweep are closed, and DiagnoseRedis
\* derives the Result from what was recorded.
Leave ==
    /\ stage = "leave"
    /\ stage' = "done"
    /\ pc' = "closed"
    /\ paths' = [a \in Addr |-> CloseConn(paths[a])]
    /\ open' = (open \ {a \in Addr : Connected(paths[a])}) \ HasSession
    /\ held' = held \ HasSession
    /\ incomplete' = incompleteRun(Recorded, FALSE)
    /\ UNCHANGED <<runVars, credential, peer, todo, at, reply, late, said, redisGraph, attempts>>

-----------------------------------------------------------------------------
RedisInit ==
    /\ TransportInit
    /\ ~params.collides /\ params.parentKnown
    /\ credential \in BOOLEAN
    /\ peer \in [Addr -> Peers]
    /\ stage = "sweep"
    /\ todo = {}
    /\ at = CHOOSE a \in Addr : TRUE
    /\ reply = "answered"
    /\ late = FALSE
    /\ said = [a \in Addr |-> "none"]
    /\ hello = [a \in Addr |-> NoNode]
    /\ identity = NoNode
    /\ auth = NoNode
    /\ ping = NoNode
    /\ pingBlocked = FALSE
    /\ attempts = 0
    /\ incomplete = FALSE

Helloing ==
    \/ BeginPaths \/ RecordHello \/ PathsDone
    \/ \E a \in Addr : SendHello(a)
    \/ \E r \in {"answered"} \cup Refusals \cup Unanswered : HelloReturns(r)

Authenticating ==
    \/ NothingToSelect \/ Withhold \/ SendAuth \/ RecordAuth \/ RecordIdentity
    \/ \E a \in Addr : Select(a)
    \/ \E r \in {"accepted", "rejected", "refused"} \cup Unanswered : AuthReturns(r)
    \/ \E r \in {"answered"} \cup Refusals \cup Unanswered : IdentifyReturns(r)

Pinging ==
    \/ SkipPing \/ SendPing \/ RecordPing
    \/ \E r \in {"pong", "noperm", "refused", "stale"} \cup Unanswered : PingReturns(r)

\* The transport phase, and the run's context at every moment.
\* Once the run has returned, nothing reads its context.
Transporting == stage # "done" /\ RunStep /\ UNCHANGED redisVars

RedisOver == (stage = "done" \/ pc = "failed") /\ UNCHANGED journeyVars

RedisNext == Transporting \/ Helloing \/ Authenticating \/ Pinging \/ Leave \/ RedisOver

RedisSpec == RedisInit /\ [][RedisNext]_journeyVars

-----------------------------------------------------------------------------
(* Properties.                                                             *)

\* ADR 0064: in a run the credential crosses at most one connection once, only
\* over a channel whose peer was verified by the handshake of that connection,
\* and never to an endpoint that had said it is a Sentinel.
CredentialDiscipline ==
    /\ attempts <= 1
    /\ attempts = 1 => /\ credential
                       /\ tls[at].state = "PASS" /\ ~params.insecure
                       /\ hello[at].state = "PASS" => peer[at] # "sentinel"

\* Every socket of the journey has one owner until the run leaves, and none is
\* open when it has: sessions given up at selection, broken HELLOs and paths
\* never reached included.
NoSocketOutlivesRun ==
    /\ stage = "done" => open = {}
    /\ stage \notin {"sweep", "done"} =>
         \A a \in open : (a \in held) # Connected(paths[a])

\* PING is sent exactly when nothing before it stood in the way: a PING that
\* ran has no failed or skipped authentication before it, and a skipped one
\* names the authentication node that blocked it.
PingAfterAuthentication ==
    ping # NoNode =>
        /\ pingBlocked = (ping.state = "SKIPPED")
        /\ pingBlocked => auth.state \in {"FAIL", "UNKNOWN", "SKIPPED"}
        /\ ~pingBlocked => auth = NoNode \/ auth.state = "PASS"

\* Nothing that the budget cut off goes unsaid: a finished run that left an
\* address undialled, a kept path without a HELLO, or a step interrupted
\* reports itself incomplete.
UnmeasuredIsIncomplete ==
    stage = "done" /\ ~incomplete =>
        /\ \A a \in located : tcp[a].state # "SKIPPED"
        /\ \A a \in Addr : paths[a].conn => hello[a] # NoNode
        /\ \A n \in Recorded : ~CutShort(n)

\* wire.Conn.exchange: one command, one reply, each step a complete round trip.
\* So a failed PING was failed by the reply to PING, not by the late answer to
\* the HELLO before it.
PingClaimIsPings == ping.state = "FAIL" => reply # "stale"
=============================================================================
