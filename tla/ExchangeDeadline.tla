--------------------------- MODULE ExchangeDeadline ---------------------------
(***************************************************************************)
(* bindDeadline, of the four wire packages: the exchanges of a service     *)
(* adapter on one connection, one after the other. Each exchange derives a *)
(* step context, puts its deadline on the socket, starts a goroutine that  *)
(* expires the socket when the context ends, blocks in Write and Read, and *)
(* releases: it closes `done`, waits for the goroutine (PostgreSQL, Redis, *)
(* RabbitMQ) or does not (Kafka), clears the deadline, and cancels.        *)
(***************************************************************************)
EXTENDS Naturals

CONSTANTS
    Exchanges,  \* exchanges on the connection
    Awaits,     \* release waits for `stopped`
    HasTimeout  \* the context of an exchange has a deadline

ASSUME ExchangeAssumption ==
    Exchanges \in Nat \ {0} /\ Awaits \in BOOLEAN /\ HasTimeout \in BOOLEAN

VARIABLES
    k,          \* the exchange in progress, or the last one
    doing,         \* the goroutine that performs it
    caller,     \* the adapter's own context has been cancelled
    passed,     \* exchanges whose step deadline has passed
    ended,      \* exchanges whose step context is done
    done,       \* exchanges whose `done` channel is closed
    watcher,    \* the goroutine each bindDeadline started
    socket      \* the deadline on the socket

deadlineVars == <<k, doing, caller, passed, ended, done, watcher, socket>>

Exchange == 1..Exchanges

-----------------------------------------------------------------------------
(* The exchange.                                                           *)

\* Derive the step context, then bindDeadline: SetDeadline and go watch.
Bind ==
    /\ doing = "idle"
    /\ k < Exchanges
    /\ k' = k + 1
    /\ socket' = IF HasTimeout THEN "armed" ELSE socket
    /\ ended' = IF caller THEN ended \cup {k + 1} ELSE ended
    /\ watcher' = [watcher EXCEPT ![k + 1] = "started"]
    /\ doing' = "io"
    /\ UNCHANGED <<caller, passed, done>>

\* The peer answers, or closes: the exchange is over and the socket usable.
Answered ==
    /\ doing = "io"
    /\ socket # "expired"
    /\ doing' = "release"
    /\ UNCHANGED <<k, caller, passed, ended, done, watcher, socket>>

\* Write or Read fails because the deadline on the socket is in the past.
TimedOut ==
    /\ doing = "io"
    /\ socket = "expired"
    /\ doing' = "releaseFailed"
    /\ UNCHANGED <<k, caller, passed, ended, done, watcher, socket>>

\* A goroutine parked in its select is handed the channel that became ready.
Wake(w, ready) == IF w = "parked" THEN ready ELSE w

\* release: close(done).
CloseDone ==
    /\ doing \in {"release", "releaseFailed"}
    /\ k \notin done
    /\ done' = done \cup {k}
    /\ watcher' = [watcher EXCEPT ![k] = Wake(@, "wokenByDone")]
    /\ UNCHANGED <<k, doing, caller, passed, ended, socket>>

\* Mutant: release clears the deadline without waiting for the goroutine.
MayClearAtOnce == k \in done

\* <-stopped, where the package has it.
MayClear == k \in done /\ (Awaits => watcher[k] = "exited")

\* release: SetDeadline(time.Time{}), the last thing it does.
ClearDeadline ==
    /\ doing \in {"release", "releaseFailed"}
    /\ MayClear
    /\ socket' = "none"
    /\ doing' = IF doing = "release" THEN "cancel" ELSE "cancelFailed"
    /\ UNCHANGED <<k, caller, passed, ended, done, watcher>>

\* The adapter's deferred cancel of the step context; the connection moves on.
\* Most adapters give up a connection on which an exchange failed; Redis goes on
\* to PING after a HELLO for identity that timed out.
CancelStep ==
    /\ doing \in {"cancel", "cancelFailed"}
    /\ ended' = ended \cup {k}
    /\ watcher' = [watcher EXCEPT ![k] = Wake(@, "wokenByCtx")]
    /\ \/ doing' = "idle"
       \/ doing = "cancelFailed" /\ doing' = "failed"
    /\ UNCHANGED <<k, caller, passed, done, socket>>

-----------------------------------------------------------------------------
(* Time, the caller and the watchers.                                      *)

\* The step deadline passes: the runtime expires the socket it was put on.
DeadlinePasses ==
    /\ HasTimeout
    /\ doing \in {"io", "release", "releaseFailed"}
    /\ k \notin passed
    /\ passed' = passed \cup {k}
    /\ socket' = IF socket = "armed" THEN "expired" ELSE socket
    /\ UNCHANGED <<k, doing, caller, ended, done, watcher>>

\* The context's own timer fires for a deadline that has passed.
CtxTimer(x) ==
    /\ x \in passed \ ended
    /\ ended' = ended \cup {x}
    /\ watcher' = [watcher EXCEPT ![x] = Wake(@, "wokenByCtx")]
    /\ UNCHANGED <<k, doing, caller, passed, done, socket>>

\* The run is cancelled: the step context in use ends with it.
CallerCancels ==
    /\ ~caller
    /\ doing # "failed"
    /\ caller' = TRUE
    /\ ended' = IF doing = "idle" THEN ended ELSE ended \cup {k}
    /\ watcher' = IF doing = "idle" THEN watcher
                  ELSE [watcher EXCEPT ![k] = Wake(@, "wokenByCtx")]
    /\ UNCHANGED <<k, doing, passed, done, socket>>

\* A watcher reaches its select: it parks when neither channel is ready, and
\* picks either one when both are.
Park(x) ==
    /\ watcher[x] = "started"
    /\ x \notin ended
    /\ x \notin done
    /\ watcher' = [watcher EXCEPT ![x] = "parked"]
    /\ UNCHANGED <<k, doing, caller, passed, ended, done, socket>>

\* Mutant: the watcher sees the context end and does not touch the socket.
ExpireSocketForgets(x) ==
    /\ watcher[x] = "wokenByCtx" \/ (watcher[x] = "started" /\ x \in ended)
    /\ watcher' = [watcher EXCEPT ![x] = "exited"]
    /\ UNCHANGED <<k, doing, caller, passed, ended, done, socket>>

\* case <-ctx.Done(): SetDeadline(time.Now()).
ExpireSocket(x) ==
    /\ watcher[x] = "wokenByCtx" \/ (watcher[x] = "started" /\ x \in ended)
    /\ watcher' = [watcher EXCEPT ![x] = "exited"]
    /\ socket' = "expired"
    /\ UNCHANGED <<k, doing, caller, passed, ended, done>>

\* case <-done.
LeaveQuietly(x) ==
    /\ watcher[x] = "wokenByDone" \/ (watcher[x] = "started" /\ x \in done)
    /\ watcher' = [watcher EXCEPT ![x] = "exited"]
    /\ UNCHANGED <<k, doing, caller, passed, ended, done, socket>>

-----------------------------------------------------------------------------
DeadlineIdle ==
    /\ k = 0
    /\ caller = FALSE
    /\ passed = {}
    /\ ended = {}
    /\ done = {}
    /\ watcher = [x \in Exchange |-> "none"]
    /\ socket = "none"

DeadlineInit == DeadlineIdle /\ doing = "idle"

Releases == CloseDone \/ ClearDeadline \/ CancelStep
Watchers == \E x \in Exchange : Park(x) \/ ExpireSocket(x) \/ LeaveQuietly(x)

\* No exchange is left on the connection, or it was given up.
Over ==
    /\ doing = "failed" \/ (doing = "idle" /\ k = Exchanges)
    /\ UNCHANGED deadlineVars

DeadlineNext ==
    \/ Bind \/ Answered \/ TimedOut \/ Releases
    \/ Watchers
    \/ DeadlinePasses \/ CallerCancels \/ \E x \in Exchange : CtxTimer(x)
    \/ Over

DeadlineSpec == DeadlineInit /\ [][DeadlineNext]_deadlineVars

\* The runtime runs every goroutine that can run, and timers fire.
DeadlineFairness ==
    /\ WF_deadlineVars(TimedOut)
    /\ WF_deadlineVars(Releases)
    /\ \A x \in Exchange :
         /\ WF_deadlineVars(Park(x) \/ ExpireSocket(x) \/ LeaveQuietly(x))
         /\ WF_deadlineVars(CtxTimer(x))

DeadlineFairSpec == DeadlineSpec /\ DeadlineFairness

-----------------------------------------------------------------------------
(* Properties.                                                             *)

\* bindDeadline's promise: between two exchanges the connection carries no
\* deadline, so whoever uses it next finds it as if nothing had happened.
CleanHandover == doing \in {"idle", "cancel", "cancelFailed", "failed"} => socket = "none"

\* An exchange times out only on its own account: its step deadline passed or
\* its context ended, never because an earlier exchange's watcher ran late.
TimeoutIsOwn == doing \in {"releaseFailed", "cancelFailed", "failed"} => k \in passed \cup ended

\* A cancelled run unblocks the read it is waiting in.
CancelUnblocks == (caller /\ doing = "io") ~> (doing # "io")
=============================================================================
