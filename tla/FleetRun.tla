------------------------------ MODULE FleetRun ------------------------------
(***************************************************************************)
(* The multi-target scheduler (internal/fleet/run): a dispatcher offers    *)
(* target indices over an unbuffered channel to a bounded pool of workers, *)
(* every worker resolves the target's credential, runs its diagnosis under *)
(* a context derived from the run's and writes one slot of the results     *)
(* slice; when all workers have returned, the slots nobody filled become   *)
(* NOT_STARTED and the aggregate is built.                                 *)
(*                                                                         *)
(* Three contexts end concurrently with all of this: the caller's (a       *)
(* signal), the run's (run.timeout) and each target's (its own timeout).   *)
(* A context's error is "none" while it is live and never changes once set.*)
(***************************************************************************)
EXTENDS Naturals

CONSTANTS
    N,              \* number of declared targets
    Workers,        \* the worker goroutines; their number is run.concurrency
    WithReference,  \* targets that declare a credential reference
    HasRunBudget,   \* whether run.timeout is set
    CallerEndings   \* how the caller's own context may end

ASSUME FleetAssumption ==
    /\ N \in Nat \ {0}
    /\ Workers # {}
    /\ WithReference \subseteq 1..N
    /\ HasRunBudget \in BOOLEAN
    /\ CallerEndings \subseteq {"canceled", "deadline"}

Targets == 1..N

VARIABLES
    root,       \* ctx.Err(): the caller's context
    runErr,     \* runCtx.Err(): set by the caller's end or by run.timeout
    timedOut,   \* targets whose own budget expired while they were running
    lost,       \* targets whose preflighted credential material has vanished
    next,       \* the index dispatch offers next
    main,       \* the goroutine of execute: where it is
    pc, cur, out,   \* per worker: where it is, its index, its runner's Outcome
    results,    \* the index-addressed results slice
    touched,    \* targets whose secret was read or whose runner was called
    stopped     \* the aggregate's StoppedReason

ctxVars    == <<root, runErr, timedOut, lost>>
workerVars == <<pc, cur, out>>
fleetVars  == <<root, runErr, timedOut, lost, next, main, pc, cur, out,
                results, touched, stopped>>

CtxErrors == {"none", "canceled", "deadline"}
Stages    == {"idle", "offered", "resolving", "measuring", "measured", "exited"}
States    == {"UNSPECIFIED", "COMPLETED", "NOT_STARTED", "CANCELLED",
              "EXECUTION_FAILED"}
ErrorClasses == {"none", "CREDENTIAL_RESOLUTION", "INTERNAL"}
Reasons      == {"NONE", "RUN_BUDGET_EXHAUSTED", "CANCELLED"}

TargetResult == [state : States, class : ErrorClasses,
                 incomplete : BOOLEAN, problems : BOOLEAN]
Outcome == [failed : BOOLEAN, incomplete : BOOLEAN, problems : BOOLEAN]

-----------------------------------------------------------------------------
(* Target results: the domain's constructors.                              *)

Slot(state, class, incomplete, problems) ==
    [state |-> state, class |-> class,
     incomplete |-> incomplete, problems |-> problems]

ZeroResult         == Slot("UNSPECIFIED", "none", FALSE, FALSE)
NotStartedTarget   == Slot("NOT_STARTED", "none", FALSE, FALSE)
FailedTarget(c)    == Slot("EXECUTION_FAILED", c, FALSE, FALSE)
CancelledTarget(o) == Slot("CANCELLED", "none", o.incomplete, o.problems)
CompletedTarget(o) == Slot("COMPLETED", "none", o.incomplete, o.problems)

IsZero(r) == r.state = "UNSPECIFIED"

NoOutcome == [failed |-> FALSE, incomplete |-> FALSE, problems |-> FALSE]

-----------------------------------------------------------------------------
(* Contexts.                                                               *)

RunDone == runErr # "none"

\* A target's context is derived from the run's, so it is done as soon as
\* either ends.
TargetDone(t) == RunDone \/ t \in timedOut

\* The caller's context ends (cli.WatchInterrupts calls cancel()); the run's
\* context ends with it.
CallerEnds(e) ==
    /\ root = "none"
    /\ root' = e
    /\ runErr' = IF RunDone THEN runErr ELSE e
    /\ UNCHANGED <<timedOut, lost, next, main, workerVars, results, touched,
                   stopped>>

\* run.timeout expires while execute has not returned.
RunDeadline ==
    /\ HasRunBudget /\ ~RunDone /\ main # "published"
    /\ runErr' = "deadline"
    /\ UNCHANGED <<root, timedOut, lost, next, main, workerVars, results,
                   touched, stopped>>

\* A running target's own timeout expires; its siblings keep their contexts.
TargetDeadline(w) ==
    /\ pc[w] = "measuring"
    /\ ~TargetDone(cur[w])
    /\ timedOut' = timedOut \cup {cur[w]}
    /\ UNCHANGED <<root, runErr, lost, next, main, workerVars, results,
                   touched, stopped>>

\* The file or variable behind a reference that preflight found disappears.
SecretLost(t) ==
    /\ t \in WithReference \ lost
    /\ lost' = lost \cup {t}
    /\ UNCHANGED <<root, runErr, timedOut, next, main, workerVars, results,
                   touched, stopped>>

-----------------------------------------------------------------------------
(* The dispatcher and the workers.                                         *)

Goto(w, stage) == pc' = [pc EXCEPT ![w] = stage]

\* A worker records the result of its index and asks for the next one.
Finish(w, r) ==
    /\ results' = [results EXCEPT ![cur[w]] = r]
    /\ Goto(w, "idle")
    /\ out' = [out EXCEPT ![w] = NoOutcome]
    /\ UNCHANGED <<ctxVars, next, main, cur, stopped>>

\* Mutant: the loop offers the same index again.
OfferSameIndex(w) ==
    /\ main = "dispatching" /\ next <= N
    /\ pc[w] = "idle"
    /\ Goto(w, "offered")
    /\ cur' = [cur EXCEPT ![w] = next]
    /\ next' \in {next, next + 1}
    /\ UNCHANGED <<ctxVars, main, out, results, touched, stopped>>

\* dispatch: the select may pick the send although the run has just ended,
\* so the offer is not guarded by the run's context.
Offer(w) ==
    /\ main = "dispatching" /\ next <= N
    /\ pc[w] = "idle"
    /\ Goto(w, "offered")
    /\ cur' = [cur EXCEPT ![w] = next]
    /\ next' = next + 1
    /\ UNCHANGED <<ctxVars, main, out, results, touched, stopped>>

\* dispatch returns and closes the channel.
StopDispatch ==
    /\ main = "dispatching"
    /\ RunDone \/ next > N
    /\ main' = "waiting"
    /\ UNCHANGED <<ctxVars, next, workerVars, results, touched, stopped>>

\* The range over the closed channel ends: wg.Done().
WorkerExit(w) ==
    /\ main # "dispatching" /\ pc[w] = "idle"
    /\ Goto(w, "exited")
    /\ UNCHANGED <<ctxVars, next, main, cur, out, results, touched, stopped>>

\* runOne's first check: a target offered as the run ended is not started.
CheckRun(w) ==
    /\ pc[w] = "offered"
    /\ IF RunDone
       THEN Finish(w, NotStartedTarget) /\ UNCHANGED touched
       ELSE /\ Goto(w, "resolving")
            /\ UNCHANGED <<ctxVars, next, main, cur, out, results, touched,
                           stopped>>

\* Resolver.CredentialFor: a target with no reference resolves to the zero
\* credential; Resolve refuses a run that has ended and material that is gone.
Resolvable(t) == t \in WithReference => ~RunDone /\ t \notin lost

CredentialFor(w) ==
    /\ pc[w] = "resolving"
    /\ IF Resolvable(cur[w])
       THEN /\ Goto(w, "measuring")
            /\ touched' = touched \cup {cur[w]}
            /\ UNCHANGED <<ctxVars, next, main, cur, out, results, stopped>>
       ELSE Finish(w, FailedTarget("CREDENTIAL_RESOLUTION"))
            /\ UNCHANGED touched

\* runner.Run returns. Every composition root reports itself incomplete when
\* its context is done; a step budget makes a live one incomplete too.
RunnerReturns(w) ==
    /\ pc[w] = "measuring"
    /\ \E o \in Outcome :
         /\ o.failed => ~o.incomplete /\ ~o.problems
         /\ TargetDone(cur[w]) => o.failed \/ o.incomplete
         /\ out' = [out EXCEPT ![w] = o]
    /\ Goto(w, "measured")
    /\ UNCHANGED <<ctxVars, next, main, cur, results, touched, stopped>>

\* Mutant: a target the run cut off is reported as never started.
classifyAsNotStarted(o) ==
    IF o.failed THEN FailedTarget("INTERNAL")
    ELSE IF RunDone /\ o.incomplete THEN NotStartedTarget
    ELSE CompletedTarget(o)

\* Mutant: CANCELLED for any incomplete outcome, a target's own timeout included.
classifyIncomplete(o) ==
    IF o.failed THEN FailedTarget("INTERNAL")
    ELSE IF o.incomplete THEN CancelledTarget(o)
    ELSE CompletedTarget(o)

\* A runner's error is EXECUTION_FAILED; otherwise "did the run end this".
classify(o) ==
    IF o.failed THEN FailedTarget("INTERNAL")
    ELSE IF RunDone /\ o.incomplete THEN CancelledTarget(o)
    ELSE CompletedTarget(o)

Classify(w) ==
    /\ pc[w] = "measured"
    /\ Finish(w, classify(out[w]))
    /\ UNCHANGED touched

-----------------------------------------------------------------------------
(* The aggregate.                                                          *)

stoppedReason(rs) ==
    IF \A t \in Targets : rs[t].state \notin {"NOT_STARTED", "CANCELLED"}
    THEN "NONE"
    ELSE IF root = "deadline" THEN "RUN_BUDGET_EXHAUSTED"
    ELSE IF root # "none" THEN "CANCELLED"
    ELSE IF RunDone THEN "RUN_BUDGET_EXHAUSTED"
    ELSE "NONE"

FillNotStarted(rs) ==
    [t \in Targets |-> IF IsZero(rs[t]) THEN NotStartedTarget ELSE rs[t]]

\* Mutant: no wg.Wait.
PublishWithoutWait ==
    /\ main = "waiting"
    /\ results' = FillNotStarted(results)
    /\ stopped' = stoppedReason(FillNotStarted(results))
    /\ main' = "published"
    /\ UNCHANGED <<ctxVars, next, workerVars, touched>>

\* After wg.Wait: fill the empty slots, name the reason, build the report.
Publish ==
    /\ main = "waiting"
    /\ \A w \in Workers : pc[w] = "exited"
    /\ results' = FillNotStarted(results)
    /\ stopped' = stoppedReason(FillNotStarted(results))
    /\ main' = "published"
    /\ UNCHANGED <<ctxVars, next, workerVars, touched>>

\* The two facts of the run summary an exit code is derived from.
Incomplete(rs) ==
    \E t \in Targets : rs[t].state # "COMPLETED" \/ rs[t].incomplete
ProblemsFound(rs) == \E t \in Targets : rs[t].problems

-----------------------------------------------------------------------------

FleetInit ==
    /\ root = "none" /\ runErr = "none"
    /\ timedOut = {} /\ lost = {}
    /\ next = 1 /\ main = "dispatching"
    /\ pc = [w \in Workers |-> "idle"]
    /\ cur = [w \in Workers |-> 1]
    /\ out = [w \in Workers |-> NoOutcome]
    /\ results = [t \in Targets |-> ZeroResult]
    /\ touched = {}
    /\ stopped = "NONE"

Worker(w) ==
    \/ WorkerExit(w) \/ CheckRun(w) \/ CredentialFor(w)
    \/ RunnerReturns(w) \/ Classify(w)

\* Everything execute and its goroutines do; the caller is left out.
FleetStep ==
    \/ StopDispatch \/ Publish \/ RunDeadline
    \/ \E w \in Workers : Offer(w) \/ Worker(w) \/ TargetDeadline(w)
    \/ \E t \in Targets : SecretLost(t)

\* execute has returned its report: nothing in this package runs any more.
Returned == main = "published" /\ UNCHANGED fleetVars

Next ==
    \/ FleetStep
    \/ \E e \in CallerEndings : CallerEnds(e)
    \/ Returned

Spec == FleetInit /\ [][Next]_fleetVars

-----------------------------------------------------------------------------
(* Properties.                                                             *)

TypeOK ==
    /\ root \in CtxErrors /\ runErr \in CtxErrors
    /\ timedOut \subseteq Targets /\ lost \subseteq Targets
    /\ next \in 1..(N + 1)
    /\ main \in {"dispatching", "waiting", "published"}
    /\ pc \in [Workers -> Stages]
    /\ cur \in [Workers -> Targets]
    /\ out \in [Workers -> Outcome]
    /\ results \in [Targets -> TargetResult]
    /\ touched \subseteq Targets
    /\ stopped \in Reasons

Busy(w) == pc[w] \notin {"idle", "exited"}

\* "Each index is written by exactly one worker": an offered index has one
\* owner until its slot is filled, and no other worker or fill can reach it.
SlotOwnership ==
    /\ \A w \in Workers : Busy(w) => IsZero(results[cur[w]])
    /\ \A v, w \in Workers : Busy(v) /\ Busy(w) /\ cur[v] = cur[w] => v = w

\* "... exactly once": no step, the final fill included, replaces a result.
ResultsWrittenOnce ==
    [][\A t \in Targets : ~IsZero(results[t]) => results'[t] = results[t]]_fleetVars

\* A target reported NOT_STARTED never had its secret read nor its runner
\* called, whatever raced with the end of the run.
NeverStartedUntouched ==
    \A t \in Targets : results[t].state = "NOT_STARTED" => t \notin touched

\* When execute returns, every declared target has exactly one disposition and
\* no worker is still running.
EveryTargetDisposed ==
    main = "published" =>
        /\ \A t \in Targets : ~IsZero(results[t])
        /\ \A w \in Workers : pc[w] = "exited"

\* A report with a NOT_STARTED or CANCELLED target always names why the run
\* stopped: stoppedReason's default branch is unreachable, as its comment says.
StoppedReasonNamed ==
    main = "published" /\ stopped = "NONE" =>
        \A t \in Targets : results[t].state \in {"COMPLETED", "EXECUTION_FAILED"}

\* ExecutionErrorCredentialResolution: "the material behind it could not be
\* obtained when the target ran" (internal/domain/executionstate.go).
CredentialFailureIsReal ==
    \A t \in Targets : results[t].class = "CREDENTIAL_RESOLUTION" => t \in lost

-----------------------------------------------------------------------------
(* The scheduler implements the contract of a run.                         *)

Disposition(t) ==
    IF ~IsZero(results[t]) THEN results[t].state
    ELSE IF \E w \in Workers : Busy(w) /\ cur[w] = t THEN "ACTIVE"
    ELSE "QUEUED"

Contract == INSTANCE RunContract WITH
    disp   <- [t \in Targets |-> Disposition(t)],
    ended  <- RunDone,
    reason <- IF main = "published" THEN stopped ELSE "OPEN"

\* The concurrent scheduler, races included, is an implementation of
\* RunContract: the refinement fleet/run's comments promise in prose.
ImplementsContract == Contract!Spec
=============================================================================
