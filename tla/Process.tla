------------------------------- MODULE Process -------------------------------
(***************************************************************************)
(* One `svcdoctor run` invocation as a process: the main goroutine parses, *)
(* preflights, executes (FleetRun), maps the aggregate to an exit code,    *)
(* projects and renders it, closes `done` and exits; beside it a watcher   *)
(* goroutine turns the first signal into a cancellation and the second     *)
(* into an abort. Either goroutine may end the process at any moment.      *)
(***************************************************************************)
EXTENDS FleetRun, Integers

CONSTANT MaxSignals     \* bound: signals an operator sends in one run

ASSUME SignalAssumption == MaxSignals \in Nat

VARIABLES
    phase,      \* the main goroutine
    code,       \* the exit code it holds, -1 before there is one
    stdout,     \* what standard output holds
    said,       \* lines on standard error: a failure, the abort message
    sent,       \* signals the operator has sent
    signals,    \* signals buffered in the delivery channel
    watcher,    \* the goroutine of WatchInterrupts
    exit        \* the process status, -1 while the process runs

mainVars    == <<phase, code, stdout>>
watchVars   == <<sent, signals, watcher>>
processVars == <<phase, code, stdout, said, sent, signals, watcher, exit>>
vars        == <<fleetVars, processVars>>

Running == exit = -1

ExitOK            == 0
ExitProblemsFound == 1
ExitUsage         == 2
ExitInternal      == 3
ExitIncomplete    == 4

-----------------------------------------------------------------------------
(* The main goroutine: App.Run, runCommandEntry, main.                     *)

\* Mutant: problems outrank incompleteness.
RunExitCodeProblemsFirst(rs) ==
    IF ProblemsFound(rs) THEN ExitProblemsFound
    ELSE IF Incomplete(rs) THEN ExitIncomplete
    ELSE ExitOK

RunExitCode(rs) ==
    IF Incomplete(rs) THEN ExitIncomplete
    ELSE IF ProblemsFound(rs) THEN ExitProblemsFound
    ELSE ExitOK

\* Leave runCommandEntry with a code and no report.
Refuse(c) ==
    /\ phase' = "returned"
    /\ code' = c
    /\ said' = said \cup {"failure"}
    /\ UNCHANGED stdout

\* parseRun: help, a usage or configuration error, or a configuration.
Parse ==
    /\ Running /\ phase = "parsing"
    /\ \/ /\ phase' = "returned" /\ code' = ExitOK /\ stdout' = "help"
          /\ UNCHANGED said
       \/ Refuse(ExitUsage)
       \/ /\ phase' = "preflight"
          /\ UNCHANGED <<code, stdout, said>>
    /\ UNCHANGED <<fleetVars, watchVars, exit>>

\* executeRun up to run.Execute: the transport and the credential preflight.
Preflight ==
    /\ Running /\ phase = "preflight"
    /\ \/ Refuse(ExitUsage)
       \/ phase' = "executing" /\ UNCHANGED <<code, stdout, said>>
    /\ UNCHANGED <<fleetVars, watchVars, exit>>

\* run.Execute: the scheduler's own steps.
Executing ==
    /\ Running /\ phase = "executing"
    /\ FleetStep
    /\ UNCHANGED processVars

\* Execute returned: the exit code is derived from the LOCAL_FULL aggregate.
Conclude ==
    /\ Running /\ phase = "executing" /\ main = "published"
    /\ phase' = "projecting"
    /\ code' = RunExitCode(results)
    /\ UNCHANGED <<fleetVars, stdout, said, watchVars, exit>>

\* projectRun: redaction may refuse the aggregate.
Project ==
    /\ Running /\ phase = "projecting"
    /\ \/ Refuse(ExitInternal)
       \/ phase' = "rendering" /\ UNCHANGED <<code, stdout, said>>
    /\ UNCHANGED <<fleetVars, watchVars, exit>>

\* renderRun: writes may fail before, during or never.
RenderSome ==
    /\ Running /\ phase = "rendering" /\ stdout = "empty"
    /\ stdout' = "partial"
    /\ UNCHANGED <<fleetVars, phase, code, said, watchVars, exit>>

RenderRest ==
    /\ Running /\ phase = "rendering" /\ stdout = "partial"
    /\ stdout' = "report"
    /\ phase' = "returned"
    /\ UNCHANGED <<fleetVars, code, said, watchVars, exit>>

RenderFails ==
    /\ Running /\ phase = "rendering"
    /\ Refuse(ExitInternal)
    /\ UNCHANGED <<fleetVars, watchVars, exit>>

\* close(done), then os.Exit(code).
CloseDone ==
    /\ Running /\ phase = "returned"
    /\ phase' = "closed"
    /\ UNCHANGED <<fleetVars, code, stdout, said, watchVars, exit>>

ExitMain ==
    /\ Running /\ phase = "closed"
    /\ exit' = code
    /\ UNCHANGED <<fleetVars, mainVars, said, watchVars>>

-----------------------------------------------------------------------------
(* Signals and the watcher goroutine.                                      *)

\* Mutant: a single-slot delivery channel.
singleSlot == 1

interruptBuffer == 2

\* The runtime delivers without blocking: a full channel drops the signal.
Signal ==
    /\ Running /\ sent < MaxSignals
    /\ sent' = sent + 1
    /\ signals' = IF signals < interruptBuffer THEN signals + 1 ELSE signals
    /\ UNCHANGED <<fleetVars, mainVars, said, watcher, exit>>

\* Either select of WatchInterrupts takes `done`.
WatchDone ==
    /\ Running /\ watcher \in {"first", "second"} /\ phase = "closed"
    /\ watcher' = "gone"
    /\ UNCHANGED <<fleetVars, mainVars, said, sent, signals, exit>>

FirstSignal ==
    /\ Running /\ watcher = "first" /\ signals > 0
    /\ signals' = signals - 1
    /\ watcher' = "cancelling"
    /\ UNCHANGED <<fleetVars, mainVars, said, sent, exit>>

Cancel ==
    /\ Running /\ watcher = "cancelling"
    /\ CallerEnds("canceled")
    /\ watcher' = "second"
    /\ UNCHANGED <<mainVars, said, sent, signals, exit>>

\* Mutant: the second select waits on the context the watcher itself cancelled.
SecondSignalOnContext ==
    /\ Running /\ watcher = "second" /\ RunDone
    /\ said' = said \cup {"aborted"}
    /\ watcher' = "aborting"
    /\ UNCHANGED <<fleetVars, mainVars, sent, signals, exit>>

\* The select may take the signal although `done` is closed too.
SecondSignal ==
    /\ Running /\ watcher = "second" /\ signals > 0
    /\ signals' = signals - 1
    /\ said' = said \cup {"aborted"}
    /\ watcher' = "aborting"
    /\ UNCHANGED <<fleetVars, mainVars, sent, exit>>

Abort ==
    /\ Running /\ watcher = "aborting"
    /\ exit' = ExitInternal
    /\ UNCHANGED <<fleetVars, mainVars, said, watchVars>>

-----------------------------------------------------------------------------

ProcessInit ==
    /\ FleetInit
    /\ phase = "parsing" /\ code = -1 /\ stdout = "empty" /\ said = {}
    /\ sent = 0 /\ signals = 0 /\ watcher = "first"
    /\ exit = -1

Watch == WatchDone \/ FirstSignal \/ Cancel \/ SecondSignal \/ Abort

MainThread ==
    \/ Parse \/ Preflight \/ Executing \/ Conclude \/ Project
    \/ RenderSome \/ RenderRest \/ RenderFails \/ CloseDone \/ ExitMain

Exited == ~Running /\ UNCHANGED vars

ProcessNext == MainThread \/ Signal \/ Watch \/ Exited

ProcessSpec == ProcessInit /\ [][ProcessNext]_vars

\* The goroutine scheduler runs the watcher, and a process told to exit exits.
\* Nothing is assumed of the targets: a runner may never return.
WatcherFairness == WF_vars(Watch) /\ WF_vars(ExitMain)

HungSpec == ProcessSpec /\ WatcherFairness

\* Everything that can run does, under the timers of FleetRun.
MainFairness ==
    /\ WF_vars(Parse) /\ WF_vars(Preflight) /\ WF_vars(Conclude)
    /\ WF_vars(Project) /\ WF_vars(CloseDone)
    /\ WF_vars(RenderSome \/ RenderRest \/ RenderFails)
    /\ WF_vars(Executing /\ StopDispatch) /\ WF_vars(Executing /\ Publish)
    /\ WF_vars(Executing /\ \E w \in Workers : Offer(w))
    /\ \A w \in Workers :
         /\ WF_vars(Executing /\ (WorkerExit(w) \/ CheckRun(w)))
         /\ WF_vars(Executing /\ (CredentialFor(w) \/ Classify(w)))
         /\ WF_vars(Executing /\ TargetDeadline(w))
         /\ WF_vars(Executing /\ TargetDone(cur[w]) /\ RunnerReturns(w))

-----------------------------------------------------------------------------
(* Properties.                                                             *)

\* docs/SCOPE.md's exit contract, whatever raced: 0 and 1 only for a whole
\* report whose every target was measured to the end, 4 only for a whole report
\* that is incomplete, 2 only when no target was touched and nothing written.
ExitCodeTruthful ==
    /\ exit = ExitOK =>
         \/ stdout = "help" /\ touched = {}
         \/ stdout = "report" /\ ~Incomplete(results) /\ ~ProblemsFound(results)
    /\ exit = ExitProblemsFound =>
         stdout = "report" /\ ~Incomplete(results) /\ ProblemsFound(results)
    /\ exit = ExitUsage => stdout = "empty" /\ touched = {}
    /\ exit = ExitIncomplete => stdout = "report" /\ Incomplete(results)

\* "The first signal is not an error": the process leaves with 3 only because
\* svcdoctor itself failed or because the operator asked twice.
OneSignalNeverAborts ==
    exit = ExitInternal => sent >= 2 \/ code = ExitInternal

\* "an operator who wanted out": two signals end the process even when a runner
\* never returns; neither signal may be lost in the delivery channel.
TwoSignalsEnd == (sent >= 2) ~> (exit # -1)

\* "There is no unbounded run": when everything that can run does, under the
\* timers the scheduler gives every target, every invocation ends, with or
\* without run.timeout, interrupted or not.
ProcessEnds == MainFairness => <>(exit # -1)

\* Every invocation ends: by itself when what can run does, and at the second
\* signal whatever hangs.
EveryInvocationEnds == TwoSignalsEnd /\ ProcessEnds
=============================================================================
