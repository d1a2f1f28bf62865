---------------------------- MODULE ProcessProofs ----------------------------
(***************************************************************************)
(* The scheduler, and the process that runs it, for every number of        *)
(* targets, workers and signals.                                           *)
(*                                                                         *)
(* The scheduler's inductive invariant FleetInv says, beside the types,    *)
(* who owns every slot that is still empty: below `next` a busy worker     *)
(* does, from `next` on nobody does until the final fill.                  *)
(*                                                                         *)
(* It carries over to the process, which adds what the main goroutine      *)
(* knows at each phase, what the watcher has consumed of the signals sent, *)
(* and what is frozen once the process has exited.                         *)
(***************************************************************************)
EXTENDS Process, TLAPS

-----------------------------------------------------------------------------
(* The scheduler.                                                          *)

CutOff(r) == r.state \in {"NOT_STARTED", "CANCELLED"}

OfferedInOrder == \A w \in Workers : Busy(w) => cur[w] < next

Unreached ==
    main # "published" => \A t \in Targets : t >= next => IsZero(results[t])

EmptySlotIsOwned ==
    main # "published" =>
        \A t \in Targets : t < next /\ IsZero(results[t]) =>
            \E w \in Workers : Busy(w) /\ cur[w] = t

DispatchOver == main # "dispatching" => RunDone \/ next = N + 1

CutOffByTheRun == \A t \in Targets : CutOff(results[t]) => RunDone

UntouchedYet ==
    /\ \A t \in touched : t < next
    /\ \A w \in Workers : pc[w] \in {"offered", "resolving"} => cur[w] \notin touched

ReasonIffCutOff ==
    main = "published" =>
        (stopped = "NONE" <=> \A t \in Targets : ~CutOff(results[t]))

FleetInv ==
    /\ TypeOK
    /\ SlotOwnership
    /\ OfferedInOrder
    /\ Unreached
    /\ EmptySlotIsOwned
    /\ DispatchOver
    /\ CutOffByTheRun
    /\ UntouchedYet
    /\ NeverStartedUntouched
    /\ EveryTargetDisposed
    /\ ReasonIffCutOff

-----------------------------------------------------------------------------
(* The domain's constructors produce what the slice may hold.              *)

\* Every constructor of a target result is well typed, and names its state.
LEMMA ResultTypes ==
    /\ ZeroResult \in TargetResult /\ IsZero(ZeroResult)
    /\ NotStartedTarget \in TargetResult
    /\ NotStartedTarget.state = "NOT_STARTED"
    /\ \A c \in ErrorClasses :
         /\ FailedTarget(c) \in TargetResult
         /\ FailedTarget(c).state = "EXECUTION_FAILED"
    /\ \A o \in Outcome :
         /\ CancelledTarget(o) \in TargetResult
         /\ CancelledTarget(o).state = "CANCELLED"
         /\ CompletedTarget(o) \in TargetResult
         /\ CompletedTarget(o).state = "COMPLETED"
  BY DEF ZeroResult, NotStartedTarget, FailedTarget, CancelledTarget,
         CompletedTarget, Slot, TargetResult, Outcome, States, ErrorClasses,
         IsZero

LEMMA NoOutcomeType == NoOutcome \in Outcome
  BY DEF NoOutcome, Outcome

\* classify settles an outcome, as cut off only in a run that has ended.
LEMMA ClassifyType ==
    ASSUME NEW o \in Outcome
    PROVE  /\ classify(o) \in TargetResult
           /\ ~IsZero(classify(o))
           /\ classify(o).state # "NOT_STARTED"
           /\ CutOff(classify(o)) => RunDone
  BY ResultTypes DEF classify, IsZero, CutOff, ErrorClasses

-----------------------------------------------------------------------------
(* Steps that share a proof.                                               *)

\* A worker recording its result keeps the invariant.
LEMMA FinishKeepsInv ==
    ASSUME FleetInv, NEW w \in Workers, NEW r \in TargetResult, Busy(w),
           ~IsZero(r), CutOff(r) => RunDone,
           r.state = "NOT_STARTED" => cur[w] \notin touched,
           Finish(w, r), UNCHANGED touched
    PROVE  FleetInv'
<1> USE DEF Finish, Goto, ctxVars
<1> DEFINE t0 == cur[w]
<1>1. t0 \in Targets /\ results' = [results EXCEPT ![t0] = r]
  BY DEF FleetInv, TypeOK
<1>2. TypeOK'
  BY NoOutcomeType DEF FleetInv, TypeOK, Stages
<1>3. /\ results'[t0] = r
      /\ \A t \in Targets : t # t0 => results'[t] = results[t]
  BY <1>1 DEF FleetInv, TypeOK
<1>4. /\ ~Busy(w)'
      /\ \A v \in Workers : v # w => pc'[v] = pc[v] /\ Busy(v)' = Busy(v)
      /\ cur' = cur
  BY DEF FleetInv, TypeOK, Busy
<1>5. SlotOwnership'
  BY <1>1, <1>3, <1>4 DEF FleetInv, TypeOK, SlotOwnership, IsZero
<1>6. OfferedInOrder'
  BY <1>4 DEF FleetInv, OfferedInOrder
<1>7. t0 < next /\ main # "published"
  BY DEF FleetInv, OfferedInOrder, EveryTargetDisposed, Busy
<1>8. Unreached'
  BY <1>1, <1>3, <1>7, FleetAssumption DEF FleetInv, TypeOK, Unreached, IsZero, Targets
<1>9. EmptySlotIsOwned'
  <2> SUFFICES ASSUME NEW t \in Targets, t < next, IsZero(results'[t])
               PROVE  \E v \in Workers : Busy(v)' /\ cur'[v] = t
    BY DEF EmptySlotIsOwned
  <2>1. t # t0 /\ IsZero(results[t])
    BY <1>3 DEF IsZero
  <2>2. PICK v \in Workers : Busy(v) /\ cur[v] = t
    BY <2>1, <1>7 DEF FleetInv, EmptySlotIsOwned
  <2> QED BY <2>1, <2>2, <1>4
<1>10. DispatchOver' /\ ReasonIffCutOff'
  BY <1>7 DEF FleetInv, DispatchOver, ReasonIffCutOff, RunDone
<1>11. CutOffByTheRun'
  BY <1>3 DEF FleetInv, CutOffByTheRun, CutOff, RunDone
<1>12. UntouchedYet'
  BY <1>4 DEF FleetInv, TypeOK, UntouchedYet, Busy
<1>13. NeverStartedUntouched'
  BY <1>3 DEF FleetInv, NeverStartedUntouched
<1>14. EveryTargetDisposed'
  BY <1>7 DEF EveryTargetDisposed
<1> QED BY <1>2, <1>5, <1>6, <1>8, <1>9, <1>10, <1>11, <1>12, <1>13, <1>14
        DEF FleetInv

\* A step that only ends a context, or loses a secret, keeps the invariant.
LEMMA ContextStepKeepsInv ==
    ASSUME FleetInv, TypeOK', RunDone => RunDone',
           UNCHANGED <<next, main, workerVars, results, touched, stopped>>
    PROVE  FleetInv'
<1> USE DEF workerVars
<1>1. SlotOwnership' /\ OfferedInOrder' /\ Unreached' /\ EmptySlotIsOwned'
  BY DEF FleetInv, SlotOwnership, OfferedInOrder, Unreached, EmptySlotIsOwned,
         Busy
<1>2. DispatchOver' /\ CutOffByTheRun'
  BY DEF FleetInv, DispatchOver, CutOffByTheRun
<1>3. UntouchedYet' /\ NeverStartedUntouched' /\ EveryTargetDisposed'
      /\ ReasonIffCutOff'
  BY DEF FleetInv, UntouchedYet, NeverStartedUntouched, EveryTargetDisposed,
         ReasonIffCutOff
<1> QED BY <1>1, <1>2, <1>3 DEF FleetInv

\* A busy worker going to a later stage of its target keeps the invariant.
LEMMA StageStepKeepsInv ==
    ASSUME FleetInv, NEW w \in Workers, Busy(w),
           NEW stage \in {"resolving", "measuring", "measured"},
           Goto(w, stage), TypeOK',
           stage = "resolving" => pc[w] = "offered",
           touched' = IF stage = "measuring" THEN touched \cup {cur[w]}
                      ELSE touched,
           UNCHANGED <<ctxVars, next, main, cur, results, stopped>>
    PROVE  FleetInv'
<1> USE DEF ctxVars, Goto
<1>1. /\ pc'[w] = stage
      /\ \A v \in Workers : v # w => pc'[v] = pc[v]
      /\ \A v \in Workers : Busy(v)' = Busy(v)
  BY DEF FleetInv, TypeOK, Busy
<1>2. cur[w] \in Targets /\ cur[w] < next /\ main # "published"
      /\ IsZero(results[cur[w]])
  BY DEF FleetInv, TypeOK, OfferedInOrder, SlotOwnership, EveryTargetDisposed,
         Busy
<1>3. SlotOwnership' /\ OfferedInOrder' /\ Unreached' /\ EmptySlotIsOwned'
  BY <1>1 DEF FleetInv, SlotOwnership, OfferedInOrder, Unreached,
              EmptySlotIsOwned
<1>4. DispatchOver' /\ CutOffByTheRun' /\ EveryTargetDisposed'
      /\ ReasonIffCutOff'
  BY <1>2 DEF FleetInv, DispatchOver, CutOffByTheRun, EveryTargetDisposed,
              ReasonIffCutOff, RunDone
<1>5. NeverStartedUntouched'
  BY <1>2 DEF FleetInv, NeverStartedUntouched, IsZero
<1>6. UntouchedYet'
  <2>1. \A t \in touched' : t < next'
    BY <1>2 DEF FleetInv, UntouchedYet
  <2>2. ASSUME NEW v \in Workers, pc'[v] \in {"offered", "resolving"}
        PROVE  cur'[v] \notin touched'
    <3>1. pc[v] \in {"offered", "resolving"} /\ cur[v] \notin touched
      BY <1>1, <2>2 DEF FleetInv, UntouchedYet
    <3>2. CASE stage = "measuring"
      <4>1. v # w /\ Busy(v)
        BY <1>1, <2>2, <3>1, <3>2 DEF Busy
      <4>2. cur[v] # cur[w]
        BY <4>1 DEF FleetInv, SlotOwnership
      <4> QED BY <3>1, <3>2, <4>2
    <3>3. CASE stage # "measuring"
      BY <3>1, <3>3
    <3> QED BY <3>2, <3>3
  <2> QED BY <2>1, <2>2 DEF UntouchedYet
<1> QED BY <1>3, <1>4, <1>5, <1>6 DEF FleetInv
-----------------------------------------------------------------------------
(* The dispatcher and the end of the run.                                  *)

\* Offering the next index gives the slot its one owner.
LEMMA OfferKeepsInv ==
    ASSUME FleetInv, NEW w \in Workers, Offer(w)
    PROVE  FleetInv'
<1> USE DEF Offer, Goto, ctxVars
<1>1. /\ next \in Targets /\ cur'[w] = next /\ pc'[w] = "offered"
      /\ next' = next + 1 /\ main' = main /\ main = "dispatching"
      /\ \A v \in Workers : v # w => pc'[v] = pc[v] /\ cur'[v] = cur[v]
                                     /\ Busy(v)' = Busy(v)
      /\ ~Busy(w) /\ Busy(w)'
  BY FleetAssumption DEF FleetInv, TypeOK, Targets, Busy
<1>2. TypeOK'
  BY <1>1, FleetAssumption DEF FleetInv, TypeOK, Targets, Stages
<1>3. \A v \in Workers : Busy(v) => cur[v] \in Targets /\ cur[v] < next
  BY DEF FleetInv, TypeOK, OfferedInOrder
<1>4. SlotOwnership'
  <2>1. IsZero(results[next])
    BY <1>1, FleetAssumption DEF FleetInv, Unreached, Targets
  <2>2. \A v \in Workers : v # w /\ Busy(v)' => cur'[v] # next
    BY <1>1, <1>3, FleetAssumption DEF Targets
  <2> QED BY <1>1, <2>1, <2>2 DEF FleetInv, SlotOwnership
<1>5. OfferedInOrder'
  BY <1>1, <1>3, FleetAssumption DEF OfferedInOrder, Targets
<1>6. Unreached'
  BY <1>1, FleetAssumption DEF FleetInv, Unreached, Targets
<1>7. EmptySlotIsOwned'
  <2> SUFFICES ASSUME NEW t \in Targets, t < next + 1, IsZero(results[t])
               PROVE  \E v \in Workers : Busy(v)' /\ cur'[v] = t
    BY <1>1 DEF EmptySlotIsOwned
  <2>1. CASE t = next
    BY <1>1, <2>1
  <2>2. CASE t < next
    <3>1. PICK v \in Workers : Busy(v) /\ cur[v] = t
      BY <1>1, <2>2 DEF FleetInv, EmptySlotIsOwned
    <3> QED BY <3>1, <1>1
  <2> QED BY <1>1, <2>1, <2>2, FleetAssumption DEF Targets
<1>8. DispatchOver' /\ CutOffByTheRun' /\ NeverStartedUntouched'
      /\ EveryTargetDisposed' /\ ReasonIffCutOff'
  BY <1>1 DEF FleetInv, DispatchOver, CutOffByTheRun, NeverStartedUntouched,
              EveryTargetDisposed, ReasonIffCutOff, RunDone
<1>9. UntouchedYet'
  <2>1. next \notin touched /\ \A t \in touched : t \in Targets /\ t < next + 1
    BY <1>1, FleetAssumption DEF FleetInv, TypeOK, UntouchedYet, Targets
  <2> QED BY <1>1, <2>1 DEF FleetInv, UntouchedYet
<1> QED BY <1>2, <1>4, <1>5, <1>6, <1>7, <1>8, <1>9 DEF FleetInv

\* When every worker has returned, an empty slot was never offered, so the run
\* ended before dispatch reached it.
LEMMA EmptyMeansEnded ==
    ASSUME FleetInv, main = "waiting", \A w \in Workers : pc[w] = "exited",
           NEW t \in Targets, IsZero(results[t])
    PROVE  RunDone /\ t >= next
<1>1. ~(t < next)
  BY DEF FleetInv, EmptySlotIsOwned, Busy
<1>2. t \in Nat /\ next \in Nat /\ t <= N
  BY FleetAssumption DEF FleetInv, TypeOK, Targets
<1> QED BY <1>1, <1>2, FleetAssumption DEF FleetInv, DispatchOver

\* stoppedReason names a reason exactly when a target was cut off, because a
\* target is cut off only in a run that has ended.
LEMMA ReasonNamed ==
    ASSUME NEW rs \in [Targets -> TargetResult],
           (\E t \in Targets : CutOff(rs[t])) => RunDone
    PROVE  /\ stoppedReason(rs) \in Reasons
           /\ stoppedReason(rs) = "NONE" <=> \A t \in Targets : ~CutOff(rs[t])
  BY DEF stoppedReason, CutOff, Reasons

LEMMA PublishKeepsInv ==
    ASSUME FleetInv, Publish
    PROVE  FleetInv'
<1> USE DEF ctxVars, workerVars
<1> DEFINE rs == FillNotStarted(results)
<1>1. /\ results' = rs /\ stopped' = stoppedReason(rs)
      /\ main = "waiting" /\ main' = "published"
      /\ \A w \in Workers : pc[w] = "exited"
      /\ UNCHANGED <<ctxVars, next, workerVars, touched>>
  BY DEF Publish
<1>2. /\ rs \in [Targets -> TargetResult]
      /\ \A t \in Targets : /\ IsZero(results[t]) => rs[t].state = "NOT_STARTED"
                            /\ ~IsZero(results[t]) => rs[t] = results[t]
  BY ResultTypes DEF FillNotStarted, FleetInv, TypeOK
<1>3. \A t \in Targets : IsZero(results[t]) => RunDone /\ t >= next
  BY <1>1, EmptyMeansEnded
<1>4. \A t \in Targets : CutOff(rs[t]) => RunDone
  BY <1>2, <1>3 DEF FleetInv, CutOffByTheRun
<1>5. /\ stopped' \in Reasons
      /\ stopped' = "NONE" <=> \A t \in Targets : ~CutOff(rs[t])
  BY <1>1, <1>2, <1>4, ReasonNamed
<1>6. TypeOK'
  BY <1>1, <1>2, <1>5 DEF FleetInv, TypeOK
<1>7. \A w \in Workers : ~Busy(w)'
  BY <1>1 DEF Busy
<1>8. SlotOwnership' /\ OfferedInOrder' /\ Unreached' /\ EmptySlotIsOwned'
  BY <1>1, <1>7 DEF SlotOwnership, OfferedInOrder, Unreached, EmptySlotIsOwned
<1>9. DispatchOver' /\ CutOffByTheRun' /\ ReasonIffCutOff'
  BY <1>1, <1>4, <1>5 DEF FleetInv, DispatchOver, CutOffByTheRun,
                          ReasonIffCutOff, RunDone
<1>10. EveryTargetDisposed'
  BY <1>1, <1>2 DEF EveryTargetDisposed, IsZero
<1>11. UntouchedYet'
  BY <1>1 DEF FleetInv, UntouchedYet
<1>12. NeverStartedUntouched'
  <2> SUFFICES ASSUME NEW t \in Targets, rs[t].state = "NOT_STARTED"
               PROVE  t \notin touched
    BY <1>1 DEF NeverStartedUntouched
  <2>1. CASE IsZero(results[t])
    <3>1. t >= next /\ t \in Nat /\ next \in Nat
      BY <1>3, <2>1, FleetAssumption DEF FleetInv, TypeOK, Targets
    <3> QED BY <3>1 DEF FleetInv, UntouchedYet
  <2>2. CASE ~IsZero(results[t])
    BY <1>2, <2>2 DEF FleetInv, NeverStartedUntouched
  <2> QED BY <2>1, <2>2
<1> QED BY <1>6, <1>8, <1>9, <1>10, <1>11, <1>12 DEF FleetInv

-----------------------------------------------------------------------------
(* Induction.                                                              *)

LEMMA InitImpliesInv == FleetInit => FleetInv
<1> SUFFICES ASSUME FleetInit PROVE FleetInv
  OBVIOUS
<1> USE FleetAssumption, ResultTypes, NoOutcomeType DEF FleetInit
<1>1. TypeOK
  BY DEF TypeOK, Targets, CtxErrors, Stages, Reasons
<1>2. (\A w \in Workers : ~Busy(w)) /\ \A t \in Targets : IsZero(results[t])
  BY DEF Busy
<1>3. SlotOwnership /\ OfferedInOrder /\ Unreached
  BY <1>2 DEF SlotOwnership, OfferedInOrder, Unreached
<1>4. EmptySlotIsOwned
  BY DEF EmptySlotIsOwned, Targets
<1>5. DispatchOver /\ UntouchedYet /\ EveryTargetDisposed /\ ReasonIffCutOff
  BY DEF DispatchOver, UntouchedYet, EveryTargetDisposed, ReasonIffCutOff
<1>6. CutOffByTheRun /\ NeverStartedUntouched
  BY <1>2 DEF CutOffByTheRun, NeverStartedUntouched, CutOff, IsZero
<1> QED BY <1>1, <1>3, <1>4, <1>5, <1>6 DEF FleetInv

LEMMA NextKeepsInv == FleetInv /\ [Next]_fleetVars => FleetInv'
<1> SUFFICES ASSUME FleetInv, [Next]_fleetVars PROVE FleetInv'
  OBVIOUS
<1> USE DEF ctxVars, workerVars
<1>1. CASE StopDispatch
  <2>1. TypeOK' /\ DispatchOver'
    BY <1>1, FleetAssumption DEF StopDispatch, FleetInv, TypeOK, DispatchOver, RunDone
  <2>2. SlotOwnership' /\ OfferedInOrder' /\ Unreached' /\ EmptySlotIsOwned'
    BY <1>1 DEF StopDispatch, FleetInv, SlotOwnership, OfferedInOrder,
                Unreached, EmptySlotIsOwned, Busy
  <2>3. CutOffByTheRun' /\ UntouchedYet' /\ NeverStartedUntouched'
        /\ EveryTargetDisposed' /\ ReasonIffCutOff'
    BY <1>1 DEF StopDispatch, FleetInv, CutOffByTheRun, UntouchedYet,
                NeverStartedUntouched, EveryTargetDisposed, ReasonIffCutOff,
                RunDone
  <2> QED BY <2>1, <2>2, <2>3 DEF FleetInv
<1>2. CASE Publish
  BY <1>2, PublishKeepsInv
<1>3. CASE RunDeadline
  <2>1. TypeOK' /\ (RunDone => RunDone')
    BY <1>3 DEF RunDeadline, FleetInv, TypeOK, CtxErrors, RunDone
  <2> QED BY <1>3, <2>1, ContextStepKeepsInv DEF RunDeadline
<1>4. ASSUME NEW w \in Workers, Offer(w) PROVE FleetInv'
  BY <1>4, OfferKeepsInv
<1>5. ASSUME NEW w \in Workers, WorkerExit(w) PROVE FleetInv'
  <2>1. /\ pc'[w] = "exited" /\ pc[w] = "idle" /\ main # "dispatching"
        /\ \A v \in Workers : v # w => pc'[v] = pc[v]
        /\ \A v \in Workers : Busy(v)' = Busy(v)
        /\ UNCHANGED <<ctxVars, next, main, cur, out, results, touched, stopped>>
    BY <1>5 DEF WorkerExit, Goto, FleetInv, TypeOK, Busy
  <2>2. TypeOK'
    BY <1>5 DEF WorkerExit, Goto, FleetInv, TypeOK, Stages
  <2>3. SlotOwnership' /\ OfferedInOrder' /\ Unreached' /\ EmptySlotIsOwned'
    BY <2>1 DEF FleetInv, SlotOwnership, OfferedInOrder, Unreached,
                EmptySlotIsOwned
  <2>4. DispatchOver' /\ CutOffByTheRun' /\ UntouchedYet'
    BY <2>1 DEF FleetInv, DispatchOver, CutOffByTheRun, UntouchedYet, RunDone
  <2>5. NeverStartedUntouched' /\ EveryTargetDisposed' /\ ReasonIffCutOff'
    BY <2>1 DEF FleetInv, NeverStartedUntouched, EveryTargetDisposed,
                ReasonIffCutOff
  <2> QED BY <2>2, <2>3, <2>4, <2>5 DEF FleetInv
<1>6. ASSUME NEW w \in Workers, CheckRun(w) PROVE FleetInv'
  <2>1. Busy(w) /\ pc[w] = "offered" /\ cur[w] \notin touched
    BY <1>6 DEF CheckRun, Busy, FleetInv, UntouchedYet
  <2>2. CASE RunDone
    <3>1. Finish(w, NotStartedTarget) /\ UNCHANGED touched
      BY <1>6, <2>2 DEF CheckRun
    <3> QED BY <2>1, <2>2, <3>1, ResultTypes, FinishKeepsInv DEF IsZero
  <2>3. CASE ~RunDone
    <3>1. /\ Goto(w, "resolving") /\ touched' = touched
          /\ UNCHANGED <<ctxVars, next, main, cur, results, stopped, out>>
      BY <1>6, <2>3 DEF CheckRun
    <3>2. TypeOK'
      BY <3>1 DEF Goto, FleetInv, TypeOK, Stages
    <3> QED BY <2>1, <3>1, <3>2, StageStepKeepsInv
  <2> QED BY <2>2, <2>3
<1>7. ASSUME NEW w \in Workers, CredentialFor(w) PROVE FleetInv'
  <2>1. Busy(w) /\ cur[w] \in Targets
    BY <1>7 DEF CredentialFor, Busy, FleetInv, TypeOK
  <2>2. CASE Resolvable(cur[w])
    <3>1. /\ Goto(w, "measuring") /\ touched' = touched \cup {cur[w]}
          /\ UNCHANGED <<ctxVars, next, main, cur, results, stopped, out>>
      BY <1>7, <2>2 DEF CredentialFor
    <3>2. TypeOK'
      BY <2>1, <3>1 DEF Goto, FleetInv, TypeOK, Stages
    <3> QED BY <2>1, <3>1, <3>2, StageStepKeepsInv
  <2>3. CASE ~Resolvable(cur[w])
    <3>1. /\ Finish(w, FailedTarget("CREDENTIAL_RESOLUTION"))
          /\ UNCHANGED touched
      BY <1>7, <2>3 DEF CredentialFor
    <3>2. /\ FailedTarget("CREDENTIAL_RESOLUTION") \in TargetResult
          /\ FailedTarget("CREDENTIAL_RESOLUTION").state = "EXECUTION_FAILED"
      BY ResultTypes DEF ErrorClasses
    <3> QED BY <2>1, <3>1, <3>2, FinishKeepsInv DEF IsZero, CutOff
  <2> QED BY <2>2, <2>3
<1>8. ASSUME NEW w \in Workers, RunnerReturns(w) PROVE FleetInv'
  <2>1. /\ Busy(w) /\ Goto(w, "measured") /\ touched' = touched
        /\ UNCHANGED <<ctxVars, next, main, cur, results, stopped>>
    BY <1>8 DEF RunnerReturns, Busy
  <2>2. TypeOK'
    BY <1>8 DEF RunnerReturns, Goto, FleetInv, TypeOK, Stages
  <2> QED BY <2>1, <2>2, StageStepKeepsInv
<1>9. ASSUME NEW w \in Workers, Classify(w) PROVE FleetInv'
  <2>1. Busy(w) /\ out[w] \in Outcome /\ Finish(w, classify(out[w]))
        /\ UNCHANGED touched
    BY <1>9 DEF Classify, Busy, FleetInv, TypeOK
  <2> QED BY <2>1, ClassifyType, FinishKeepsInv
<1>10. ASSUME NEW w \in Workers, TargetDeadline(w) PROVE FleetInv'
  <2>1. TypeOK' /\ RunDone' = RunDone
    BY <1>10 DEF TargetDeadline, FleetInv, TypeOK, RunDone
  <2> QED BY <1>10, <2>1, ContextStepKeepsInv DEF TargetDeadline
<1>11. ASSUME NEW t \in Targets, SecretLost(t) PROVE FleetInv'
  <2>1. TypeOK' /\ RunDone' = RunDone
    BY <1>11 DEF SecretLost, FleetInv, TypeOK, RunDone
  <2> QED BY <1>11, <2>1, ContextStepKeepsInv DEF SecretLost
<1>12. ASSUME NEW e \in CallerEndings, CallerEnds(e) PROVE FleetInv'
  <2>1. TypeOK' /\ (RunDone => RunDone')
    BY <1>12, FleetAssumption DEF CallerEnds, FleetInv, TypeOK, CtxErrors, RunDone
  <2> QED BY <1>12, <2>1, ContextStepKeepsInv DEF CallerEnds
<1>13. CASE UNCHANGED fleetVars
  <2>1. TypeOK' /\ RunDone' = RunDone
    BY <1>13 DEF fleetVars, FleetInv, TypeOK, RunDone
  <2> QED BY <1>13, <2>1, ContextStepKeepsInv DEF fleetVars
<1> QED
  BY <1>1, <1>2, <1>3, <1>4, <1>5, <1>6, <1>7, <1>8, <1>9, <1>10, <1>11,
     <1>12, <1>13
  DEF Next, FleetStep, Worker, Returned

\* The inductive invariant holds throughout every run.
THEOREM FleetInvariant == Spec => []FleetInv
  BY InitImpliesInv, NextKeepsInv, PTL DEF Spec

\* Every variable of the scheduler keeps its type, for any number of targets
\* and workers.
THEOREM TypeCorrect == Spec => []TypeOK
<1>1. FleetInv => TypeOK
  BY DEF FleetInv
<1> QED BY <1>1, FleetInvariant, PTL

\* "Each index is written by exactly one worker": no two workers ever hold the
\* same index, and the slot of a held index is empty.
THEOREM SlotsHaveOneOwner == Spec => []SlotOwnership
<1>1. FleetInv => SlotOwnership
  BY DEF FleetInv
<1> QED BY <1>1, FleetInvariant, PTL

\* A NOT_STARTED target had neither its secret read nor its runner called.
THEOREM NotStartedIsUntouched == Spec => []NeverStartedUntouched
<1>1. FleetInv => NeverStartedUntouched
  BY DEF FleetInv
<1> QED BY <1>1, FleetInvariant, PTL

\* A published report has a disposition for every target and leaves no worker.
THEOREM ReportIsWhole == Spec => []EveryTargetDisposed
<1>1. FleetInv => EveryTargetDisposed
  BY DEF FleetInv
<1> QED BY <1>1, FleetInvariant, PTL

\* A report with a cut-off target names why: the default branch of stoppedReason
\* is never the answer.
THEOREM CutOffHasAReason == Spec => []StoppedReasonNamed
<1>1. FleetInv => StoppedReasonNamed
  BY DEF FleetInv, TypeOK, EveryTargetDisposed, ReasonIffCutOff, CutOff,
         StoppedReasonNamed, TargetResult, States, IsZero
<1> QED BY <1>1, FleetInvariant, PTL

\* Under the invariant no step replaces a result once it is recorded.
LEMMA StepWritesOnce ==
    ASSUME FleetInv, [Next]_fleetVars, NEW t \in Targets, ~IsZero(results[t])
    PROVE  results'[t] = results[t]
<1>1. ASSUME NEW w \in Workers, NEW r, Busy(w), Finish(w, r)
      PROVE  results'[t] = results[t]
  <2>1. cur[w] # t
    BY <1>1 DEF FleetInv, SlotOwnership
  <2> QED BY <1>1, <2>1 DEF Finish, FleetInv, TypeOK
<1>2. ASSUME NEW w \in Workers, Worker(w) \/ Offer(w) \/ TargetDeadline(w)
      PROVE  results'[t] = results[t]
  <2>1. CASE CheckRun(w)
    BY <1>1, <2>1 DEF CheckRun, Busy
  <2>2. CASE CredentialFor(w)
    BY <1>1, <2>2 DEF CredentialFor, Busy
  <2>3. CASE Classify(w)
    BY <1>1, <2>3 DEF Classify, Busy
  <2> QED BY <1>2, <2>1, <2>2, <2>3
          DEF Worker, WorkerExit, RunnerReturns, Offer, TargetDeadline
<1>3. CASE Publish
  BY <1>3 DEF Publish, FillNotStarted
<1> QED BY <1>2, <1>3 DEF Next, FleetStep, Returned, StopDispatch, RunDeadline,
           SecretLost, CallerEnds, fleetVars

\* "... exactly once": a recorded result is never replaced, by a worker or by
\* the fill that follows wg.Wait.
THEOREM WrittenOnce == Spec => ResultsWrittenOnce
<1>1. FleetInv /\ [Next]_fleetVars =>
        [\A t \in Targets : ~IsZero(results[t]) => results'[t] = results[t]]_fleetVars
  BY StepWritesOnce
<1> QED BY <1>1, FleetInvariant, PTL DEF Spec, ResultsWrittenOnce
-----------------------------------------------------------------------------
(* The scheduler implements RunContract.                                   *)

\* Before the report, a target is QUEUED exactly when dispatch has not reached it.
LEMMA DispositionOf ==
    ASSUME FleetInv, main # "published", NEW t \in Targets
    PROVE  /\ t >= next => Disposition(t) = "QUEUED"
           /\ t < next /\ IsZero(results[t]) => Disposition(t) = "ACTIVE"
           /\ ~IsZero(results[t]) => Disposition(t) = results[t].state
<1>1. t \in Nat /\ next \in Nat
  BY FleetAssumption DEF FleetInv, TypeOK, Targets
<1>2. ASSUME t >= next PROVE Disposition(t) = "QUEUED"
  <2>1. IsZero(results[t])
    BY <1>2 DEF FleetInv, Unreached
  <2>2. \A w \in Workers : Busy(w) => cur[w] # t
    BY <1>1, <1>2 DEF FleetInv, OfferedInOrder
  <2> QED BY <2>1, <2>2 DEF Disposition
<1>3. ASSUME t < next, IsZero(results[t]) PROVE Disposition(t) = "ACTIVE"
  BY <1>3 DEF FleetInv, EmptySlotIsOwned, Disposition
<1> QED BY <1>2, <1>3 DEF Disposition

LEMMA InitRefines == FleetInit => Contract!Init
<1> SUFFICES ASSUME FleetInit PROVE Contract!Init
  OBVIOUS
<1>1. \A t \in Targets : Disposition(t) = "QUEUED"
  BY ResultTypes DEF FleetInit, Disposition, Busy
<1> QED BY <1>1 DEF FleetInit, Contract!Init, RunDone

\* A worker recording its result settles an active target.
LEMMA FinishRefines ==
    ASSUME FleetInv, FleetInv', NEW w \in Workers, NEW r \in TargetResult,
           Busy(w), ~IsZero(r), CutOff(r) => RunDone, Finish(w, r)
    PROVE  Contract!Settle(cur[w], r.state)
<1>0. PICK t0 \in Targets : t0 = cur[w]
  BY DEF FleetInv, TypeOK
<1>1. /\ t0 < next /\ IsZero(results[t0])
      /\ main # "published" /\ main' = main /\ next' = next /\ RunDone' = RunDone
  BY <1>0 DEF FleetInv, TypeOK, OfferedInOrder, SlotOwnership,
         EveryTargetDisposed, Busy, Finish, ctxVars, RunDone
<1>2. results'[t0] = r /\ \A t \in Targets : t # t0 => results'[t] = results[t]
  BY <1>0 DEF Finish, FleetInv, TypeOK
<1>3. Disposition(t0) = "ACTIVE" /\ Disposition(t0)' = r.state
  BY <1>1, <1>2, DispositionOf DEF Disposition
<1>4. \A v \in Workers : v # w => Busy(v)' = Busy(v) /\ cur'[v] = cur[v]
  BY DEF Finish, Goto, Busy, FleetInv, TypeOK
<1>5. ~Busy(w)'
  BY DEF Finish, Goto, Busy, FleetInv, TypeOK
<1>6. \A t \in Targets : t # t0 => Disposition(t)' = Disposition(t)
  BY <1>0, <1>2, <1>4, <1>5 DEF Disposition
<1>7. [t \in Targets |-> Disposition(t)'] =
        [[t \in Targets |-> Disposition(t)] EXCEPT ![t0] = r.state]
  BY <1>1, <1>3, <1>6
<1> QED BY <1>0, <1>1, <1>3, <1>7 DEF Contract!Settle, Contract!CutOff, CutOff

\* An offer takes a queued target up.
LEMMA OfferRefines ==
    ASSUME FleetInv, FleetInv', NEW w \in Workers, Offer(w)
    PROVE  next \in Targets /\ Contract!TakeUp(next)
<1>1. /\ next \in Targets /\ next \in Nat /\ next' = next + 1
      /\ main # "published" /\ main' = main
      /\ UNCHANGED <<results, stopped>> /\ RunDone' = RunDone
  BY FleetAssumption DEF Offer, ctxVars, FleetInv, TypeOK, Targets, RunDone
<1>2. IsZero(results[next]) /\ Disposition(next) = "QUEUED"
  BY <1>1, DispositionOf DEF FleetInv, Unreached
<1>3. \A t \in Targets : t \in Nat
  BY FleetAssumption DEF Targets
<1>4. ASSUME NEW t \in Targets
      PROVE  Disposition(t)' = IF t = next THEN "ACTIVE" ELSE Disposition(t)
  <2>1. ASSUME main' # "published"
        PROVE  /\ t >= next' => Disposition(t)' = "QUEUED"
               /\ t < next' /\ IsZero(results'[t]) => Disposition(t)' = "ACTIVE"
               /\ ~IsZero(results'[t]) => Disposition(t)' = results'[t].state
    <3>1. Targets' = Targets
      BY DEF Targets
    <3>2. /\ t >= next' => IsZero(results'[t]) /\ \A v \in Workers : Busy(v)' => cur'[v] # t
      <4>1. t >= next' => IsZero(results'[t])
        BY <2>1, <3>1 DEF FleetInv, Unreached
      <4>2. \A v \in Workers : Busy(v)' => cur'[v] < next'
        BY DEF FleetInv, OfferedInOrder
      <4> QED BY <1>1, <1>3, <4>1, <4>2
    <3>3. t < next' /\ IsZero(results'[t]) => \E v \in Workers : Busy(v)' /\ cur'[v] = t
      BY <2>1, <3>1 DEF FleetInv, EmptySlotIsOwned
    <3> QED BY <3>2, <3>3 DEF Disposition
  <2>2. /\ t >= next => Disposition(t) = "QUEUED"
        /\ t < next /\ IsZero(results[t]) => Disposition(t) = "ACTIVE"
        /\ ~IsZero(results[t]) => Disposition(t) = results[t].state
    BY <1>1, DispositionOf
  <2>3. t \in Nat /\ results'[t] = results[t] /\ main' # "published"
    BY <1>1, <1>3
  <2>4. CASE t = next
    BY <1>1, <1>2, <2>1, <2>3, <2>4
  <2>5. CASE t < next
    BY <1>1, <2>1, <2>2, <2>3, <2>5
  <2>6. CASE t > next
    BY <1>1, <2>1, <2>2, <2>3, <2>6
  <2> QED BY <1>1, <2>3, <2>4, <2>5, <2>6
<1>5. [t \in Targets |-> Disposition(t)'] =
        [[t \in Targets |-> Disposition(t)] EXCEPT ![next] = "ACTIVE"]
  BY <1>4
<1> QED BY <1>1, <1>2, <1>5 DEF Contract!TakeUp

\* The final fill and the reason are the contract's publication.
LEMMA PublishRefines ==
    ASSUME FleetInv, FleetInv', Publish
    PROVE  stopped' \in Reasons /\ Contract!Publish(stopped')
<1>1. /\ results' = FillNotStarted(results)
      /\ main = "waiting" /\ main' = "published"
      /\ \A w \in Workers : pc[w] = "exited" /\ ~Busy(w) /\ ~Busy(w)'
      /\ RunDone' = RunDone
  BY DEF Publish, ctxVars, workerVars, RunDone, Busy
<1>2. \A t \in Targets :
        /\ IsZero(results[t]) => Disposition(t) = "QUEUED" /\ RunDone
                                 /\ results'[t].state = "NOT_STARTED"
        /\ ~IsZero(results[t]) => Disposition(t) = results[t].state
                                  /\ results'[t] = results[t]
  BY <1>1, EmptyMeansEnded, ResultTypes DEF Disposition, FillNotStarted
<1>3. \A t \in Targets : results[t].state \in States
  BY DEF FleetInv, TypeOK, TargetResult
<1>4. \A t \in Targets :
        /\ Disposition(t) # "ACTIVE"
        /\ Disposition(t)' = IF Disposition(t) = "QUEUED" THEN "NOT_STARTED"
                             ELSE Disposition(t)
        /\ Disposition(t)' = results'[t].state
        /\ Disposition(t) = "QUEUED" => RunDone
  BY <1>1, <1>2, <1>3 DEF Disposition, States, IsZero
<1>5. stopped' \in Reasons
      /\ (stopped' = "NONE" <=> \A t \in Targets : ~CutOff(results'[t]))
  BY <1>1 DEF FleetInv, TypeOK, ReasonIffCutOff
<1> QED BY <1>1, <1>4, <1>5 DEF Contract!Publish, Contract!CutOff, CutOff

\* A step that leaves the slots and the busy workers alone changes at most
\* whether the run has ended.
LEMMA QuietStepRefines ==
    ASSUME FleetInv, RunDone => RunDone',
           UNCHANGED <<results, cur, stopped>>,
           (main' = "published") = (main = "published"),
           \A w \in Workers : Busy(w)' = Busy(w)
    PROVE  [Contract!Next]_(Contract!vars)
<1>1. \A t \in Targets : Disposition(t)' = Disposition(t)
  BY DEF Disposition
<1>2. [t \in Targets |-> Disposition(t)'] = [t \in Targets |-> Disposition(t)]
  BY <1>1
<1>3. CASE RunDone' = RunDone
  BY <1>2, <1>3 DEF Contract!vars
<1>4. CASE ~RunDone /\ RunDone'
  BY <1>2, <1>4 DEF Contract!Next, Contract!End
<1> QED BY <1>3, <1>4 DEF RunDone

LEMMA NextRefines ==
    FleetInv /\ FleetInv' /\ [Next]_fleetVars => [Contract!Next]_(Contract!vars)
<1> SUFFICES ASSUME FleetInv, FleetInv', [Next]_fleetVars
             PROVE  [Contract!Next]_(Contract!vars)
  OBVIOUS
<1> USE DEF ctxVars, workerVars
<1>1. ASSUME NEW w \in Workers, NEW r \in TargetResult, Busy(w), ~IsZero(r),
             CutOff(r) => RunDone, Finish(w, r)
      PROVE  Contract!Next
  <2>1. Contract!Settle(cur[w], r.state) /\ cur[w] \in Targets
    BY <1>1, FinishRefines DEF FleetInv, TypeOK
  <2>2. r.state \in {"COMPLETED", "EXECUTION_FAILED"} \cup Contract!CutOff
    BY <1>1 DEF TargetResult, States, IsZero, Contract!CutOff
  <2> QED BY <2>1, <2>2 DEF Contract!Next
<1>2. CASE Publish
  BY <1>2, PublishRefines DEF Contract!Next, Reasons
<1>3. ASSUME NEW w \in Workers, Offer(w) PROVE Contract!Next
  BY <1>3, OfferRefines DEF Contract!Next
<1>4. ASSUME NEW w \in Workers, NEW stage \in Stages, Goto(w, stage),
             Busy(w) = (stage \notin {"idle", "exited"}),
             UNCHANGED <<ctxVars, main, cur, results, stopped>>
      PROVE  [Contract!Next]_(Contract!vars)
  <2>1. \A v \in Workers : Busy(v)' = Busy(v)
    BY <1>4 DEF Goto, Busy, FleetInv, TypeOK
  <2> QED BY <1>4, <2>1, QuietStepRefines DEF RunDone
<1>5. ASSUME NEW w \in Workers, Worker(w)
      PROVE  [Contract!Next]_(Contract!vars)
  <2>1. CASE WorkerExit(w)
    BY <1>4, <2>1 DEF WorkerExit, Busy, Stages
  <2>2. CASE CheckRun(w)
    <3>1. Busy(w)
      BY <2>2 DEF CheckRun, Busy
    <3>2. CASE RunDone
      BY <1>1, <2>2, <3>1, <3>2, ResultTypes DEF CheckRun, IsZero
    <3>3. CASE ~RunDone
      BY <1>4, <2>2, <3>1, <3>3 DEF CheckRun, Stages
    <3> QED BY <3>2, <3>3
  <2>3. CASE CredentialFor(w)
    <3>1. Busy(w)
      BY <2>3 DEF CredentialFor, Busy
    <3>2. CASE Resolvable(cur[w])
      BY <1>4, <2>3, <3>1, <3>2 DEF CredentialFor, Stages
    <3>3. CASE ~Resolvable(cur[w])
      <4>1. /\ FailedTarget("CREDENTIAL_RESOLUTION") \in TargetResult
            /\ FailedTarget("CREDENTIAL_RESOLUTION").state = "EXECUTION_FAILED"
        BY ResultTypes DEF ErrorClasses
      <4> QED BY <1>1, <2>3, <3>1, <3>3, <4>1 DEF CredentialFor, IsZero, CutOff
    <3> QED BY <3>2, <3>3
  <2>4. CASE RunnerReturns(w)
    BY <1>4, <2>4 DEF RunnerReturns, Busy, Stages
  <2>5. CASE Classify(w)
    <3>1. Busy(w) /\ out[w] \in Outcome
      BY <2>5 DEF Classify, Busy, FleetInv, TypeOK
    <3> QED BY <1>1, <2>5, <3>1, ClassifyType DEF Classify
  <2> QED BY <1>5, <2>1, <2>2, <2>3, <2>4, <2>5 DEF Worker
<1>6. CASE \/ StopDispatch \/ RunDeadline \/ Returned \/ UNCHANGED fleetVars
           \/ \E e \in CallerEndings : CallerEnds(e)
           \/ \E w \in Workers : TargetDeadline(w)
           \/ \E t \in Targets : SecretLost(t)
  <2>1. /\ UNCHANGED <<results, cur, stopped, pc>>
        /\ (main' = "published") = (main = "published")
    BY <1>6 DEF StopDispatch, RunDeadline, Returned, fleetVars, CallerEnds,
                TargetDeadline, SecretLost
  <2>2. RunDone => RunDone'
    BY <1>6 DEF StopDispatch, RunDeadline, Returned, fleetVars, CallerEnds,
                TargetDeadline, SecretLost, RunDone
  <2> QED BY <2>1, <2>2, QuietStepRefines DEF Busy
<1> QED BY <1>2, <1>3, <1>5, <1>6 DEF Next, FleetStep

\* The concurrent scheduler implements the contract of a run: for any number of
\* targets and workers, every race settles each target once and publishes one
\* report that is whole and says why it was cut off.
THEOREM SchedulerImplementsContract == Spec => ImplementsContract
  BY InitRefines, NextRefines, FleetInvariant, PTL
     DEF Spec, ImplementsContract, Contract!Spec

-----------------------------------------------------------------------------
(* The process.                                                            *)

Phases == {"parsing", "preflight", "executing", "projecting", "rendering",
           "returned", "closed"}

ProcessTypeOK ==
    /\ phase \in Phases
    /\ code \in -1..4 /\ exit \in -1..4
    /\ stdout \in {"empty", "help", "partial", "report"}
    /\ said \subseteq {"failure", "aborted"}
    /\ sent \in Nat /\ signals \in 0..interruptBuffer
    /\ watcher \in {"first", "cancelling", "second", "aborting", "gone"}

\* Before run.Execute no target can have been reached.
NothingRunYet ==
    phase \in {"parsing", "preflight"} =>
        main = "dispatching" /\ next = 1 /\ touched = {}

\* Nothing is written, and no code is held, before Execute returns.
NoCodeYet ==
    phase \in {"parsing", "preflight", "executing"} =>
        code = -1 /\ stdout = "empty"

\* The exit code held while the aggregate is projected and rendered.
HoldsRunCode == main = "published" /\ code = RunExitCode(results)

Delivering ==
    phase \in {"projecting", "rendering"} =>
        HoldsRunCode /\ stdout \in {"empty", "partial"}

\* The four ways runCommandEntry returns.
Returning ==
    phase \in {"returned", "closed"} =>
        \/ code = ExitOK /\ stdout = "help" /\ touched = {}
        \/ code = ExitUsage /\ stdout = "empty" /\ touched = {}
        \/ code = ExitInternal
        \/ HoldsRunCode /\ stdout = "report"

\* The status of an ended process is the main goroutine's code, or the abort's.
ExitedAs ==
    exit # -1 => \/ phase = "closed" /\ exit = code
                 \/ watcher = "aborting" /\ exit = ExitInternal

\* Signals the watcher has taken out of the delivery channel.
Taken ==
    CASE watcher \in {"cancelling", "second"} -> 1
      [] watcher = "aborting" -> 2
      [] OTHER -> 0

\* No signal is invented, and none is lost that the watcher still waits for.
NothingInvented == signals + Taken <= sent

NoneLost ==
    /\ watcher = "first" /\ sent >= 1 => signals >= 1
    /\ watcher = "first" /\ sent >= 2 => signals >= 2
    /\ watcher \in {"cancelling", "second"} /\ sent >= 2 => signals >= 1

ProcessInv ==
    /\ FleetInv
    /\ ProcessTypeOK
    /\ NothingRunYet
    /\ NoCodeYet
    /\ Delivering
    /\ Returning
    /\ ExitedAs
    /\ NothingInvented
    /\ NoneLost

-----------------------------------------------------------------------------
(* The scheduler inside the process.                                       *)

\* Execute's own steps are steps of the scheduler's specification, and the
\* watcher's cancellation ends the caller's context: both keep FleetInv.
LEMMA CallerEndsKeepsFleetInv ==
    ASSUME FleetInv, CallerEnds("canceled")
    PROVE  FleetInv'
<1> USE DEF workerVars
<1>1. TypeOK' /\ (RunDone => RunDone')
  BY DEF CallerEnds, FleetInv, TypeOK, CtxErrors, RunDone
<1> QED BY <1>1, ContextStepKeepsInv DEF CallerEnds

\* Only Execute's own steps and the watcher's cancellation touch its state.
LEMMA FleetStepsOfProcess ==
    [ProcessNext]_vars => UNCHANGED fleetVars \/ Executing \/ Cancel
  BY DEF ProcessNext, MainThread, Watch, Exited, Signal, Parse, Preflight,
         Conclude, Project, RenderSome, RenderRest, RenderFails, CloseDone,
         ExitMain, WatchDone, FirstSignal, SecondSignal, Abort, vars

\* Whatever the process does, the scheduler's invariant holds.
LEMMA ProcessStepKeepsFleetInv ==
    FleetInv /\ [ProcessNext]_vars => FleetInv'
<1> SUFFICES ASSUME FleetInv, [ProcessNext]_vars PROVE FleetInv'
  OBVIOUS
<1>1. CASE UNCHANGED fleetVars
  BY <1>1, NextKeepsInv
<1>2. CASE Executing
  BY <1>2, NextKeepsInv DEF Executing, Next
<1>3. CASE Cancel
  BY <1>3, CallerEndsKeepsFleetInv DEF Cancel
<1> QED BY <1>1, <1>2, <1>3, FleetStepsOfProcess

-----------------------------------------------------------------------------
(* The process invariant.                                                  *)

\* RunExitCode is one of the three codes a finished run can have.
LEMMA RunExitCodeValues ==
    RunExitCode(results) \in {ExitOK, ExitProblemsFound, ExitIncomplete}
  BY DEF RunExitCode

LEMMA ProcessInit0 == ProcessInit => ProcessInv
<1> SUFFICES ASSUME ProcessInit PROVE ProcessInv
  OBVIOUS
<1>1. FleetInv /\ main = "dispatching" /\ next = 1 /\ touched = {}
  BY InitImpliesInv DEF ProcessInit, FleetInit
<1> QED
  BY <1>1 DEF ProcessInit, ProcessInv, ProcessTypeOK, Phases, NothingRunYet,
     NoCodeYet, Delivering, Returning, ExitedAs, NothingInvented, Taken,
     NoneLost, interruptBuffer

\* What only the main goroutine knows, from phase to phase.
MainInv == NothingRunYet /\ NoCodeYet /\ Delivering /\ Returning

LEMMA ExitCodes ==
    /\ ExitOK = 0 /\ ExitProblemsFound = 1 /\ ExitUsage = 2
    /\ ExitInternal = 3 /\ ExitIncomplete = 4
  BY DEF ExitOK, ExitProblemsFound, ExitUsage, ExitInternal, ExitIncomplete

\* A step of the main goroutine keeps the types and leaves the watcher alone.
LEMMA MainThreadKeepsInv ==
    ASSUME ProcessInv, MainThread
    PROVE  ProcessTypeOK' /\ MainInv' /\ ExitedAs' /\ UNCHANGED watchVars
<1> USE ExitCodes, RunExitCodeValues
    DEF ProcessInv, MainInv, ProcessTypeOK, Phases, NothingRunYet, NoCodeYet,
        Delivering, Returning, ExitedAs, HoldsRunCode, fleetVars, watchVars,
        mainVars, Running, Refuse
<1>1. CASE Parse
  <2>1. CASE phase' = "preflight"
    BY <1>1, <2>1 DEF Parse
  <2>2. CASE phase' = "returned" /\ code' = ExitOK /\ stdout' = "help"
    <3>1. phase = "parsing" /\ touched' = {} /\ exit' = -1 /\ UNCHANGED watchVars
      BY <1>1 DEF Parse
    <3>2. said' \subseteq {"failure", "aborted"}
      BY <1>1 DEF Parse
    <3> QED BY <2>2, <3>1, <3>2
  <2>3. CASE Refuse(ExitUsage)
    BY <1>1, <2>3 DEF Parse
  <2> QED BY <1>1, <2>1, <2>2, <2>3 DEF Parse
<1>2. CASE Preflight
  <2>1. CASE phase' = "executing"
    BY <1>2, <2>1 DEF Preflight
  <2>2. CASE Refuse(ExitUsage)
    BY <1>2, <2>2 DEF Preflight
  <2> QED BY <1>2, <2>1, <2>2 DEF Preflight
<1>3. CASE Executing
  BY <1>3 DEF Executing, processVars
<1>4. CASE Conclude
  BY <1>4 DEF Conclude
<1>5. CASE Project
  <2>1. CASE phase' = "rendering"
    <3>1. RunExitCode(results)' = RunExitCode(results)
      BY <1>5 DEF Project, RunExitCode, Incomplete, ProblemsFound
    <3> QED BY <1>5, <2>1, <3>1 DEF Project
  <2>2. CASE Refuse(ExitInternal)
    BY <1>5, <2>2 DEF Project
  <2> QED BY <1>5, <2>1, <2>2 DEF Project
<1>6. CASE RenderSome
  BY <1>6 DEF RenderSome
<1>7. CASE RenderRest
  BY <1>7 DEF RenderRest
<1>8. CASE RenderFails
  BY <1>8 DEF RenderFails
<1>9. CASE CloseDone
  BY <1>9 DEF CloseDone
<1>10. CASE ExitMain
  BY <1>10 DEF ExitMain
<1> QED
  BY <1>1, <1>2, <1>3, <1>4, <1>5, <1>6, <1>7, <1>8, <1>9, <1>10
  DEF MainThread

\* A signal, or a step of the watcher, leaves the main goroutine alone.
LEMMA WatchKeepsInv ==
    ASSUME ProcessInv, Signal \/ Watch
    PROVE  /\ ProcessTypeOK' /\ MainInv' /\ ExitedAs'
           /\ NothingInvented' /\ NoneLost'
<1> USE ExitCodes
    DEF ProcessInv, ProcessTypeOK, ExitedAs, NothingInvented, Taken, NoneLost,
        interruptBuffer, Running
<1>1. CASE Signal
  BY <1>1 DEF Signal, mainVars, fleetVars, MainInv, NothingRunYet, NoCodeYet,
          Delivering, Returning, HoldsRunCode, RunExitCode, Incomplete, ProblemsFound
<1>2. CASE WatchDone
  BY <1>2 DEF WatchDone, mainVars, fleetVars, MainInv, NothingRunYet, NoCodeYet,
          Delivering, Returning, HoldsRunCode, RunExitCode, Incomplete, ProblemsFound
<1>3. CASE FirstSignal
  BY <1>3 DEF FirstSignal, mainVars, fleetVars, MainInv, NothingRunYet, NoCodeYet,
          Delivering, Returning, HoldsRunCode, RunExitCode, Incomplete, ProblemsFound
<1>4. CASE Cancel
  BY <1>4 DEF Cancel, CallerEnds, mainVars, MainInv, NothingRunYet, NoCodeYet,
          Delivering, Returning, HoldsRunCode, RunExitCode, Incomplete, ProblemsFound
<1>5. CASE SecondSignal
  BY <1>5 DEF SecondSignal, mainVars, fleetVars, MainInv, NothingRunYet, NoCodeYet,
          Delivering, Returning, HoldsRunCode, RunExitCode, Incomplete, ProblemsFound
<1>6. CASE Abort
  BY <1>6 DEF Abort, watchVars, mainVars, fleetVars, MainInv, NothingRunYet, NoCodeYet,
          Delivering, Returning, HoldsRunCode, RunExitCode, Incomplete, ProblemsFound
<1> QED BY <1>1, <1>2, <1>3, <1>4, <1>5, <1>6 DEF Watch

LEMMA ProcessStep == ProcessInv /\ [ProcessNext]_vars => ProcessInv'
<1> SUFFICES ASSUME ProcessInv, [ProcessNext]_vars PROVE ProcessInv'
  OBVIOUS
<1>1. FleetInv'
  BY ProcessStepKeepsFleetInv DEF ProcessInv
<1>2. CASE MainThread
  <2>1. NothingInvented' /\ NoneLost'
    BY <1>2, MainThreadKeepsInv
    DEF watchVars, ProcessInv, NothingInvented, Taken, NoneLost
  <2> QED BY <1>1, <1>2, <2>1, MainThreadKeepsInv DEF ProcessInv, MainInv
<1>3. CASE Signal \/ Watch
  BY <1>1, <1>3, WatchKeepsInv DEF ProcessInv, MainInv
<1>4. CASE UNCHANGED vars
  BY <1>1, <1>4
  DEF vars, processVars, fleetVars, ProcessInv, ProcessTypeOK, NothingRunYet,
      NoCodeYet, Delivering, Returning, ExitedAs, HoldsRunCode,
      NothingInvented, Taken, NoneLost, RunExitCode, Incomplete, ProblemsFound
<1> QED BY <1>2, <1>3, <1>4 DEF ProcessNext, Exited

\* The inductive invariant of the process, the scheduler's included: what the
\* fleet proofs establish of Execute holds inside the interruptible process.
THEOREM ProcessInvariant == ProcessSpec => []ProcessInv
  BY ProcessInit0, ProcessStep, PTL DEF ProcessSpec

\* docs/SCOPE.md's exit contract for any number of targets, workers and
\* signals: no race of the watcher with the main goroutine makes the status
\* claim something the run and its output do not bear out.
THEOREM ExitIsTruthful == ProcessSpec => []ExitCodeTruthful
<1>1. ProcessInv => ExitCodeTruthful
  BY ExitCodes
  DEF ProcessInv, ExitCodeTruthful, ExitedAs, Returning, HoldsRunCode,
      RunExitCode
<1> QED BY <1>1, ProcessInvariant, PTL

\* One signal never aborts, however the deliveries interleave: status 3 is an
\* internal failure or the second signal.
THEOREM OneSignalIsNotAnAbort == ProcessSpec => []OneSignalNeverAborts
<1>1. ProcessInv => OneSignalNeverAborts
  BY ExitCodes
  DEF ProcessInv, ProcessTypeOK, OneSignalNeverAborts, ExitedAs,
      NothingInvented, Taken, interruptBuffer
<1> QED BY <1>1, ProcessInvariant, PTL

\* The safety half of TwoSignalsEnd: as long as the watcher waits, a signal it
\* has not yet taken is still in the delivery channel, however many are sent.
THEOREM SignalsAreNotLost == ProcessSpec => []NoneLost
<1>1. ProcessInv => NoneLost
  BY DEF ProcessInv
<1> QED BY <1>1, ProcessInvariant, PTL

-----------------------------------------------------------------------------
(* The process runs the scheduler and nothing else touches its state.      *)

\* Seen from internal/fleet/run, the process is one of its callers: where the
\* caller's context may be cancelled, the process implements the scheduler, so
\* every theorem of the scheduler above, and the contract of RunContract with it,
\* holds of a run that is signalled, aborted or refused at any moment.
THEOREM ProcessRunsTheScheduler ==
    ASSUME "canceled" \in CallerEndings
    PROVE  ProcessSpec => Spec /\ ImplementsContract
<1>1. ProcessInit => FleetInit
  BY DEF ProcessInit
<1>2. [ProcessNext]_vars => [Next]_fleetVars
  <2>1. Executing => Next
    BY DEF Executing, Next
  <2>2. Cancel => Next
    BY DEF Cancel, Next
  <2> QED BY <2>1, <2>2, FleetStepsOfProcess
<1>3. ProcessSpec => Spec
  BY <1>1, <1>2, PTL DEF ProcessSpec, Spec
<1> QED BY <1>3, SchedulerImplementsContract, PTL
=============================================================================
