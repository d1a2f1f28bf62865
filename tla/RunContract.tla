----------------------------- MODULE RunContract -----------------------------
(***************************************************************************)
(* What a multi-target run promises its caller, with no workers, channels  *)
(* or contexts: every declared target is queued, possibly taken up, and    *)
(* settled once in one of the four execution states; only a run that ended *)
(* early may leave one NOT_STARTED or CANCELLED; one report is published,  *)
(* when nothing is active, and it says why scheduling stopped exactly when *)
(* some target was cut off.                                                *)
(***************************************************************************)
EXTENDS Naturals

CONSTANT Targets

VARIABLES
    disp,   \* per target: QUEUED, ACTIVE or its execution state
    ended,  \* whether the run was ended early
    reason  \* OPEN until the report is published, then its StoppedReason

vars == <<disp, ended, reason>>

CutOff == {"NOT_STARTED", "CANCELLED"}

Init ==
    /\ disp = [t \in Targets |-> "QUEUED"]
    /\ ended = FALSE
    /\ reason = "OPEN"

End ==
    /\ ~ended
    /\ ended' = TRUE
    /\ UNCHANGED <<disp, reason>>

TakeUp(t) ==
    /\ reason = "OPEN"
    /\ disp[t] = "QUEUED"
    /\ disp' = [disp EXCEPT ![t] = "ACTIVE"]
    /\ UNCHANGED <<ended, reason>>

Settle(t, d) ==
    /\ reason = "OPEN"
    /\ disp[t] = "ACTIVE"
    /\ d \in CutOff => ended
    /\ disp' = [disp EXCEPT ![t] = d]
    /\ UNCHANGED <<ended, reason>>

Publish(r) ==
    /\ reason = "OPEN"
    /\ \A t \in Targets : disp[t] # "ACTIVE"
    /\ ended \/ \A t \in Targets : disp[t] # "QUEUED"
    /\ disp' = [t \in Targets |->
                  IF disp[t] = "QUEUED" THEN "NOT_STARTED" ELSE disp[t]]
    /\ (r = "NONE") <=> \A t \in Targets : disp'[t] \notin CutOff
    /\ reason' = r
    /\ UNCHANGED ended

Next ==
    \/ End
    \/ \E t \in Targets : TakeUp(t)
    \/ \E t \in Targets :
         \E d \in {"COMPLETED", "EXECUTION_FAILED"} \cup CutOff : Settle(t, d)
    \/ \E r \in {"NONE", "RUN_BUDGET_EXHAUSTED", "CANCELLED"} : Publish(r)

Spec == Init /\ [][Next]_vars
=============================================================================
