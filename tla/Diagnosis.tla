------------------------------ MODULE Diagnosis ------------------------------
(***************************************************************************)
(* What every service's diagnosis shares: the evidence of a frozen graph   *)
(* as a set of records, the findings the rules make of it, the generic     *)
(* failure-boundary rule, and the summary the report derives from both.    *)
(*                                                                         *)
(* Wording, advice and the exact failure class are left out where they     *)
(* decide nothing: a code stands for the claim, with the evidence it       *)
(* cites.                                                                  *)
(***************************************************************************)
EXTENDS Naturals

\* Subjects: the declared target, its host name, one address of it.
Target == <<"target">>
Host   == <<"host">>
Address(a) == <<"address", a>>

\* One recorded node. Layers: 1 DNS, 2 TCP, 3 TLS, 4 protocol, 5 authentication,
\* 6 topology. `order` sorts the steps of one layer.
Ev(layer, order, step, subject, node) ==
    [layer |-> layer, order |-> order, step |-> step, subject |-> subject,
     state |-> node.state, class |-> node.class]

\* The nodes of E that were recorded at all.
RecordedIn(E) == {e \in E : e.state # "NONE"}

\* nodesAt: the evidence of one step.
nodesAt(E, step) == {e \in E : e.step = step}

\* build: one finding about one subject, resting on the evidence in refs.
Finding(code, severity, layer, subject, refs) ==
    [code |-> code, severity |-> severity, layer |-> layer, subject |-> subject,
     refs |-> refs]

\* What a rule makes of each of its nodes: a finding of a code and severity,
\* about the node's subject, resting on the node alone.
ClaimsOf(nodes, Evaluate(_)) ==
    UNION {{Finding(c[1], c[2], e.layer, e.subject, {e}) : c \in Evaluate(e)} : e \in nodes}

-----------------------------------------------------------------------------
(* Shared graph queries, and the failure boundary.                         *)

NodesForSubject(E, s) == {e \in E : e.subject = s}
Subjects(E) == {e.subject : e \in E}

\* sortByLayer.
Shallower(d, e) == d.layer < e.layer \/ (d.layer = e.layer /\ d.order < e.order)

Failing(e) == e.state \in {"FAIL", "DEGRADED"}

\* The shallowest failure of a subject's own nodes.
FirstFailures(N) == {e \in N : Failing(e) /\ \A d \in N : Failing(d) => ~Shallower(d, e)}

\* The deepest stage that passed strictly above the failing layer.
LastGood(N, f) ==
    LET good == {e \in N : e.state = "PASS" /\ e.layer < f.layer}
    IN {e \in good : \A d \in good : ~Shallower(e, d)}

\* Boundaries, and the finding for each: where observation of one subject
\* stopped succeeding, citing both halves of the contrast.
FailureBoundary(E) ==
    UNION {LET N == NodesForSubject(E, s)
           IN {Finding("DIAG_FAILURE_BOUNDARY", "INFO", f.layer, s, {f} \cup LastGood(N, f))
                 : f \in FirstFailures(N)}
           : s \in Subjects(E)}

-----------------------------------------------------------------------------
(* The report.                                                             *)

Problem(f) == f.severity \in {"ERROR", "CRITICAL"}
Notable(f) == f.severity # "INFO"

\* deriveSummary: the shallowest layer with a failed node, 7 when there is none.
FirstBrokenLayer(E) ==
    IF \E e \in E : e.state = "FAIL"
    THEN CHOOSE l \in 0..6 : /\ \E e \in E : e.state = "FAIL" /\ e.layer = l
                             /\ \A e \in E : e.state = "FAIL" => l <= e.layer
    ELSE 7

\* validateEvidenceRefs: NewReport refuses a finding whose evidence is not there.
RefsResolve(E, F) == \A f \in F : f.refs # {} /\ f.refs \subseteq E
=============================================================================
