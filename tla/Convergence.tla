----------------------------- MODULE Convergence -----------------------------
(***************************************************************************)
(* The diagnosis engine: rules are wired into a RuleSet and frozen into a  *)
(* Registry, Evaluate runs them one after the other (a rule that panics    *)
(* loses its own output and nothing else), and Converge merges what they   *)
(* produced: findings with one semantic identity are candidates, those     *)
(* that agree on the merge key become one finding.                         *)
(*                                                                         *)
(* Codes, subjects, layers, summaries, details, discriminators and         *)
(* evidence identifiers are numbers, compared the way the code compares    *)
(* the strings; discriminator 0 is the unset one.                          *)
(***************************************************************************)
EXTENDS SequencesExt, Ranking

CONSTANTS
    RuleIDs,    \* well-formed rule identities
    MaxAdds,    \* calls of Add before FreezeRules
    Inputs      \* the FindingInputs a rule may build

\* Severity and Confidence are enumerations of four and of three values
\* (internal/domain), FindingKind one of two; the rest is text, and a report
\* is finite.
InputsAssumption ==
    \A in \in Inputs :
        /\ in.refs \subseteq Nat \ {0} /\ IsFiniteSet(in.refs)
        /\ in.advice \in Seq([action : Nat, remediates : BOOLEAN])
        /\ in \in [code : Nat, subject : Nat, layer : Nat, summary : Nat, detail : Nat,
                  discriminator : Nat, kind : {"CONFIRMED", "HYPOTHESIS"},
                  severity : 1..4, confidence : 1..3, vantage : BOOLEAN,
                  refs : {in.refs}, advice : {in.advice}]
ASSUME InputsAssumption

VARIABLES
    engine,     \* where the diagnosis is
    adds,       \* calls of Add so far
    registry,   \* the rules in the order they were added
    refused,    \* RuleSet.err is set
    turn,       \* rules evaluated so far
    produced,   \* the attributed findings, in the order they were returned
    failures,   \* the RuleFailures of the Outcome
    findings    \* the Findings of the Outcome

engineVars == <<engine, adds, registry, refused, turn, produced, failures, findings>>

BadID == "bad id"
NilRule == "nil rule"
ConvergenceFailure == "diag/convergence"

-----------------------------------------------------------------------------
(* Findings.                                                               *)

HighConfidence == 3
ZeroFinding == [code |-> 0]

\* AdmitAdvice: a remediation needs a confirmed finding at high confidence;
\* an observation is always admitted.
AdmitAdvice(kind, confidence, advice) ==
    advice.remediates => kind = "CONFIRMED" /\ confidence = HighConfidence

\* Recommend drops what is not admitted and reports nothing.
Recommend(in) ==
    Where(in.advice, {i \in DOMAIN in.advice :
                        AdmitAdvice(in.kind, in.confidence, in.advice[i])})

\* NewFinding refuses a finding without evidence, and a confirmed one that
\* still carries an open question. A rule's build drops what is refused.
Buildable(in) ==
    /\ in.refs # {}
    /\ in.kind = "CONFIRMED" => in.discriminator = 0
NewFinding(in) == IF Buildable(in) THEN [in EXCEPT !.advice = Recommend(in)] ELSE ZeroFinding

\* The finding of one rule, and whether there is one.
build(in) == IF Buildable(in) THEN <<NewFinding(in)>> ELSE <<>>

-----------------------------------------------------------------------------
(* Convergence.                                                            *)

IdentityOf(f) == <<f.code, f.subject>>

mergeable(f) == [layer |-> f.layer, summary |-> f.summary, detail |-> f.detail,
                 discriminator |-> f.discriminator]

sameClaimAs(k, other) ==
    k.layer = other.layer /\ k.summary = other.summary /\ k.detail = other.detail

KeyOrder(k) == <<k.layer, k.summary, k.detail, k.discriminator>>

ByKey(keys) == {p \in keys \X keys : LexBefore(KeyOrder(p[1]), KeyOrder(p[2]))}

SortedRefs(refs) == Ranked(refs, Ascending(refs))
Flag(b) == IF b THEN 1 ELSE 0
KindOrder(kind) == IF kind = "CONFIRMED" THEN 1 ELSE 2
AdviceOrder(advice) ==
    [i \in DOMAIN advice |-> 2 * advice[i].action + Flag(advice[i].remediates)]

\* The non-empty questions asked about k's own claim.
Hosts(keys, k) == {h \in keys : h.discriminator # 0 /\ sameClaimAs(h, k)}

\* Where a bucket ends up: a silent one folds into the one question asked
\* about its claim, when there is exactly one.
Home(keys, k) ==
    IF k.discriminator = 0 /\ Cardinality(Hosts(keys, k)) = 1
    THEN CHOOSE h \in Hosts(keys, k) : TRUE ELSE k

\* Mutant: the groups come out in the order their first member arrived.
partitionByArrival(group) ==
    LET keys  == {mergeable(group[i]) : i \in DOMAIN group}
        homes == {Home(keys, k) : k \in keys}
        First(k) == CHOOSE i \in DOMAIN group :
                      /\ Home(keys, mergeable(group[i])) = k
                      /\ \A j \in 1..(i - 1) : Home(keys, mergeable(group[j])) # k
        order == Ranked(homes, {p \in homes \X homes : First(p[1]) < First(p[2])})
    IN [n \in 1..Cardinality(homes) |->
          Where(group, {i \in DOMAIN group : Home(keys, mergeable(group[i])) = order[n]})]

\* partitionByCompatibility: the buckets, host members before the silent ones
\* folded into them, in the order of their keys.
partitionByCompatibility(group) ==
    LET keys  == {mergeable(group[i]) : i \in DOMAIN group}
        homes == {Home(keys, k) : k \in keys}
        order == Ranked(homes, ByKey(homes))
        Bucket(k) == Where(group, {i \in DOMAIN group : mergeable(group[i]) = k})
        Folded(k) == Where(group, {i \in DOMAIN group :
                                     /\ mergeable(group[i]) # k
                                     /\ Home(keys, mergeable(group[i])) = k})
    IN [n \in 1..Cardinality(homes) |-> Bucket(order[n]) \o Folded(order[n])]

\* compareByContent, as the list of what it compares.
ContentOrder(f) ==
    SortedRefs(f.refs) \o <<0, KindOrder(f.kind), f.severity, f.confidence,
        f.discriminator, Flag(f.vantage)>> \o AdviceOrder(f.advice)

\* The members in content order; equal ones are interchangeable.
ByContent(group) == SortedBy(group, [i \in DOMAIN group |-> ContentOrder(group[i])])

\* All their advice in that order, each recommendation where it first stands.
AdviceOf(group) ==
    LET members == ByContent(group)
        all     == FlattenSeq([i \in DOMAIN members |-> members[i].advice])
    IN Where(all, {i \in DOMAIN all : \A j \in 1..(i - 1) : all[j] # all[i]})

\* mergeGroup refuses a group that a partitioning defect let through.
Conflicting(group) ==
    \E i, j \in DOMAIN group :
        \/ ~sameClaimAs(mergeable(group[i]), mergeable(group[j]))
        \/ /\ group[i].discriminator # 0 /\ group[j].discriminator # 0
           /\ group[i].discriminator # group[j].discriminator

Confirmed(f) == f.kind = "CONFIRMED"

\* Mutant: a guess among the members makes the merged finding a guess.
MergedKindWeakest(group) ==
    IF \E f \in ToSet(group) : ~Confirmed(f) THEN "HYPOTHESIS" ELSE group[1].kind

\* A proof absorbs a guess.
MergedKind(group) == IF \E f \in ToSet(group) : Confirmed(f) THEN "CONFIRMED" ELSE group[1].kind

\* Every field is one all members share, or a maximum, a union, or an OR. A
\* proof has no open question left.
mergeGroup(group) ==
    LET members == ToSet(group)
        kind    == MergedKind(group)
    IN IF Len(group) = 1 THEN group[1] ELSE
       [group[1] EXCEPT
          !.kind          = kind,
          !.severity      = Max({f.severity : f \in members}),
          !.confidence    = Max({f.confidence : f \in members}),
          !.vantage       = \E f \in members : f.vantage,
          !.discriminator = IF kind = "CONFIRMED" THEN 0
                            ELSE Max({f.discriminator : f \in members}),
          !.refs          = UNION {f.refs : f \in members},
          !.advice        = AdviceOf(group)]

\* SortFindings is stable and orders by severity first; the detail and the
\* discriminator are no part of it.
ReportOrder(f) == <<4 - f.severity, f.layer, f.code, f.subject, f.summary>> \o SortedRefs(f.refs)
SortFindings(fs) == SortedBy(fs, [i \in DOMAIN fs |-> ReportOrder(fs[i])])

\* The findings by identity, in identity order, and by merge key within one.
GroupsOf(in) ==
    LET identities == {IdentityOf(in[i]) : i \in DOMAIN in}
        order      == Ranked(identities, ByFields(identities))
    IN FlattenSeq([n \in 1..Cardinality(identities) |-> partitionByCompatibility(
           Where(in, {i \in DOMAIN in : IdentityOf(in[i]) = order[n]}))])

\* Converge fails as a whole on one finding or one group it cannot take.
CannotConverge(in) ==
    \/ ZeroFinding \in ToSet(in)
    \/ \E group \in ToSet(GroupsOf(in)) : Conflicting(group)

Converge(in) ==
    LET groups == GroupsOf(in)
    IN SortFindings([n \in DOMAIN groups |-> mergeGroup(groups[n])])

-----------------------------------------------------------------------------
(* Wiring.                                                                 *)

\* RuleSet.Add: the first refusal sticks, and nothing is added after it.
Add(id) ==
    /\ engine = "wiring"
    /\ adds < MaxAdds
    /\ adds' = adds + 1
    /\ LET rejects == refused \/ id \notin RuleIDs \/ id \in ToSet(registry)
       IN /\ refused' = rejects
          /\ registry' = IF rejects THEN registry ELSE Append(registry, id)
    /\ UNCHANGED <<engine, turn, produced, failures, findings>>

\* FreezeRules: a refused RuleSet yields no Registry and the run ends in an error.
FreezeRules ==
    /\ engine = "wiring"
    /\ engine' = IF refused THEN "refused" ELSE "evaluating"
    /\ UNCHANGED <<adds, registry, refused, turn, produced, failures, findings>>

-----------------------------------------------------------------------------
(* Evaluate.                                                               *)

\* evaluateOne recovers: out is what the rule had built when it panicked.
RulePanics(out) ==
    /\ engine = "evaluating"
    /\ turn < Len(registry)
    /\ turn' = turn + 1
    /\ failures' = Append(failures, registry[turn + 1])
    /\ UNCHANGED <<engine, adds, registry, refused, produced, findings>>

RuleReturns(out) ==
    /\ engine = "evaluating"
    /\ turn < Len(registry)
    /\ turn' = turn + 1
    /\ produced' = produced \o out
    /\ UNCHANGED <<engine, adds, registry, refused, failures, findings>>

\* Mutant: a finding that cannot be merged is left out and the rest goes on.
EvaluateSkipsBad ==
    /\ engine = "evaluating"
    /\ turn = Len(registry)
    /\ engine' = "done"
    /\ findings' = Converge(Where(produced, {i \in DOMAIN produced : produced[i] # ZeroFinding}))
    /\ UNCHANGED <<adds, registry, refused, turn, produced, failures>>

\* The Outcome: the merged findings, or none and a failure that says so.
Evaluate ==
    /\ engine = "evaluating"
    /\ turn = Len(registry)
    /\ engine' = "done"
    /\ findings' = IF CannotConverge(produced) THEN <<>> ELSE Converge(produced)
    /\ failures' = IF CannotConverge(produced)
                   THEN Append(failures, ConvergenceFailure) ELSE failures
    /\ UNCHANGED <<adds, registry, refused, turn, produced>>

-----------------------------------------------------------------------------
EngineIdle ==
    /\ adds = 0 /\ registry = <<>> /\ refused = FALSE /\ turn = 0
    /\ produced = <<>> /\ failures = <<>> /\ findings = <<>>

EngineInit == EngineIdle /\ engine = "wiring"

\* A rule builds at most one finding here, or hands on one it did not build.
Outputs == {build(in) : in \in Inputs} \cup {<<>>, <<ZeroFinding>>}

EngineOver == engine \in {"done", "refused"} /\ UNCHANGED engineVars

EngineNext ==
    \/ \E id \in RuleIDs \cup {BadID, NilRule} : Add(id)
    \/ FreezeRules
    \/ \E out \in Outputs : RulePanics(out) \/ RuleReturns(out)
    \/ Evaluate
    \/ EngineOver

EngineSpec == EngineInit /\ [][EngineNext]_engineVars

-----------------------------------------------------------------------------
(* Properties.                                                             *)

Rearranged(s) ==
    {[i \in DOMAIN s |-> s[p[i]]] : p \in SetToSeqs(DOMAIN s)}

\* Converge: "The result is the same for any input order". The order in which
\* rules were registered, and any order of their findings, decides nothing in
\* the report, the order of its findings and of their advice included.
OrderDecidesNothing ==
    engine = "done" /\ findings # <<>> =>
        \A s \in Rearranged(produced) : Converge(s) = findings

\* Every finding a rule returned is told by a finding of the report, with all
\* its evidence, at no less than its severity, about the same claim and with no
\* other question; and the report cites no evidence and claims no confidence
\* that no rule did. The one exception is a convergence that failed as a whole
\* (Engine.Evaluate): then there are no findings, and the Outcome says why.
NothingLostOrInvented ==
    engine = "done" =>
        LET Tells(g, f) == /\ IdentityOf(g) = IdentityOf(f)
                           /\ sameClaimAs(mergeable(g), mergeable(f))
                           /\ f.refs \subseteq g.refs
                           /\ f.severity <= g.severity
                           /\ f.discriminator \in {0, g.discriminator} \/ g.kind = "CONFIRMED"
        IN \/ ConvergenceFailure \in ToSet(failures) /\ findings = <<>>
           \/ /\ \A f \in ToSet(produced) : \E g \in ToSet(findings) : Tells(g, f)
              /\ \A g \in ToSet(findings) :
                   /\ \E f \in ToSet(produced) : f.confidence = g.confidence /\ Tells(g, f)
                   /\ g.refs \subseteq UNION {f.refs : f \in ToSet(produced)}

\* ADR 0082: no merge puts a remediation under a finding that would not have
\* been allowed to carry it, and no merged finding is one NewFinding refuses.
MergedIsAdmissible ==
    \A i \in DOMAIN findings :
        LET f == findings[i]
        IN /\ Buildable(f)
           /\ \A a \in ToSet(f.advice) : AdmitAdvice(f.kind, f.confidence, a)
           /\ f.kind = "CONFIRMED" =>
                \E g \in ToSet(produced) : Confirmed(g) /\ g.refs \subseteq f.refs
=============================================================================
