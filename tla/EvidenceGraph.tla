---------------------------- MODULE EvidenceGraph ----------------------------
(***************************************************************************)
(* domain.GraphBuilder: evidence nodes and two relations over them, parent *)
(* edges and blocked-by edges, grown one checked call at a time and frozen *)
(* any number of times. A refused call leaves the builder as it was.       *)
(***************************************************************************)
EXTENDS Digraph

CONSTANT IDs            \* evidence identifiers

VARIABLES
    node,       \* per identifier: absent, SKIPPED, or MEASURED (any other state)
    parents,    \* <<child, parent>> edges
    blockedBy,  \* <<skipped, blocker>> edges
    reply       \* what the last call answered: a verdict, and the edge refused

vars == <<node, parents, blockedBy, reply>>

Present == {i \in IDs : node[i] # "absent"}

Verdicts == {"ok", "duplicate", "absent", "self", "not skipped",
             "parent cycle", "blocker cycle", "invalid"}

Done == reply' = [verdict |-> "ok", edge |-> {}]

Refuse(v, e) ==
    /\ reply' = [verdict |-> v, edge |-> e]
    /\ UNCHANGED <<node, parents, blockedBy>>

AddEvidence(i, s) ==
    \/ node[i] # "absent" /\ Refuse("duplicate", {})
    \/ /\ node[i] = "absent"
       /\ node' = [node EXCEPT ![i] = s]
       /\ Done
       /\ UNCHANGED <<parents, blockedBy>>

\* Mutant: the walk looks only one edge ahead.
adjacent(R, start, target) == start = target \/ <<start, target>> \in R

\* Mutant: the walk follows edges backwards as well.
connected(R, start, target) ==
    Reaches(R \cup {<<e[2], e[1]>> : e \in R}, IDs, start, target)

reachable(R, start, target) == Reaches(R, IDs, start, target)

AddParent(child, parent) ==
    \/ {child, parent} \ Present # {} /\ Refuse("absent", {})
    \/ /\ {child, parent} \subseteq Present
       /\ \/ child = parent /\ Refuse("self", {})
          \/ /\ child # parent
             /\ reachable(parents, parent, child)
             /\ Refuse("parent cycle", {<<child, parent>>})
          \/ /\ child # parent
             /\ ~reachable(parents, parent, child)
             /\ parents' = parents \cup {<<child, parent>>}
             /\ Done
             /\ UNCHANGED <<node, blockedBy>>

AddBlockedBy(skipped, blocker) ==
    \/ {skipped, blocker} \ Present # {} /\ Refuse("absent", {})
    \/ /\ {skipped, blocker} \subseteq Present
       /\ \/ skipped = blocker /\ Refuse("self", {})
          \/ /\ skipped # blocker /\ node[skipped] # "SKIPPED"
             /\ Refuse("not skipped", {})
          \/ /\ skipped # blocker /\ node[skipped] = "SKIPPED"
             /\ reachable(blockedBy, blocker, skipped)
             /\ Refuse("blocker cycle", {<<skipped, blocker>>})
          \/ /\ skipped # blocker /\ node[skipped] = "SKIPPED"
             /\ ~reachable(blockedBy, blocker, skipped)
             /\ blockedBy' = blockedBy \cup {<<skipped, blocker>>}
             /\ Done
             /\ UNCHANGED <<node, parents>>

\* freezeRelation: endpoints exist, no self edge, findCycle finds none.
freezeRelation(R) ==
    /\ \A e \in R : e[1] \in Present /\ e[2] \in Present /\ e[1] # e[2]
    /\ Acyclic(R, IDs)

Freeze ==
    /\ reply' = [verdict |-> IF /\ freezeRelation(parents)
                                /\ freezeRelation(blockedBy)
                                /\ \A e \in blockedBy : node[e[1]] = "SKIPPED"
                             THEN "ok" ELSE "invalid",
                 edge |-> {}]
    /\ UNCHANGED <<node, parents, blockedBy>>

Init ==
    /\ node = [i \in IDs |-> "absent"]
    /\ parents = {} /\ blockedBy = {}
    /\ reply = [verdict |-> "ok", edge |-> {}]

Next ==
    \/ \E i \in IDs : \E s \in {"SKIPPED", "MEASURED"} : AddEvidence(i, s)
    \/ \E i, j \in IDs : AddParent(i, j) \/ AddBlockedBy(i, j)
    \/ Freeze

Spec == Init /\ [][Next]_vars

-----------------------------------------------------------------------------
(* Properties.                                                             *)

\* Types, and "forward references are not accepted": every edge joins evidence
\* that is in the graph.
GraphTypeOK ==
    /\ node \in [IDs -> {"absent", "SKIPPED", "MEASURED"}]
    /\ parents \subseteq Present \X Present
    /\ blockedBy \subseteq Present \X Present
    /\ reply \in [verdict : Verdicts, edge : SUBSET (IDs \X IDs)]

\* Freeze re-validates the whole structure "even if a future builder change lets
\* something slip through": with this builder nothing does. No sequence of
\* accepted calls leaves a cycle, a dangling edge or a blocked measurement.
FreezeNeverRefuses == reply.verdict # "invalid"

\* "Adding child -> parent closes a cycle exactly when child is already
\* reachable from parent": an edge is refused as a cycle only if it closes one.
CycleRefusalIsExact ==
    /\ reply.verdict = "parent cycle" => ~Acyclic(parents \cup reply.edge, IDs)
    /\ reply.verdict = "blocker cycle" => ~Acyclic(blockedBy \cup reply.edge, IDs)
=============================================================================
