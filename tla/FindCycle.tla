------------------------------ MODULE FindCycle ------------------------------
(***************************************************************************)
(* findCycle of internal/domain/graphbuilder.go: the three-colour depth-   *)
(* first search Freeze re-validates each relation with. The recursion of   *)
(* visit is its path of open calls; each call keeps the successors it has  *)
(* not visited. The order in which the code visits only chooses which node *)
(* a message names, so any order is allowed here.                          *)
(***************************************************************************)
EXTENDS Digraph, Naturals, Sequences

CONSTANT Vertex

VARIABLES
    relation,        \* the relation searched
    starts,     \* nodes with an outgoing edge, not yet visited from the top
    mark,       \* unvisited, onPath or finished
    path,       \* the open calls of visit
    todo,       \* per node: successors its call has still to visit
    verdict     \* searching, cycle or none

searchVars == <<relation, starts, mark, path, todo, verdict>>

TargetsOf(x) == {e[2] : e \in {f \in relation : f[1] = x}}

SearchInit ==
    /\ relation \in SUBSET (Vertex \X Vertex)
    /\ starts = {e[1] : e \in relation}
    /\ mark = [x \in Vertex |-> "unvisited"]
    /\ path = <<>>
    /\ todo = [x \in Vertex |-> {}]
    /\ verdict = "searching"

\* visit(id) for an unvisited id: mark it and open a call.
Open(id) ==
    /\ mark' = [mark EXCEPT ![id] = "onPath"]
    /\ path' = Append(path, id)

Start(id) ==
    /\ verdict = "searching" /\ path = <<>> /\ id \in starts
    /\ starts' = starts \ {id}
    /\ IF mark[id] = "finished"
       THEN UNCHANGED <<mark, path, todo>>
       ELSE Open(id) /\ todo' = [todo EXCEPT ![id] = TargetsOf(id)]
    /\ UNCHANGED <<relation, verdict>>

\* Mutant: two colours, any marked node closes a cycle.
VisitTwoColours(to) ==
    /\ verdict = "searching" /\ path # <<>>
    /\ LET id == path[Len(path)] IN
         /\ to \in todo[id]
         /\ IF mark[to] # "unvisited"
            THEN /\ verdict' = "cycle"
                 /\ todo' = [todo EXCEPT ![id] = @ \ {to}]
                 /\ UNCHANGED <<mark, path>>
            ELSE /\ Open(to)
                 /\ todo' = [todo EXCEPT ![id] = @ \ {to}, ![to] = TargetsOf(to)]
                 /\ UNCHANGED verdict
    /\ UNCHANGED <<relation, starts>>

Visit(to) ==
    /\ verdict = "searching" /\ path # <<>>
    /\ LET id == path[Len(path)] IN
         /\ to \in todo[id]
         /\ \/ /\ mark[to] = "unvisited"
               /\ Open(to)
               /\ todo' = [todo EXCEPT ![id] = @ \ {to}, ![to] = TargetsOf(to)]
               /\ UNCHANGED verdict
            \/ /\ mark[to] # "unvisited"
               /\ todo' = [todo EXCEPT ![id] = @ \ {to}]
               /\ verdict' = IF mark[to] = "onPath" THEN "cycle" ELSE verdict
               /\ UNCHANGED <<mark, path>>
    /\ UNCHANGED <<relation, starts>>

Close ==
    /\ verdict = "searching" /\ path # <<>>
    /\ LET id == path[Len(path)] IN
         /\ todo[id] = {}
         /\ mark' = [mark EXCEPT ![id] = "finished"]
         /\ path' = SubSeq(path, 1, Len(path) - 1)
    /\ UNCHANGED <<relation, starts, todo, verdict>>

SearchExhausted ==
    /\ verdict = "searching" /\ path = <<>> /\ starts = {}
    /\ verdict' = "none"
    /\ UNCHANGED <<relation, starts, mark, path, todo>>

SearchReturned == verdict # "searching" /\ UNCHANGED searchVars

SearchNext ==
    \/ \E id \in Vertex : Start(id) \/ Visit(id)
    \/ Close \/ SearchExhausted \/ SearchReturned

SearchSpec == SearchInit /\ [][SearchNext]_searchVars

\* The search reports a cycle exactly when the relation has one.
SearchIsExact ==
    /\ verdict = "cycle" => ~Acyclic(relation, Vertex)
    /\ verdict = "none" => Acyclic(relation, Vertex)

\* The search ends on every relation.
SearchTerminates == <>(verdict # "searching")
=============================================================================
