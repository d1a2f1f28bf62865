----------------------------- MODULE GraphWalk -----------------------------
(***************************************************************************)
(* reachable of internal/domain/graphbuilder.go: the depth-first walk with *)
(* an explicit stack that decides whether an edge would close a cycle, for *)
(* any relation and in any order of Go's map iteration. Its answer is      *)
(* compared with the definition of reachability EvidenceGraph uses.        *)
(***************************************************************************)
EXTENDS Digraph, Naturals, Sequences

CONSTANT V

VARIABLES
    rel, start, target,     \* the arguments
    stack, seen,            \* the walk's two collections
    ahead,                  \* successors of the current node not yet looked at
    at                      \* loop, edges, or the value returned: yes, no

args == <<rel, start, target>>
walkVars == <<rel, start, target, stack, seen, ahead, at>>

Successors(x) == {e[2] : e \in {f \in rel : f[1] = x}}

OnStack == {stack[i] : i \in 1..Len(stack)}

WalkInit ==
    /\ rel \in SUBSET (V \X V) /\ start \in V /\ target \in V
    /\ stack = <<start>> /\ seen = {} /\ ahead = {}
    /\ at = IF start = target THEN "yes" ELSE "loop"

\* Mutant: a node is marked seen without its edges being followed.
PopForgetsEdges ==
    /\ at = "loop" /\ stack # <<>>
    /\ LET current == stack[Len(stack)] IN
         /\ stack' = SubSeq(stack, 1, Len(stack) - 1)
         /\ seen' = seen \cup Successors(current) \cup {current}
         /\ ahead' = IF current \in seen THEN {} ELSE Successors(current)
         /\ at' = IF current \in seen THEN "loop" ELSE "edges"
    /\ UNCHANGED args

\* Mutant: `continue` before the top of the stack is removed.
PopKeepsTop ==
    /\ at = "loop" /\ stack # <<>>
    /\ LET current == stack[Len(stack)] IN
         /\ stack' = IF current \in seen THEN stack
                     ELSE SubSeq(stack, 1, Len(stack) - 1)
         /\ seen' = seen \cup {current}
         /\ ahead' = IF current \in seen THEN {} ELSE Successors(current)
         /\ at' = IF current \in seen THEN "loop" ELSE "edges"
    /\ UNCHANGED args

Pop ==
    /\ at = "loop" /\ stack # <<>>
    /\ LET current == stack[Len(stack)] IN
         /\ stack' = SubSeq(stack, 1, Len(stack) - 1)
         /\ seen' = seen \cup {current}
         /\ ahead' = IF current \in seen THEN {} ELSE Successors(current)
         /\ at' = IF current \in seen THEN "loop" ELSE "edges"
    /\ UNCHANGED args

Follow(next) ==
    /\ at = "edges" /\ next \in ahead
    /\ ahead' = ahead \ {next}
    /\ IF next = target
       THEN at' = "yes" /\ UNCHANGED stack
       ELSE at' = at /\ stack' = Append(stack, next)
    /\ UNCHANGED <<args, seen>>

EdgesDone ==
    /\ at = "edges" /\ ahead = {}
    /\ at' = "loop"
    /\ UNCHANGED <<args, stack, seen, ahead>>

Exhausted ==
    /\ at = "loop" /\ stack = <<>>
    /\ at' = "no"
    /\ UNCHANGED <<args, stack, seen, ahead>>

Returned == at \in {"yes", "no"} /\ UNCHANGED walkVars

WalkNext ==
    \/ Pop \/ EdgesDone \/ Exhausted \/ Returned
    \/ \E next \in V : Follow(next)

WalkSpec == WalkInit /\ [][WalkNext]_walkVars

\* The walk answers yes exactly when the target is reachable from the start.
WalkIsReachability ==
    /\ at = "yes" => Reaches(rel, V, start, target)
    /\ at = "no" => ~Reaches(rel, V, start, target)

\* The walk ends on every relation, cyclic ones included.
WalkTerminates == <>(at \in {"yes", "no"})
=============================================================================
