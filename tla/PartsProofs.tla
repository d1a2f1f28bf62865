----------------------------- MODULE PartsProofs -----------------------------
(***************************************************************************)
(* What is proved of the parts every journey shares, each on its own: the  *)
(* graph builder, the two searches it relies on, the deadline bound to an  *)
(* exchange on a connection, the diagnosis engine, and redaction.          *)
(***************************************************************************)
EXTENDS EvidenceGraph, GraphWalk, FindCycle, ExchangeDeadline, Convergence,
        Redaction, RankingProofs, SequenceTheorems

-----------------------------------------------------------------------------
(* The graph builder for any set of identifiers: the reachability test     *)
(* refuses exactly the edges that close a cycle, so both relations stay    *)
(* acyclic and Freeze never refuses what the builder accepted.             *)

\* An edge back to a node that is not reachable from it keeps a relation acyclic.
LEMMA UnreachableEdgeKeepsAcyclic ==
    ASSUME NEW N, NEW R, NEW c \in N, NEW p \in N,
           Acyclic(R, N), ~Reaches(R, N, p, c)
    PROVE  Acyclic(R \cup {<<c, p>>}, N)
<1> SUFFICES ASSUME NEW S \in SUBSET N, S # {},
                    \A x \in S : \E y \in S : <<x, y>> \in R \cup {<<c, p>>}
             PROVE  FALSE
  BY DEF Acyclic
<1>1. PICK T \in SUBSET N : p \in T /\ Closed(R, T) /\ c \notin T
  BY DEF Reaches
<1>2. \A x \in S \cap T : \E y \in S \cap T : <<x, y>> \in R
  <2> SUFFICES ASSUME NEW x \in S \cap T
               PROVE  \E y \in S \cap T : <<x, y>> \in R
    OBVIOUS
  <2>1. PICK y \in S : <<x, y>> \in R \cup {<<c, p>>}
    OBVIOUS
  <2>2. <<x, y>> \in R
    BY <1>1, <2>1
  <2>3. y \in T
    BY <1>1, <2>2 DEF Closed
  <2> QED BY <2>2, <2>3
<1>3. S \cap T = {}
  <2>1. S \cap T \in SUBSET N
    OBVIOUS
  <2> QED BY <1>2, <2>1 DEF Acyclic
<1>4. p \notin S
  BY <1>1, <1>3
<1>5. \A x \in S : \E y \in S : <<x, y>> \in R
  BY <1>4
<1> QED BY <1>5 DEF Acyclic

\* An edge back to a reachable node closes a cycle: the nodes that reach the
\* edge's origin can all be left inside their own set.
LEMMA ReachableEdgeClosesCycle ==
    ASSUME NEW N, NEW R, NEW c \in N, NEW p \in N,
           R \subseteq N \X N, Reaches(R, N, p, c)
    PROVE  ~Acyclic(R \cup {<<c, p>>}, N)
<1> DEFINE U == {x \in N : ~Reaches(R, N, x, c)}
           S == N \ U
<1>1. c \in S /\ p \in S
  BY DEF Reaches
<1>2. ASSUME NEW x \in S, x # c
      PROVE  \E y \in S : <<x, y>> \in R
  <2> SUFFICES ASSUME \A y \in S : <<x, y>> \notin R
               PROVE  FALSE
    OBVIOUS
  <2> DEFINE T == U \cup {x}
  <2>1. Closed(R, U)
    <3> SUFFICES ASSUME NEW e \in R, e[1] \in U PROVE e[2] \in U
      BY DEF Closed
    <3>1. PICK W \in SUBSET N : e[1] \in W /\ Closed(R, W) /\ c \notin W
      BY DEF Reaches
    <3>2. e[2] \in W
      BY <3>1 DEF Closed
    <3> QED BY <3>1, <3>2 DEF Reaches
  <2>2. Closed(R, T)
    <3> SUFFICES ASSUME NEW e \in R, e[1] \in T PROVE e[2] \in T
      BY DEF Closed
    <3>1. e = <<e[1], e[2]>> /\ e[2] \in N
      OBVIOUS
    <3> QED BY <2>1, <3>1 DEF Closed
  <2>3. c \notin T /\ x \in T /\ T \in SUBSET N
    BY <1>1, <1>2
  <2>4. ~Reaches(R, N, x, c)
    BY <2>2, <2>3 DEF Reaches
  <2> QED BY <2>4
<1>3. \A x \in S : \E y \in S : <<x, y>> \in R \cup {<<c, p>>}
  BY <1>1, <1>2
<1> QED BY <1>1, <1>3 DEF Acyclic

\* An acyclic relation has no self edge.
LEMMA AcyclicHasNoSelfEdge ==
    ASSUME NEW N, NEW R, Acyclic(R, N), NEW x \in N
    PROVE  <<x, x>> \notin R
<1>1. {x} \in SUBSET N /\ {x} # {}
  OBVIOUS
<1> QED BY <1>1 DEF Acyclic

GraphInv ==
    /\ GraphTypeOK
    /\ Acyclic(parents, IDs) /\ Acyclic(blockedBy, IDs)
    /\ \A e \in blockedBy : node[e[1]] = "SKIPPED"
    /\ FreezeNeverRefuses
    /\ CycleRefusalIsExact

LEMMA InitHasInv == Init => GraphInv
<1> SUFFICES ASSUME Init PROVE GraphInv
  OBVIOUS
<1>1. GraphTypeOK /\ FreezeNeverRefuses /\ CycleRefusalIsExact
  BY DEF Init, GraphTypeOK, FreezeNeverRefuses, CycleRefusalIsExact, Verdicts
<1>2. Acyclic(parents, IDs) /\ Acyclic(blockedBy, IDs)
  BY DEF Init, Acyclic
<1> QED BY <1>1, <1>2 DEF GraphInv, Init

\* A refused call leaves a builder that satisfies the invariant as it was.
LEMMA RefusalKeepsInv ==
    ASSUME GraphInv, NEW v \in Verdicts \ {"invalid"},
           NEW e \in SUBSET (IDs \X IDs), Refuse(v, e),
           v = "parent cycle" => ~Acyclic(parents \cup e, IDs),
           v = "blocker cycle" => ~Acyclic(blockedBy \cup e, IDs)
    PROVE  GraphInv'
<1>1. UNCHANGED <<node, parents, blockedBy>> /\ reply' = [verdict |-> v, edge |-> e]
  BY DEF Refuse
<1>2. GraphTypeOK'
  BY <1>1 DEF GraphInv, GraphTypeOK, Present
<1>3. FreezeNeverRefuses' /\ CycleRefusalIsExact'
  BY <1>1 DEF FreezeNeverRefuses, CycleRefusalIsExact
<1> QED BY <1>1, <1>2, <1>3 DEF GraphInv

\* Freeze accepts every builder that satisfies the invariant.
LEMMA FreezeAccepts ==
    ASSUME GraphInv
    PROVE  freezeRelation(parents) /\ freezeRelation(blockedBy)
<1>1. Present \subseteq IDs
  BY DEF Present
<1>2. ASSUME NEW R, R \subseteq Present \X Present, Acyclic(R, IDs)
      PROVE  freezeRelation(R)
  <2> SUFFICES ASSUME NEW e \in R PROVE e[1] # e[2]
    BY <1>2 DEF freezeRelation
  <2>1. e = <<e[1], e[2]>> /\ e[1] \in IDs
    BY <1>1, <1>2
  <2> QED BY <1>2, <2>1, AcyclicHasNoSelfEdge
<1> QED BY <1>2 DEF GraphInv, GraphTypeOK

LEMMA NextHasInv == GraphInv /\ [Next]_vars => GraphInv'
<1> SUFFICES ASSUME GraphInv, [Next]_vars PROVE GraphInv'
  OBVIOUS
<1>0. Present \subseteq IDs
  BY DEF Present
<1>1. ASSUME NEW i \in IDs, NEW s \in {"SKIPPED", "MEASURED"}, AddEvidence(i, s)
      PROVE  GraphInv'
  <2>1. CASE Refuse("duplicate", {})
    BY <2>1, RefusalKeepsInv DEF Verdicts
  <2>2. CASE /\ node[i] = "absent" /\ node' = [node EXCEPT ![i] = s]
             /\ Done /\ UNCHANGED <<parents, blockedBy>>
    <3>1. node' \in [IDs -> {"absent", "SKIPPED", "MEASURED"}]
          /\ \A j \in IDs : j # i => node'[j] = node[j]
      BY <2>2 DEF GraphInv, GraphTypeOK
    <3>2. Present \subseteq Present'
      BY <2>2, <3>1 DEF Present
    <3>3. GraphTypeOK'
      BY <2>2, <3>1, <3>2 DEF GraphInv, GraphTypeOK, Done, Verdicts
    <3>4. \A e \in blockedBy : node'[e[1]] = "SKIPPED"
      <4> SUFFICES ASSUME NEW e \in blockedBy PROVE node'[e[1]] = "SKIPPED"
        OBVIOUS
      <4>1. e[1] \in IDs /\ node[e[1]] = "SKIPPED"
        BY <1>0 DEF GraphInv, GraphTypeOK
      <4> QED BY <2>2, <3>1, <4>1
    <3>5. FreezeNeverRefuses' /\ CycleRefusalIsExact'
      BY <2>2 DEF Done, FreezeNeverRefuses, CycleRefusalIsExact
    <3> QED BY <2>2, <3>3, <3>4, <3>5 DEF GraphInv
  <2> QED BY <1>1, <2>1, <2>2 DEF AddEvidence
<1>2. ASSUME NEW c \in IDs, NEW p \in IDs, AddParent(c, p)
      PROVE  GraphInv'
  <2>1. CASE Refuse("absent", {}) \/ Refuse("self", {})
    BY <2>1, RefusalKeepsInv DEF Verdicts
  <2>2. CASE reachable(parents, p, c) /\ Refuse("parent cycle", {<<c, p>>})
    <3>1. parents \subseteq IDs \X IDs
      BY <1>0 DEF GraphInv, GraphTypeOK
    <3>2. ~Acyclic(parents \cup {<<c, p>>}, IDs)
      BY <2>2, <3>1, ReachableEdgeClosesCycle DEF reachable
    <3>3. {<<c, p>>} \in SUBSET (IDs \X IDs)
      OBVIOUS
    <3> QED BY <2>2, <3>2, <3>3, RefusalKeepsInv DEF Verdicts
  <2>3. CASE /\ {c, p} \subseteq Present /\ ~reachable(parents, p, c)
             /\ parents' = parents \cup {<<c, p>>}
             /\ Done /\ UNCHANGED <<node, blockedBy>>
    <3>1. Acyclic(parents', IDs)
      BY <2>3, UnreachableEdgeKeepsAcyclic DEF GraphInv, reachable
    <3>2. GraphTypeOK'
      <4>1. Present' = Present /\ <<c, p>> \in Present \X Present
        BY <2>3 DEF Present
      <4>2. parents' \subseteq Present \X Present
        BY <2>3, <4>1 DEF GraphInv, GraphTypeOK
      <4>3. reply' \in [verdict : Verdicts, edge : SUBSET (IDs \X IDs)]
        BY <2>3 DEF Done, Verdicts
      <4> QED BY <2>3, <4>1, <4>2, <4>3 DEF GraphInv, GraphTypeOK
    <3>3. FreezeNeverRefuses' /\ CycleRefusalIsExact'
      BY <2>3 DEF Done, FreezeNeverRefuses, CycleRefusalIsExact
    <3> QED BY <2>3, <3>1, <3>2, <3>3 DEF GraphInv
  <2> QED BY <1>2, <2>1, <2>2, <2>3 DEF AddParent
<1>3. ASSUME NEW s \in IDs, NEW b \in IDs, AddBlockedBy(s, b)
      PROVE  GraphInv'
  <2>1. CASE Refuse("absent", {}) \/ Refuse("self", {}) \/ Refuse("not skipped", {})
    BY <2>1, RefusalKeepsInv DEF Verdicts
  <2>2. CASE reachable(blockedBy, b, s) /\ Refuse("blocker cycle", {<<s, b>>})
    <3>1. blockedBy \subseteq IDs \X IDs
      BY <1>0 DEF GraphInv, GraphTypeOK
    <3>2. ~Acyclic(blockedBy \cup {<<s, b>>}, IDs)
      BY <2>2, <3>1, ReachableEdgeClosesCycle DEF reachable
    <3>3. {<<s, b>>} \in SUBSET (IDs \X IDs)
      OBVIOUS
    <3> QED BY <2>2, <3>2, <3>3, RefusalKeepsInv DEF Verdicts
  <2>3. CASE /\ {s, b} \subseteq Present /\ node[s] = "SKIPPED"
             /\ ~reachable(blockedBy, b, s)
             /\ blockedBy' = blockedBy \cup {<<s, b>>}
             /\ Done /\ UNCHANGED <<node, parents>>
    <3>1. Acyclic(blockedBy', IDs)
      BY <2>3, UnreachableEdgeKeepsAcyclic DEF GraphInv, reachable
    <3>2. GraphTypeOK'
      <4>1. Present' = Present /\ <<s, b>> \in Present \X Present
        BY <2>3 DEF Present
      <4>2. blockedBy' \subseteq Present \X Present
        BY <2>3, <4>1 DEF GraphInv, GraphTypeOK
      <4>3. reply' \in [verdict : Verdicts, edge : SUBSET (IDs \X IDs)]
        BY <2>3 DEF Done, Verdicts
      <4> QED BY <2>3, <4>1, <4>2, <4>3 DEF GraphInv, GraphTypeOK
    <3>3. FreezeNeverRefuses' /\ CycleRefusalIsExact'
      BY <2>3 DEF Done, FreezeNeverRefuses, CycleRefusalIsExact
    <3>4. \A e \in blockedBy' : node'[e[1]] = "SKIPPED"
      BY <2>3 DEF GraphInv
    <3> QED BY <2>3, <3>1, <3>2, <3>3, <3>4 DEF GraphInv
  <2> QED BY <1>3, <2>1, <2>2, <2>3 DEF AddBlockedBy
<1>4. CASE Freeze
  <2>1. reply' = [verdict |-> "ok", edge |-> {}] /\ UNCHANGED <<node, parents, blockedBy>>
    BY <1>4, FreezeAccepts DEF Freeze, GraphInv
  <2>2. GraphTypeOK'
    BY <2>1 DEF GraphInv, GraphTypeOK, Present, Verdicts
  <2>3. FreezeNeverRefuses' /\ CycleRefusalIsExact'
    BY <2>1 DEF FreezeNeverRefuses, CycleRefusalIsExact
  <2> QED BY <2>1, <2>2, <2>3 DEF GraphInv
<1>5. CASE UNCHANGED vars
  <2>1. GraphTypeOK' /\ FreezeNeverRefuses' /\ CycleRefusalIsExact'
    BY <1>5 DEF vars, GraphInv, GraphTypeOK, Present, FreezeNeverRefuses,
                CycleRefusalIsExact
  <2> QED BY <1>5, <2>1 DEF vars, GraphInv
<1> QED BY <1>1, <1>2, <1>3, <1>4, <1>5 DEF Next

\* The builder's invariant: both relations acyclic, closed under presence, and
\* only skipped evidence blocked, after any sequence of calls.
THEOREM GraphInvariant == Spec => []GraphInv
  BY InitHasInv, NextHasInv, PTL DEF Spec

\* Freeze's re-validation never refuses what the incremental checks accepted,
\* for any set of identifiers and any sequence of calls.
THEOREM FreezeAlwaysAccepts == Spec => []FreezeNeverRefuses
<1>1. GraphInv => FreezeNeverRefuses
  BY DEF GraphInv
<1> QED BY <1>1, GraphInvariant, PTL

\* An edge is refused as a cycle only when it would have closed one.
THEOREM RefusedEdgeClosesCycle == Spec => []CycleRefusalIsExact
<1>1. GraphInv => CycleRefusalIsExact
  BY DEF GraphInv
<1> QED BY <1>1, GraphInvariant, PTL

-----------------------------------------------------------------------------
(* The stack walk decides reachability on every relation. Everything it    *)
(* has met is reachable, and what it has met is closed up to the stack and *)
(* the successors still to be looked at; when both are empty it is closed. *)

Met == seen \cup OnStack \cup ahead

WalkInv ==
    /\ rel \subseteq V \X V /\ start \in V /\ target \in V
    /\ stack \in Seq(V) /\ seen \subseteq V /\ ahead \subseteq V
    /\ at \in {"loop", "edges", "yes", "no"}
    /\ \A x \in Met : Reaches(rel, V, start, x)
    /\ start \in seen \cup OnStack
    /\ at # "yes" => \A e \in rel : e[1] \in seen => e[2] \in Met
    /\ at # "yes" => target \notin seen \cup OnStack
    /\ at = "loop" => ahead = {}
    /\ at = "no" => ahead = {} /\ stack = <<>>
    /\ at = "yes" => Reaches(rel, V, start, target)

\* The nodes on a stack before and after a pop and a push.
LEMMA StackLemma ==
    ASSUME NEW s \in Seq(V)
    PROVE  /\ s # <<>> =>
                /\ SubSeq(s, 1, Len(s) - 1) \in Seq(V)
                /\ s[Len(s)] \in V
                /\ {s[i] : i \in 1..Len(s)} =
                     {SubSeq(s, 1, Len(s) - 1)[i] :
                        i \in 1..Len(SubSeq(s, 1, Len(s) - 1))} \cup {s[Len(s)]}
           /\ \A x \in V :
                /\ Append(s, x) \in Seq(V)
                /\ {Append(s, x)[i] : i \in 1..Len(Append(s, x))} =
                     {s[i] : i \in 1..Len(s)} \cup {x}
<1>1. ASSUME s # <<>>
      PROVE  /\ SubSeq(s, 1, Len(s) - 1) \in Seq(V)
             /\ s[Len(s)] \in V
             /\ Len(SubSeq(s, 1, Len(s) - 1)) = Len(s) - 1
             /\ \A i \in 1..(Len(s) - 1) : SubSeq(s, 1, Len(s) - 1)[i] = s[i]
             /\ Len(s) \in Nat \ {0}
  <2>1. Len(s) \in Nat \ {0}
    BY <1>1, EmptySeq
  <2>2. s[Len(s)] \in V
    BY <2>1
  <2>3. /\ SubSeq(s, 1, Len(s) - 1) \in Seq(V)
        /\ Len(SubSeq(s, 1, Len(s) - 1)) = Len(s) - 1
        /\ \A i \in 1..(Len(s) - 1) : SubSeq(s, 1, Len(s) - 1)[i] = s[i]
    <3>1. Len(s) - 1 \in Int /\ \A i \in 1..(Len(s) - 1) : s[i] \in V
      BY <2>1
    <3>2. /\ SubSeq(s, 1, Len(s) - 1) \in Seq(V)
          /\ Len(SubSeq(s, 1, Len(s) - 1)) =
               IF 1 <= Len(s) - 1 THEN Len(s) - 1 - 1 + 1 ELSE 0
          /\ \A i \in 1..(Len(s) - 1 - 1 + 1) :
               SubSeq(s, 1, Len(s) - 1)[i] = s[1 + i - 1]
      BY <3>1, SubSeqProperties
    <3>3. /\ Len(s) - 1 - 1 + 1 = Len(s) - 1
          /\ (IF 1 <= Len(s) - 1 THEN Len(s) - 1 - 1 + 1 ELSE 0) = Len(s) - 1
          /\ \A i \in 1..(Len(s) - 1) : 1 + i - 1 = i
      <4> DEFINE n == Len(s)
      <4>1. n \in Nat \ {0}
        BY <2>1
      <4> HIDE DEF n
      <4>2. n - 1 - 1 + 1 = n - 1
        BY <4>1
      <4>3. (IF 1 <= n - 1 THEN n - 1 - 1 + 1 ELSE 0) = n - 1
        BY <4>1
      <4>4. \A i \in 1..(n - 1) : 1 + i - 1 = i
        BY <4>1
      <4> QED BY <4>2, <4>3, <4>4 DEF n
    <3>4. Len(SubSeq(s, 1, Len(s) - 1)) = Len(s) - 1
      BY ONLY <3>2, <3>3
    <3>5. \A i \in 1..(Len(s) - 1) : SubSeq(s, 1, Len(s) - 1)[i] = s[i]
      BY ONLY <3>2, <3>3, Zenon
    <3> QED BY <3>2, <3>4, <3>5
  <2> QED BY <2>1, <2>2, <2>3
<1>2. ASSUME s # <<>>
      PROVE  {s[i] : i \in 1..Len(s)} =
               {SubSeq(s, 1, Len(s) - 1)[i] :
                  i \in 1..Len(SubSeq(s, 1, Len(s) - 1))} \cup {s[Len(s)]}
  <2>1. \A i \in 1..Len(s) : i \in 1..(Len(s) - 1) \/ i = Len(s)
    BY <1>1, <1>2
  <2>2. \A i \in 1..(Len(s) - 1) : i \in 1..Len(s)
    BY <1>1, <1>2
  <2>3. Len(s) \in 1..Len(s)
    BY <1>1, <1>2
  <2> QED BY <1>1, <1>2, <2>1, <2>2, <2>3
<1>3. ASSUME NEW x \in V
      PROVE  /\ Append(s, x) \in Seq(V)
             /\ {Append(s, x)[i] : i \in 1..Len(Append(s, x))} =
                  {s[i] : i \in 1..Len(s)} \cup {x}
  <2>1. /\ Append(s, x) \in Seq(V) /\ Len(Append(s, x)) = Len(s) + 1
        /\ Append(s, x)[Len(s) + 1] = x
        /\ \A i \in 1..Len(s) : Append(s, x)[i] = s[i]
        /\ Len(s) \in Nat
    OBVIOUS
  <2>2. \A i \in 1..(Len(s) + 1) : i \in 1..Len(s) \/ i = Len(s) + 1
    BY <2>1
  <2>3. \A i \in 1..Len(s) : i \in 1..(Len(s) + 1)
    BY <2>1
  <2>4. Len(s) + 1 \in 1..(Len(s) + 1)
    BY <2>1
  <2> QED BY <2>1, <2>2, <2>3, <2>4
<1> QED BY <1>1, <1>2, <1>3

\* A successor of a reachable node is reachable.
LEMMA SuccessorReached ==
    ASSUME rel \subseteq V \X V, NEW x \in V, Reaches(rel, V, start, x),
           NEW y \in Successors(x)
    PROVE  y \in V /\ Reaches(rel, V, start, y)
<1>1. PICK e \in rel : e[1] = x /\ e[2] = y
  BY DEF Successors
<1> QED BY <1>1 DEF Reaches, Closed

LEMMA WalkInitInv == WalkInit => WalkInv
<1> SUFFICES ASSUME WalkInit PROVE WalkInv
  OBVIOUS
<1>1. stack = <<start>> /\ start \in V
  BY DEF WalkInit
<1>2. OnStack = {start} /\ stack \in Seq(V)
  BY <1>1 DEF OnStack
<1>3. Reaches(rel, V, start, start)
  BY DEF Reaches
<1> QED BY <1>2, <1>3 DEF WalkInit, WalkInv, Met

LEMMA WalkNextInv == WalkInv /\ [WalkNext]_walkVars => WalkInv'
<1> SUFFICES ASSUME WalkInv, [WalkNext]_walkVars PROVE WalkInv'
  OBVIOUS
<1> USE DEF args
<1>1. CASE Pop
  <2> DEFINE top == stack[Len(stack)]
  <2>1. /\ top \in V /\ stack' \in Seq(V)
        /\ OnStack = OnStack' \cup {top}
        /\ UNCHANGED <<rel, start, target>> /\ seen' = seen \cup {top}
        /\ at = "loop" /\ ahead = {}
    BY <1>1, StackLemma DEF Pop, WalkInv, OnStack
  <2>2. CASE top \in seen
    <3>1. seen' = seen /\ at' = "loop" /\ ahead' = {}
      BY <1>1, <2>1, <2>2 DEF Pop
    <3>2. Met' = Met /\ seen' \cup OnStack' = seen \cup OnStack
      BY <2>1, <2>2, <3>1 DEF Met
    <3> QED BY <2>1, <3>1, <3>2 DEF WalkInv
  <2>3. CASE top \notin seen
    <3>1. at' = "edges" /\ ahead' = Successors(top)
      BY <1>1, <2>3 DEF Pop
    <3>2. top \in Met /\ Reaches(rel, V, start, top)
      BY <2>1 DEF WalkInv, Met
    <3>3. \A y \in Successors(top) : y \in V /\ Reaches(rel, V, start, y)
      BY <2>1, <3>2, SuccessorReached DEF WalkInv
    <3>4. seen' \cup OnStack' = seen \cup OnStack
          /\ Met' = Met \cup Successors(top)
      BY <2>1, <3>1 DEF Met
    <3>5. \A e \in rel : e[1] \in seen' => e[2] \in Met'
      BY <2>1, <3>4 DEF WalkInv, Successors
    <3>6. \A x \in Met' : Reaches(rel, V, start, x)
      BY <3>3, <3>4 DEF WalkInv
    <3> QED BY <2>1, <3>1, <3>3, <3>4, <3>5, <3>6 DEF WalkInv
  <2> QED BY <2>2, <2>3
<1>2. ASSUME NEW next \in V, Follow(next) PROVE WalkInv'
  <2>1. /\ at = "edges" /\ next \in ahead /\ ahead' = ahead \ {next}
        /\ UNCHANGED <<rel, start, target, seen>>
        /\ Reaches(rel, V, start, next)
    BY <1>2 DEF Follow, WalkInv, Met
  <2>2. CASE next = target
    <3>1. at' = "yes" /\ stack' = stack /\ OnStack' = OnStack
      BY <1>2, <2>2 DEF Follow, OnStack
    <3>2. Met = Met' \cup {next}
      BY <2>1, <3>1 DEF Met
    <3> QED BY <2>1, <2>2, <3>1, <3>2 DEF WalkInv
  <2>3. CASE next # target
    <3>1. /\ at' = "edges" /\ stack' = Append(stack, next)
          /\ stack' \in Seq(V) /\ OnStack' = OnStack \cup {next}
      BY <1>2, <2>1, <2>3, StackLemma DEF Follow, OnStack, WalkInv
    <3>2. Met' = Met
      BY <2>1, <3>1 DEF Met
    <3> QED BY <2>1, <2>3, <3>1, <3>2 DEF WalkInv
  <2> QED BY <2>2, <2>3
<1>3. CASE EdgesDone \/ Exhausted \/ UNCHANGED walkVars \/ Returned
  <2>1. /\ UNCHANGED <<rel, start, target, stack, seen, ahead>>
        /\ OnStack' = OnStack /\ Met' = Met
    BY <1>3 DEF EdgesDone, Exhausted, Returned, walkVars, OnStack, Met
  <2> QED BY <1>3, <2>1 DEF EdgesDone, Exhausted, Returned, walkVars, WalkInv
<1> QED BY <1>1, <1>2, <1>3 DEF WalkNext

\* The walk of any relation keeps its invariant.
THEOREM WalkInvariant == WalkSpec => []WalkInv
  BY WalkInitInv, WalkNextInv, PTL DEF WalkSpec

\* reachable answers exactly whether the target is reachable, for every
\* relation, every pair of nodes and every order of map iteration.
THEOREM WalkDecidesReachability == WalkSpec => []WalkIsReachability
<1>1. WalkInv => WalkIsReachability
  <2> SUFFICES ASSUME WalkInv, at = "no" PROVE ~Reaches(rel, V, start, target)
    BY DEF WalkInv, WalkIsReachability
  <2>1. OnStack = {} /\ ahead = {}
    BY DEF WalkInv, OnStack
  <2>2. start \in seen /\ target \notin seen /\ Closed(rel, seen)
    BY <2>1 DEF WalkInv, Met, Closed
  <2> QED BY <2>2 DEF WalkInv, Reaches
<1> QED BY <1>1, WalkInvariant, PTL

-----------------------------------------------------------------------------
(* The three-colour search is exact on every relation. The open calls are  *)
(* a path of the relation, a finished node has only finished successors,   *)
(* and no set of finished nodes can be left at none of them: that a node   *)
(* is finished after all its successors is what keeps cycles out.          *)

Finished == {x \in Vertex : mark[x] = "finished"}

SearchTypes ==
    /\ relation \subseteq Vertex \X Vertex /\ starts \subseteq Vertex
    /\ mark \in [Vertex -> {"unvisited", "onPath", "finished"}]
    /\ path \in Seq(Vertex)
    /\ todo \in [Vertex -> SUBSET Vertex]
    /\ verdict \in {"searching", "cycle", "none"}

OpenCalls ==
    /\ \A x \in Vertex : mark[x] = "onPath" <=> \E i \in 1..Len(path) : path[i] = x
    /\ \A i, j \in 1..Len(path) : path[i] = path[j] => i = j
    /\ \A i \in 1..Len(path) :
         i < Len(path) => <<path[i], path[i + 1]>> \in relation

TodoIsLeft ==
    /\ \A x \in Vertex : \A y \in todo[x] : <<x, y>> \in relation
    /\ verdict = "searching" =>
         \A i \in 1..Len(path) : \A y \in Vertex : <<path[i], y>> \in relation =>
           \/ y \in todo[path[i]]
           \/ mark[y] = "finished"
           \/ i < Len(path) /\ y = path[i + 1]

FinishedIsClosed ==
    \A x, y \in Vertex : <<x, y>> \in relation /\ x \in Finished => y \in Finished

FinishedIsAcyclic ==
    \A S \in SUBSET Finished : S # {} => \E x \in S : \A y \in S : <<x, y>> \notin relation

EveryOriginStarted ==
    \A x, y \in Vertex : <<x, y>> \in relation => x \in starts \/ mark[x] # "unvisited"

SearchInv ==
    /\ SearchTypes /\ OpenCalls /\ TodoIsLeft
    /\ FinishedIsClosed /\ FinishedIsAcyclic /\ EveryOriginStarted
    /\ SearchIsExact

LEMMA SearchInitInv == SearchInit => SearchInv
<1> SUFFICES ASSUME SearchInit PROVE SearchInv
  OBVIOUS
<1>1. relation \subseteq Vertex \X Vertex /\ \A e \in relation : e[1] \in Vertex /\ e[2] \in Vertex
  BY DEF SearchInit
<1>2. SearchTypes
  BY <1>1 DEF SearchInit, SearchTypes
<1>3. path = <<>> /\ Len(path) = 0
  BY DEF SearchInit
<1>4. OpenCalls /\ TodoIsLeft
  BY <1>3 DEF SearchInit, OpenCalls, TodoIsLeft
<1>5. Finished = {}
  BY DEF SearchInit, Finished
<1>6. FinishedIsClosed /\ FinishedIsAcyclic
  BY <1>5 DEF FinishedIsClosed, FinishedIsAcyclic
<1>7. EveryOriginStarted
  BY <1>1 DEF SearchInit, EveryOriginStarted
<1> QED BY <1>2, <1>4, <1>6, <1>7 DEF SearchInv, SearchIsExact, SearchInit

\* The nodes a pushed call and a popped call leave on the path.
LEMMA PathPush ==
    ASSUME NEW s \in Seq(Vertex), NEW x \in Vertex
    PROVE  /\ Append(s, x) \in Seq(Vertex)
           /\ Len(s) \in Nat /\ Len(Append(s, x)) = Len(s) + 1
           /\ Append(s, x)[Len(s) + 1] = x
           /\ \A i \in 1..Len(s) : Append(s, x)[i] = s[i]
  OBVIOUS

LEMMA PathPop ==
    ASSUME NEW s \in Seq(Vertex), s # <<>>
    PROVE  \E n \in Nat :
             /\ Len(s) = n + 1 /\ Len(s) - 1 = n
             /\ s[n + 1] \in Vertex
             /\ SubSeq(s, 1, n) \in Seq(Vertex)
             /\ Len(SubSeq(s, 1, n)) = n
             /\ \A i \in 1..n : SubSeq(s, 1, n)[i] = s[i]
<1>1. Len(s) \in Nat \ {0}
  BY EmptySeq
<1>2. PICK n \in Nat : Len(s) = n + 1 /\ Len(s) - 1 = n
  <2>1. Len(s) - 1 \in Nat /\ Len(s) = (Len(s) - 1) + 1
    BY <1>1
  <2> QED BY <2>1
<1>3. s[n + 1] \in Vertex /\ \A i \in 1..n : s[i] \in Vertex
  BY <1>2
<1>4. /\ SubSeq(s, 1, n) \in Seq(Vertex)
      /\ Len(SubSeq(s, 1, n)) = IF 1 <= n THEN n - 1 + 1 ELSE 0
      /\ \A i \in 1..(n - 1 + 1) : SubSeq(s, 1, n)[i] = s[1 + i - 1]
  BY <1>3, SubSeqProperties
<1>5. /\ n - 1 + 1 = n
      /\ (IF 1 <= n THEN n - 1 + 1 ELSE 0) = n
      /\ \A i \in 1..n : 1 + i - 1 = i
  OBVIOUS
<1>6. Len(SubSeq(s, 1, n)) = n
  BY ONLY <1>4, <1>5
<1>7. \A i \in 1..n : SubSeq(s, 1, n)[i] = s[i]
  BY ONLY <1>4, <1>5, Zenon
<1> QED BY <1>2, <1>3, <1>4, <1>6, <1>7

\* Opening a call for an unvisited node, from the top or from the last call.
LEMMA OpenKeepsInv ==
    ASSUME SearchInv, verdict = "searching", NEW id \in Vertex,
           mark[id] = "unvisited", Open(id),
           path # <<>> => /\ <<path[Len(path)], id>> \in relation
                          /\ todo' = [todo EXCEPT ![path[Len(path)]] = @ \ {id},
                                                  ![id] = TargetsOf(id)],
           path = <<>> => todo' = [todo EXCEPT ![id] = TargetsOf(id)],
           UNCHANGED <<relation, verdict>>, starts \ {id} \subseteq starts',
           starts' \subseteq starts
    PROVE  SearchInv'
<1>1. /\ mark' = [mark EXCEPT ![id] = "onPath"] /\ path' = Append(path, id)
      /\ mark'[id] = "onPath" /\ \A x \in Vertex : x # id => mark'[x] = mark[x]
  BY DEF Open, SearchInv, SearchTypes
<1>2. /\ path' \in Seq(Vertex)
      /\ Len(path) \in Nat /\ Len(path') = Len(path) + 1
      /\ path'[Len(path) + 1] = id
      /\ \A i \in 1..Len(path) : path'[i] = path[i] /\ path[i] \in Vertex
  BY <1>1, PathPush DEF SearchInv, SearchTypes
<1>3. TargetsOf(id) \subseteq Vertex /\ \A y \in Vertex : y \in TargetsOf(id) <=> <<id, y>> \in relation
  BY DEF TargetsOf, SearchInv, SearchTypes
<1>4. \A i \in 1..Len(path) : path[i] # id
  BY DEF SearchInv, OpenCalls
<1>5. path # <<>> => Len(path) \in 1..Len(path) /\ path[Len(path)] \in Vertex
                     /\ path[Len(path)] # id
  BY <1>2, <1>4, EmptySeq DEF SearchInv, SearchTypes
<1>6. /\ todo' \in [Vertex -> SUBSET Vertex] /\ todo'[id] = TargetsOf(id)
      /\ \A x \in Vertex : x # id => todo'[x] \subseteq todo[x]
      /\ \A x \in Vertex : x # id /\ (path # <<>> => x # path[Len(path)]) =>
                        todo'[x] = todo[x]
      /\ path # <<>> => todo'[path[Len(path)]] = todo[path[Len(path)]] \ {id}
  BY <1>3, <1>5 DEF SearchInv, SearchTypes
<1>7. SearchTypes'
  BY <1>1, <1>2, <1>6 DEF SearchInv, SearchTypes
<1>8. \A i \in 1..Len(path') : i \in 1..Len(path) \/ i = Len(path) + 1
  BY <1>2
<1>9. OpenCalls'
  <2>1. ASSUME NEW x \in Vertex
        PROVE  mark'[x] = "onPath" <=> \E i \in 1..Len(path') : path'[i] = x
    <3>1. CASE x = id
      BY <1>1, <1>2, <3>1
    <3>2. CASE x # id
      <4>1. mark'[x] = "onPath" <=> \E i \in 1..Len(path) : path[i] = x
        BY <1>1, <3>2 DEF SearchInv, OpenCalls
      <4>2. \A i \in 1..Len(path) : i \in 1..Len(path')
        BY <1>2
      <4> QED BY <1>2, <1>8, <3>2, <4>1, <4>2
    <3> QED BY <3>1, <3>2
  <2>2. \A i, j \in 1..Len(path') : path'[i] = path'[j] => i = j
    BY <1>2, <1>4, <1>8 DEF SearchInv, OpenCalls
  <2>3. ASSUME NEW i \in 1..Len(path'), i < Len(path')
        PROVE  <<path'[i], path'[i + 1]>> \in relation'
    <3>1. i \in 1..Len(path)
      BY <1>2, <2>3
    <3>2. CASE i < Len(path)
      <4>1. i + 1 \in 1..Len(path)
        BY <1>2, <3>1, <3>2
      <4> QED BY <1>2, <3>1, <3>2, <4>1 DEF SearchInv, OpenCalls
    <3>3. CASE i = Len(path)
      <4>1. path # <<>> /\ path'[i] = path[Len(path)] /\ path'[i + 1] = id
        BY <1>2, <3>1, <3>3
      <4> QED BY <4>1
    <3> QED BY <1>2, <3>1, <3>2, <3>3
  <2> QED BY <2>1, <2>2, <2>3 DEF OpenCalls
<1>10. TodoIsLeft'
  <2>1. \A x \in Vertex : \A y \in todo'[x] : <<x, y>> \in relation
    BY <1>3, <1>6 DEF SearchInv, TodoIsLeft
  <2>2. ASSUME NEW i \in 1..Len(path'), NEW y \in Vertex, <<path'[i], y>> \in relation
        PROVE  \/ y \in todo'[path'[i]]
               \/ mark'[y] = "finished"
               \/ i < Len(path') /\ y = path'[i + 1]
    <3>1. CASE i = Len(path) + 1
      BY <1>2, <1>3, <1>6, <2>2, <3>1
    <3>2. CASE i \in 1..Len(path)
      <4>0. path'[i] = path[i] /\ path[i] \in Vertex /\ path[i] # id
        BY <1>2, <1>4, <3>2
      <4>1. /\ path'[i] = path[i] /\ path[i] \in Vertex /\ path[i] # id
            /\ <<path[i], y>> \in relation
            /\ path # <<>>
        <5>1. path # <<>>
          BY <3>2
        <5> QED BY <2>2, <4>0, <5>1
      <4>2. \/ y \in todo[path[i]]
            \/ mark[y] = "finished"
            \/ i < Len(path) /\ y = path[i + 1]
        BY <3>2, <4>1 DEF SearchInv, TodoIsLeft
      <4>3. CASE mark[y] = "finished"
        BY <1>1, <4>3
      <4>4. CASE i < Len(path) /\ y = path[i + 1]
        <5>1. i + 1 \in 1..Len(path) /\ i < Len(path')
          BY <1>2, <3>2, <4>4
        <5> QED BY <1>2, <4>4, <5>1
      <4>5. CASE y \in todo[path[i]]
        <5>1. CASE path[i] # path[Len(path)] \/ y # id
          BY <1>6, <4>1, <4>5, <5>1
        <5>2. CASE path[i] = path[Len(path)] /\ y = id
          <6>1. i = Len(path)
            BY <1>5, <3>2, <4>1, <5>2 DEF SearchInv, OpenCalls
          <6> QED BY <1>2, <5>2, <6>1
        <5> QED BY <5>1, <5>2
      <4> QED BY <4>2, <4>3, <4>4, <4>5
    <3> QED BY <1>8, <3>1, <3>2
  <2> QED BY <2>1, <2>2 DEF TodoIsLeft
<1>11. Finished' = Finished
  BY <1>1 DEF Finished
<1>12. FinishedIsClosed' /\ FinishedIsAcyclic'
  BY <1>11 DEF SearchInv, FinishedIsClosed, FinishedIsAcyclic
<1>13. EveryOriginStarted'
  BY <1>1 DEF SearchInv, EveryOriginStarted
<1> QED BY <1>7, <1>9, <1>10, <1>12, <1>13 DEF SearchInv, SearchIsExact

\* An edge from the last open call back to an open call is a cycle: the calls
\* from the one to the other can all be left inside their own set.
LEMMA BackEdgeIsCycle ==
    ASSUME SearchTypes, OpenCalls, path # <<>>, NEW to \in Vertex,
           mark[to] = "onPath", <<path[Len(path)], to>> \in relation
    PROVE  ~Acyclic(relation, Vertex)
<1>1. PICK m \in 1..Len(path) : path[m] = to
  BY DEF OpenCalls
<1>2. Len(path) \in Nat /\ \A i \in 1..Len(path) : path[i] \in Vertex
  BY DEF SearchTypes
<1> DEFINE S == {path[i] : i \in m..Len(path)}
<1>3. \A i \in m..Len(path) : i \in 1..Len(path)
  BY <1>1, <1>2
<1>4. S \in SUBSET Vertex /\ to \in S
  <2>1. m \in m..Len(path)
    BY <1>1, <1>2
  <2> QED BY <1>1, <1>2, <1>3, <2>1
<1>5. ASSUME NEW x \in S PROVE \E y \in S : <<x, y>> \in relation
  <2>1. PICK i \in m..Len(path) : x = path[i]
    OBVIOUS
  <2>2. CASE i = Len(path)
    BY <1>4, <2>1, <2>2
  <2>3. CASE i # Len(path)
    <3> DEFINE n == Len(path)
    <3>1. i \in m..n /\ m \in 1..n /\ n \in Nat /\ i # n
      BY <1>1, <1>2, <2>1, <2>3
    <3>2. i \in 1..n /\ i < n /\ i + 1 \in m..n
      <4> HIDE DEF n
      <4> QED BY <3>1
    <3>3. <<path[i], path[i + 1]>> \in relation
      BY <3>2 DEF OpenCalls
    <3>4. path[i + 1] \in S
      BY <3>2
    <3> QED BY <2>1, <3>3, <3>4
  <2> QED BY <2>2, <2>3
<1> QED BY <1>4, <1>5 DEF Acyclic

\* Visiting a node that is already marked: a cycle if it is on the path, and
\* nothing but one successor less if it is finished.
LEMMA MarkedVisitKeepsInv ==
    ASSUME SearchInv, verdict = "searching", path # <<>>, NEW to \in Vertex,
           to \in todo[path[Len(path)]], mark[to] # "unvisited",
           todo' = [todo EXCEPT ![path[Len(path)]] = @ \ {to}],
           verdict' = IF mark[to] = "onPath" THEN "cycle" ELSE verdict,
           UNCHANGED <<relation, starts, mark, path>>
    PROVE  SearchInv'
<1>1. path[Len(path)] \in Vertex /\ <<path[Len(path)], to>> \in relation
      /\ \A i \in 1..Len(path) : path[i] \in Vertex
  <2>1. Len(path) \in 1..Len(path)
    BY EmptySeq DEF SearchInv, SearchTypes
  <2> QED BY <2>1 DEF SearchInv, SearchTypes, TodoIsLeft
<1>2. /\ todo' \in [Vertex -> SUBSET Vertex]
      /\ \A x \in Vertex : todo'[x] \subseteq todo[x] /\ todo[x] \subseteq todo'[x] \cup {to}
  BY <1>1 DEF SearchInv, SearchTypes
<1>3. SearchTypes' /\ OpenCalls'
  BY <1>2 DEF SearchInv, SearchTypes, OpenCalls
<1>4. FinishedIsClosed' /\ FinishedIsAcyclic' /\ EveryOriginStarted'
  BY DEF SearchInv, FinishedIsClosed, FinishedIsAcyclic, EveryOriginStarted,
         Finished
<1>5. \A x \in Vertex : \A y \in todo'[x] : <<x, y>> \in relation
  BY <1>2 DEF SearchInv, TodoIsLeft
<1>6. CASE mark[to] = "onPath"
  <2>1. ~Acyclic(relation, Vertex)
    BY <1>1, <1>6, BackEdgeIsCycle DEF SearchInv
  <2> QED BY <1>3, <1>4, <1>5, <1>6, <2>1 DEF SearchInv, TodoIsLeft, SearchIsExact
<1>7. CASE mark[to] # "onPath"
  <2>1. mark[to] = "finished" /\ verdict' = verdict
    BY <1>7 DEF SearchInv, SearchTypes
  <2>2. TodoIsLeft'
    BY <1>1, <1>2, <1>5, <2>1 DEF SearchInv, TodoIsLeft
  <2> QED BY <1>3, <1>4, <2>1, <2>2 DEF SearchInv, SearchIsExact
<1> QED BY <1>6, <1>7

\* Leaving a call whose successors are all visited: they are all finished.
LEMMA CloseKeepsInv ==
    ASSUME SearchInv, Close
    PROVE  SearchInv'
<1>1. PICK n \in Nat :
        /\ Len(path) = n + 1 /\ Len(path) - 1 = n
        /\ path[n + 1] \in Vertex
        /\ SubSeq(path, 1, n) \in Seq(Vertex)
        /\ Len(SubSeq(path, 1, n)) = n
        /\ \A i \in 1..n : SubSeq(path, 1, n)[i] = path[i]
  BY PathPop DEF Close, SearchInv, SearchTypes
<1>2. PICK id \in Vertex : id = path[n + 1]
  BY <1>1
<1>3. /\ todo[id] = {} /\ mark' = [mark EXCEPT ![id] = "finished"]
      /\ path' \in Seq(Vertex) /\ Len(path') = n
      /\ \A i \in 1..n : path'[i] = path[i]
      /\ UNCHANGED <<relation, starts, todo, verdict>> /\ verdict = "searching"
  BY <1>1, <1>2 DEF Close
<1>4. mark'[id] = "finished" /\ \A x \in Vertex : x # id => mark'[x] = mark[x]
  BY <1>3 DEF SearchInv, SearchTypes
<1>5. /\ n + 1 \in 1..Len(path) /\ mark[id] = "onPath"
      /\ \A i \in 1..n : i \in 1..Len(path) /\ path[i] # id /\ path[i] \in Vertex
  BY <1>1, <1>2 DEF SearchInv, SearchTypes, OpenCalls
<1>6. \A y \in Vertex : <<id, y>> \in relation => mark[y] = "finished"
  BY <1>1, <1>2, <1>3, <1>5 DEF SearchInv, TodoIsLeft
<1>7. SearchTypes'
  BY <1>3 DEF SearchInv, SearchTypes
<1>8. OpenCalls'
  <2>1. ASSUME NEW x \in Vertex
        PROVE  mark'[x] = "onPath" <=> \E i \in 1..Len(path') : path'[i] = x
    <3>1. CASE x = id
      BY <1>3, <1>4, <1>5, <3>1
    <3>2. CASE x # id
      <4>1. mark'[x] = "onPath" <=> \E i \in 1..Len(path) : path[i] = x
        BY <1>4, <3>2 DEF SearchInv, OpenCalls
      <4>2. \A i \in 1..Len(path) : i \in 1..n \/ i = n + 1
        BY <1>1
      <4> QED BY <1>2, <1>3, <1>5, <3>2, <4>1, <4>2
    <3> QED BY <3>1, <3>2
  <2>2. ASSUME NEW i \in 1..Len(path'), NEW j \in 1..Len(path'), path'[i] = path'[j]
        PROVE  i = j
    <3>1. i \in 1..Len(path) /\ j \in 1..Len(path) /\ path[i] = path[j]
      BY <1>3, <1>5, <2>2
    <3>2. \A a, b \in 1..Len(path) : path[a] = path[b] => a = b
      BY DEF SearchInv, OpenCalls
    <3> QED BY <3>1, <3>2
  <2>3. ASSUME NEW i \in 1..Len(path'), i < Len(path')
        PROVE  <<path'[i], path'[i + 1]>> \in relation'
    <3>1. i \in 1..n /\ i + 1 \in 1..n /\ i < Len(path) /\ i \in 1..Len(path)
      BY <1>1, <1>3, <2>3
    <3> QED BY <1>3, <3>1 DEF SearchInv, OpenCalls
  <2> QED BY <2>1, <2>2, <2>3 DEF OpenCalls
<1>9. TodoIsLeft'
  <2>1. ASSUME NEW i \in 1..Len(path'), NEW y \in Vertex, <<path'[i], y>> \in relation
        PROVE  \/ y \in todo'[path'[i]]
               \/ mark'[y] = "finished"
               \/ i < Len(path') /\ y = path'[i + 1]
    <3>1. i \in 1..n /\ i \in 1..Len(path) /\ path'[i] = path[i]
      BY <1>1, <1>3, <2>1
    <3>2. \/ y \in todo[path[i]]
          \/ mark[y] = "finished"
          \/ i < Len(path) /\ y = path[i + 1]
      BY <1>3, <2>1, <3>1 DEF SearchInv, TodoIsLeft
    <3>3. CASE i < Len(path) /\ y = path[i + 1]
      <4>1. CASE i = n
        BY <1>2, <1>4, <3>3, <4>1
      <4>2. CASE i < n
        <5>1. i + 1 \in 1..n
          BY <1>1, <3>1, <4>2
        <5> QED BY <1>3, <3>3, <4>2, <5>1
      <4> QED BY <1>1, <3>1, <4>1, <4>2
    <3> QED BY <1>3, <1>4, <3>1, <3>2, <3>3
  <2> QED BY <1>3, <2>1 DEF TodoIsLeft, SearchInv
<1>10. Finished' = Finished \cup {id} /\ id \notin Finished
  BY <1>4, <1>5 DEF Finished
<1>11. FinishedIsClosed'
  BY <1>3, <1>6, <1>10 DEF SearchInv, FinishedIsClosed, Finished
<1>12. FinishedIsAcyclic'
  <2> SUFFICES ASSUME NEW S \in SUBSET (Finished \cup {id}), S # {},
                      \A x \in S : \E y \in S : <<x, y>> \in relation
               PROVE  FALSE
    BY <1>3, <1>10 DEF FinishedIsAcyclic
  <2> DEFINE T == S \ {id}
  <2>1. T \in SUBSET Finished /\ S \subseteq Vertex
    BY DEF Finished
  <2>2. \A x \in T : \E y \in T : <<x, y>> \in relation
    <3> SUFFICES ASSUME NEW x \in T PROVE \E y \in T : <<x, y>> \in relation
      OBVIOUS
    <3>1. PICK y \in S : <<x, y>> \in relation
      OBVIOUS
    <3>2. y \in Finished
      BY <2>1, <3>1 DEF SearchInv, FinishedIsClosed
    <3> QED BY <1>10, <3>1, <3>2
  <2>3. T # {}
    <3>1. CASE id \in S
      <4>1. PICK y \in S : <<id, y>> \in relation
        BY <3>1
      <4>2. y # id
        BY <1>5, <1>6, <2>1, <4>1
      <4> QED BY <4>2
    <3> QED BY <3>1
  <2> QED BY <2>1, <2>2, <2>3 DEF SearchInv, FinishedIsAcyclic
<1>13. EveryOriginStarted'
  BY <1>3, <1>4 DEF SearchInv, EveryOriginStarted
<1> QED BY <1>3, <1>7, <1>8, <1>9, <1>11, <1>12, <1>13
        DEF SearchInv, SearchIsExact

\* When nothing is left to start, every node with an edge is finished.
LEMMA ExhaustedIsAcyclic ==
    ASSUME SearchInv, path = <<>>, starts = {}
    PROVE  Acyclic(relation, Vertex)
<1> SUFFICES ASSUME NEW S \in SUBSET Vertex, S # {},
                    \A x \in S : \E y \in S : <<x, y>> \in relation
             PROVE  FALSE
  BY DEF Acyclic
<1>1. \A x \in Vertex : mark[x] # "onPath"
  BY DEF SearchInv, OpenCalls
<1>2. S \subseteq Finished
  <2> SUFFICES ASSUME NEW x \in S PROVE mark[x] = "finished"
    BY DEF Finished
  <2>1. mark[x] # "unvisited"
    BY DEF SearchInv, EveryOriginStarted
  <2> QED BY <1>1, <2>1 DEF SearchInv, SearchTypes
<1> QED BY <1>2 DEF SearchInv, FinishedIsAcyclic

LEMMA SearchNextInv == SearchInv /\ [SearchNext]_searchVars => SearchInv'
<1> SUFFICES ASSUME SearchInv, [SearchNext]_searchVars PROVE SearchInv'
  OBVIOUS
<1>1. ASSUME NEW id \in Vertex, Start(id) PROVE SearchInv'
  <2>1. CASE mark[id] = "finished"
    <3>1. /\ UNCHANGED <<relation, mark, path, todo, verdict>>
          /\ starts' = starts \ {id}
      BY <1>1, <2>1 DEF Start
    <3>2. SearchTypes' /\ OpenCalls' /\ TodoIsLeft'
      BY <3>1 DEF SearchInv, SearchTypes, OpenCalls, TodoIsLeft
    <3>3. FinishedIsClosed' /\ FinishedIsAcyclic' /\ SearchIsExact'
      BY <3>1 DEF SearchInv, FinishedIsClosed, FinishedIsAcyclic, Finished,
                  SearchIsExact
    <3>4. EveryOriginStarted'
      BY <2>1, <3>1 DEF SearchInv, EveryOriginStarted
    <3> QED BY <3>2, <3>3, <3>4 DEF SearchInv
  <2>2. CASE mark[id] # "finished"
    <3>1. /\ verdict = "searching" /\ path = <<>> /\ starts' = starts \ {id}
          /\ Open(id) /\ todo' = [todo EXCEPT ![id] = TargetsOf(id)]
          /\ UNCHANGED <<relation, verdict>>
      BY <1>1, <2>2 DEF Start
    <3>2. mark[id] = "unvisited"
      BY <2>2, <3>1 DEF SearchInv, SearchTypes, OpenCalls
    <3> QED BY <3>1, <3>2, OpenKeepsInv
  <2> QED BY <2>1, <2>2
<1>2. ASSUME NEW to \in Vertex, Visit(to) PROVE SearchInv'
  <2>1. /\ verdict = "searching" /\ path # <<>> /\ to \in todo[path[Len(path)]]
        /\ UNCHANGED <<relation, starts>>
    BY <1>2 DEF Visit
  <2>2. CASE mark[to] = "unvisited"
    <3>1. /\ Open(to) /\ UNCHANGED verdict
          /\ todo' = [todo EXCEPT ![path[Len(path)]] = @ \ {to},
                                  ![to] = TargetsOf(to)]
      BY <1>2, <2>2 DEF Visit
    <3>2. <<path[Len(path)], to>> \in relation
      <4>1. path[Len(path)] \in Vertex
        BY <2>1, PathPop DEF SearchInv, SearchTypes
      <4> QED BY <2>1, <4>1 DEF SearchInv, TodoIsLeft
    <3> QED BY <2>1, <2>2, <3>1, <3>2, OpenKeepsInv
  <2>3. CASE mark[to] # "unvisited"
    BY <1>2, <2>1, <2>3, MarkedVisitKeepsInv DEF Visit
  <2> QED BY <2>2, <2>3
<1>3. CASE Close
  BY <1>3, CloseKeepsInv
<1>4. CASE SearchExhausted
  <2>1. UNCHANGED <<relation, starts, mark, path, todo>> /\ verdict' = "none"
        /\ Acyclic(relation, Vertex)
    BY <1>4, ExhaustedIsAcyclic DEF SearchExhausted
  <2>2. SearchTypes' /\ OpenCalls' /\ TodoIsLeft'
    BY <2>1 DEF SearchInv, SearchTypes, OpenCalls, TodoIsLeft
  <2>3. FinishedIsClosed' /\ FinishedIsAcyclic' /\ EveryOriginStarted'
    BY <2>1 DEF SearchInv, FinishedIsClosed, FinishedIsAcyclic,
                EveryOriginStarted, Finished
  <2> QED BY <2>1, <2>2, <2>3 DEF SearchInv, SearchIsExact
<1>5. CASE UNCHANGED searchVars
  <2>1. SearchTypes' /\ OpenCalls' /\ TodoIsLeft' /\ EveryOriginStarted'
    BY <1>5 DEF searchVars, SearchInv, SearchTypes, OpenCalls, TodoIsLeft,
                EveryOriginStarted
  <2>2. FinishedIsClosed' /\ FinishedIsAcyclic' /\ SearchIsExact'
    BY <1>5 DEF searchVars, SearchInv, FinishedIsClosed, FinishedIsAcyclic, Finished,
                SearchIsExact
  <2> QED BY <2>1, <2>2 DEF SearchInv
<1> QED BY <1>1, <1>2, <1>3, <1>4, <1>5 DEF SearchNext, SearchReturned

\* The search of any relation keeps its invariant.
THEOREM SearchInvariant == SearchSpec => []SearchInv
  BY SearchInitInv, SearchNextInv, PTL DEF SearchSpec

\* findCycle reports a cycle exactly when the relation has one, for every
\* relation and every order of visits.
THEOREM SearchDecidesAcyclicity == SearchSpec => []SearchIsExact
<1>1. SearchInv => SearchIsExact
  BY DEF SearchInv
<1> QED BY <1>1, SearchInvariant, PTL

-----------------------------------------------------------------------------
(* What bindDeadline promises when release waits for its watcher, for any  *)
(* number of exchanges on a connection: it is handed on clean, and no      *)
(* exchange times out on another's account. The invariant says where late  *)
(* watchers can be: nowhere, because every exchange but the current one    *)
(* has seen its own exit.                                                  *)

Between == {"idle", "cancel", "cancelFailed", "failed"}

\* The variables of bindDeadline and its exchange stay within their types.
DeadlineTypeOK ==
    /\ k \in 0..Exchanges
    /\ doing \in {"idle", "io", "release", "releaseFailed", "cancel", "cancelFailed",
                "failed"}
    /\ caller \in BOOLEAN
    /\ passed \in SUBSET Exchange
    /\ ended \in SUBSET Exchange
    /\ done \in SUBSET Exchange
    /\ watcher \in [Exchange -> {"none", "started", "parked", "wokenByCtx",
                                 "wokenByDone", "exited"}]
    /\ socket \in {"none", "armed", "expired"}

\* Only the exchange in progress has a live watcher.
WatchersBelong ==
    \A x \in Exchange :
        /\ x < k => watcher[x] = "exited"
        /\ x > k => watcher[x] = "none" /\ x \notin passed \cup ended \cup done
        /\ watcher[x] = "wokenByCtx" => x \in ended
        /\ x = k /\ doing \in Between => watcher[x] = "exited"

\* The socket is expired only on the account of the exchange in progress.
SocketBelongs ==
    /\ doing # "idle" => k > 0
    /\ doing \in Between => socket = "none"
    /\ socket = "expired" => k \in passed \cup ended

DeadlineInv == DeadlineTypeOK /\ WatchersBelong /\ SocketBelongs /\ TimeoutIsOwn

LEMMA InitEstablishesDeadlineInv ==
    ASSUME DeadlineInit PROVE DeadlineInv
<1>1. DeadlineTypeOK
  <2>1. k \in 0..Exchanges
    BY ExchangeAssumption DEF DeadlineInit, DeadlineIdle
  <2>2. watcher \in [Exchange -> {"none", "started", "parked", "wokenByCtx",
                                  "wokenByDone", "exited"}]
    BY DEF DeadlineInit, DeadlineIdle
  <2>3. caller \in BOOLEAN
    BY Zenon DEF DeadlineInit, DeadlineIdle
  <2>4. passed \in SUBSET Exchange /\ ended \in SUBSET Exchange /\ done \in SUBSET Exchange
    BY DEF DeadlineInit, DeadlineIdle
  <2> QED BY <2>1, <2>2, <2>3, <2>4 DEF DeadlineInit, DeadlineIdle, DeadlineTypeOK
<1>2. WatchersBelong
  BY ExchangeAssumption DEF DeadlineInit, DeadlineIdle, WatchersBelong, Exchange
<1>3. SocketBelongs /\ TimeoutIsOwn
  BY DEF DeadlineInit, DeadlineIdle, SocketBelongs, TimeoutIsOwn
<1> QED BY <1>1, <1>2, <1>3 DEF DeadlineInv

LEMMA StepPreservesDeadlineInv ==
    ASSUME Awaits, DeadlineInv, [DeadlineNext]_deadlineVars
    PROVE  DeadlineInv'
<1> USE ExchangeAssumption DEF DeadlineInv, DeadlineTypeOK, WatchersBelong,
        SocketBelongs, TimeoutIsOwn, Exchange, Between
<1>1. CASE Bind
  BY <1>1 DEF Bind
<1>2. CASE Answered
  BY <1>2 DEF Answered
<1>3. CASE TimedOut
  BY <1>3 DEF TimedOut
<1>4. CASE CloseDone
  BY <1>4 DEF CloseDone, Wake
<1>5. CASE ClearDeadline
  BY <1>5 DEF ClearDeadline, MayClear
<1>6. CASE CancelStep
  BY <1>6 DEF CancelStep, Wake
<1>7. CASE DeadlinePasses
  BY <1>7 DEF DeadlinePasses
<1>8. CASE CallerCancels
  BY <1>8 DEF CallerCancels, Wake
<1>9. ASSUME NEW x \in Exchange, CtxTimer(x) PROVE DeadlineInv'
  BY <1>9 DEF CtxTimer, Wake
<1>10. ASSUME NEW x \in Exchange, Park(x) PROVE DeadlineInv'
  BY <1>10 DEF Park
<1>11. ASSUME NEW x \in Exchange, ExpireSocket(x) PROVE DeadlineInv'
  <2>1. x = k /\ x \in ended /\ doing \notin Between
    BY <1>11 DEF ExpireSocket
  <2> QED BY <1>11, <2>1 DEF ExpireSocket
<1>12. ASSUME NEW x \in Exchange, LeaveQuietly(x) PROVE DeadlineInv'
  BY <1>12 DEF LeaveQuietly
<1>13. CASE UNCHANGED deadlineVars
  BY <1>13 DEF deadlineVars
<1> QED BY <1>1, <1>2, <1>3, <1>4, <1>5, <1>6, <1>7, <1>8, <1>9, <1>10, <1>11, <1>12,
           <1>13 DEF DeadlineNext, Releases, Watchers, Over

\* bindDeadline with its wait keeps the invariant through every exchange.
THEOREM DeadlineInvariant == Awaits /\ DeadlineSpec => []DeadlineInv
<1> SUFFICES ASSUME Awaits PROVE DeadlineSpec => []DeadlineInv
  OBVIOUS
<1>1. DeadlineInit => DeadlineInv
  BY InitEstablishesDeadlineInv
<1>2. DeadlineInv /\ [DeadlineNext]_deadlineVars => DeadlineInv'
  BY StepPreservesDeadlineInv
<1> QED BY <1>1, <1>2, PTL DEF DeadlineSpec

\* The connection is handed on without a deadline (PostgreSQL, Redis and
\* RabbitMQ), whatever order the runtime runs the goroutines in.
THEOREM HandoverIsClean == Awaits /\ DeadlineSpec => []CleanHandover
<1>1. DeadlineInv => CleanHandover
  BY DEF DeadlineInv, SocketBelongs, CleanHandover, Between
<1> QED BY <1>1, DeadlineInvariant, PTL

\* A timeout is the timed-out exchange's own.
THEOREM TimeoutsAreOwn == Awaits /\ DeadlineSpec => []TimeoutIsOwn
<1>1. DeadlineInv => TimeoutIsOwn
  BY DEF DeadlineInv
<1> QED BY <1>1, DeadlineInvariant, PTL

-----------------------------------------------------------------------------
(* The diagnosis engine for any rules and any inputs: what is produced, how *)
(* it is grouped and merged, and that neither loses, invents or prefers.    *)

Advices == [action : Nat, remediates : BOOLEAN]
RefSets == {refs \in SUBSET (Nat \ {0}) : IsFiniteSet(refs)}
FindingInputs ==
    [code : Nat, subject : Nat, layer : Nat, summary : Nat, detail : Nat,
     discriminator : Nat, kind : {"CONFIRMED", "HYPOTHESIS"}, severity : 1..4,
     confidence : 1..3, vantage : BOOLEAN, refs : RefSets, advice : Seq(Advices)]

\* What NewFinding and AdmitAdvice let a finding be.
Admissible(f) ==
    /\ Buildable(f)
    /\ \A a \in ToSet(f.advice) : AdmitAdvice(f.kind, f.confidence, a)
Findings == {f \in FindingInputs : Admissible(f)}

LEMMA InputsAreTyped == Inputs \subseteq FindingInputs
<1> SUFFICES ASSUME NEW in \in Inputs PROVE in \in FindingInputs
    OBVIOUS
<1>1. /\ in.refs \subseteq Nat \ {0} /\ IsFiniteSet(in.refs)
      /\ in.advice \in Seq([action : Nat, remediates : BOOLEAN])
      /\ in \in [code : Nat, subject : Nat, layer : Nat, summary : Nat, detail : Nat,
               discriminator : Nat, kind : {"CONFIRMED", "HYPOTHESIS"},
               severity : 1..4, confidence : 1..3, vantage : BOOLEAN,
               refs : {in.refs}, advice : {in.advice}]
    BY InputsAssumption DEF InputsAssumption
<1>2. in.refs \in RefSets /\ in.advice \in Seq(Advices)
    BY <1>1 DEF RefSets, Advices
<1> QED
    BY <1>1, <1>2 DEF FindingInputs

\* Two findings that agree in every field are one.
LEMMA FieldsDecide ==
    ASSUME NEW f \in FindingInputs, NEW g \in FindingInputs,
           f.code = g.code, f.subject = g.subject, f.layer = g.layer, f.summary = g.summary,
           f.detail = g.detail, f.discriminator = g.discriminator, f.kind = g.kind,
           f.severity = g.severity, f.confidence = g.confidence, f.vantage = g.vantage,
           f.refs = g.refs, f.advice = g.advice
    PROVE  f = g
<1> DEFINE names == {"code", "subject", "layer", "summary", "detail", "discriminator", "kind",
                     "severity", "confidence", "vantage", "refs", "advice"}
<1>1. /\ DOMAIN f = names /\ f = [x \in names |-> f[x]]
      /\ DOMAIN g = names /\ g = [x \in names |-> g[x]]
    BY DEF FindingInputs
<1>2. \A x \in names : f[x] = g[x]
    OBVIOUS
<1> HIDE DEF names
<1> QED
    BY <1>1, <1>2

LEMMA ZeroIsNoFinding == ZeroFinding \notin FindingInputs
<1> SUFFICES ASSUME ZeroFinding \in FindingInputs PROVE FALSE
    OBVIOUS
<1>1. "subject" \in DOMAIN ZeroFinding
    BY DEF FindingInputs
<1>2. DOMAIN ZeroFinding = {"code"}
    BY DEF ZeroFinding
<1> QED
    BY <1>1, <1>2

\* Recommend: what is left of the advice is admitted.
LEMMA BuiltIsAdmissible ==
    ASSUME NEW in \in FindingInputs, Buildable(in)
    PROVE  NewFinding(in) \in Findings
<1> DEFINE I == {i \in DOMAIN in.advice : AdmitAdvice(in.kind, in.confidence, in.advice[i])}
           f == [in EXCEPT !.advice = Recommend(in)]
<1>1. in.advice \in Seq(Advices)
    BY DEF FindingInputs
<1>2. I \in SUBSET (1..Len(in.advice))
    BY <1>1
<1>3. /\ Where(in.advice, I) \in Seq(Advices)
      /\ ToSet(Where(in.advice, I)) = {in.advice[i] : i \in I}
  <2> DEFINE a == in.advice
  <2>1. a \in Seq(Advices) /\ I \in SUBSET (1..Len(a))
      BY <1>1, <1>2
  <2> HIDE DEF I, a
  <2>2. Where(a, I) \in Seq(Advices) /\ ToSet(Where(a, I)) = {a[i] : i \in I}
      BY <2>1, WhereSelects
  <2> QED
      BY <2>2 DEF a
<1>4. Recommend(in) = Where(in.advice, I)
    BY DEF Recommend
<1>5. /\ Recommend(in) \in Seq(Advices)
      /\ \A a \in ToSet(Recommend(in)) : AdmitAdvice(in.kind, in.confidence, a)
    BY <1>3, <1>4
<1>6. /\ f \in FindingInputs
      /\ f.kind = in.kind /\ f.confidence = in.confidence
      /\ f.refs = in.refs /\ f.discriminator = in.discriminator
      /\ f.advice = Recommend(in)
    BY <1>5 DEF FindingInputs
<1>7. Admissible(f)
    BY <1>5, <1>6 DEF Admissible, Buildable
<1>8. NewFinding(in) = f
    BY DEF NewFinding
<1> QED
    BY <1>6, <1>7, <1>8 DEF Findings

-----------------------------------------------------------------------------
(* The engine's inductive invariant.                                       *)

EngineTypeOK ==
    /\ adds \in Nat /\ turn \in Nat
    /\ registry \in Seq(RuleIDs)
    /\ produced \in Seq(Findings \cup {ZeroFinding})
    /\ failures \in Seq(RuleIDs \cup {ConvergenceFailure})

\* The Outcome is settled once, from all that was produced.
OutcomeIsSettled ==
    /\ engine # "done" => findings = <<>>
    /\ engine = "done" /\ CannotConverge(produced) =>
         findings = <<>> /\ ConvergenceFailure \in ToSet(failures)
    /\ engine = "done" /\ ~CannotConverge(produced) => findings = Converge(produced)

EngineInv == EngineTypeOK /\ OutcomeIsSettled

LEMMA OutputsAreFindings == Outputs \subseteq Seq(Findings \cup {ZeroFinding})
<1> SUFFICES ASSUME NEW out \in Outputs PROVE out \in Seq(Findings \cup {ZeroFinding})
    OBVIOUS
<1> DEFINE A == Findings \cup {ZeroFinding}
<1>1. \A x \in A : <<x>> \in Seq(A)
    OBVIOUS
<1>2. <<>> \in Seq(A)
    OBVIOUS
<1>3. ASSUME NEW in \in Inputs PROVE build(in) \in Seq(A)
  <2>1. CASE Buildable(in)
    <3>1. NewFinding(in) \in A
        BY <2>1, InputsAreTyped, BuiltIsAdmissible
    <3>2. build(in) = <<NewFinding(in)>>
        BY <2>1 DEF build
    <3> QED
        BY <1>1, <3>1, <3>2
  <2>2. CASE ~Buildable(in)
      BY <1>2, <2>2 DEF build
  <2> QED
      BY <2>1, <2>2
<1>4. <<ZeroFinding>> \in Seq(A)
    BY <1>1
<1> HIDE DEF A
<1> QED
    BY <1>2, <1>3, <1>4 DEF Outputs, A

LEMMA EngineInvInit == EngineInit => EngineInv
<1> SUFFICES ASSUME EngineInit PROVE EngineInv
    OBVIOUS
<1>1. EngineTypeOK
    BY DEF EngineInit, EngineIdle, EngineTypeOK
<1>2. OutcomeIsSettled
    BY DEF EngineInit, EngineIdle, OutcomeIsSettled
<1> QED
    BY <1>1, <1>2 DEF EngineInv

LEMMA EngineStep == EngineInv /\ [EngineNext]_engineVars => EngineInv'
<1> SUFFICES ASSUME EngineInv, [EngineNext]_engineVars PROVE EngineInv'
    OBVIOUS
<1> USE DEF EngineInv
<1>1. ASSUME NEW id \in RuleIDs \cup {BadID, NilRule}, Add(id) PROVE EngineInv'
  <2>1. registry' \in Seq(RuleIDs)
    <3>1. CASE refused \/ id \notin RuleIDs \/ id \in ToSet(registry)
        BY <1>1, <3>1 DEF Add, EngineTypeOK
    <3>2. CASE ~(refused \/ id \notin RuleIDs \/ id \in ToSet(registry))
      <4>1. id \in RuleIDs /\ registry' = Append(registry, id)
          BY <1>1, <3>2 DEF Add
      <4> QED
          BY <4>1 DEF EngineTypeOK
    <3> QED
        BY <3>1, <3>2
  <2>2. EngineTypeOK'
      BY <1>1, <2>1 DEF Add, EngineTypeOK
  <2>3. OutcomeIsSettled'
      BY <1>1 DEF Add, OutcomeIsSettled
  <2> QED
      BY <2>2, <2>3
<1>2. ASSUME FreezeRules PROVE EngineInv'
  <2>1. EngineTypeOK'
      BY <1>2 DEF FreezeRules, EngineTypeOK
  <2>2. OutcomeIsSettled'
      BY <1>2 DEF FreezeRules, OutcomeIsSettled
  <2> QED
      BY <2>1, <2>2
<1>3. ASSUME NEW out \in Outputs, RulePanics(out) PROVE EngineInv'
  <2>1. turn + 1 \in 1..Len(registry)
      BY <1>3 DEF RulePanics, EngineTypeOK
  <2>2. registry[turn + 1] \in RuleIDs
      BY <2>1 DEF EngineTypeOK
  <2>3. failures' \in Seq(RuleIDs \cup {ConvergenceFailure})
      BY <1>3, <2>2 DEF RulePanics, EngineTypeOK
  <2>4. EngineTypeOK'
      BY <1>3, <2>3 DEF RulePanics, EngineTypeOK
  <2>5. OutcomeIsSettled'
      BY <1>3 DEF RulePanics, OutcomeIsSettled
  <2> QED
      BY <2>4, <2>5
<1>4. ASSUME NEW out \in Outputs, RuleReturns(out) PROVE EngineInv'
  <2>1. out \in Seq(Findings \cup {ZeroFinding})
      BY OutputsAreFindings
  <2>2. produced' \in Seq(Findings \cup {ZeroFinding})
      BY <1>4, <2>1, ConcatHolds DEF RuleReturns, EngineTypeOK
  <2>3. EngineTypeOK'
      BY <1>4, <2>2 DEF RuleReturns, EngineTypeOK
  <2>4. OutcomeIsSettled'
      BY <1>4 DEF RuleReturns, OutcomeIsSettled
  <2> QED
      BY <2>3, <2>4
<1>5. ASSUME Evaluate PROVE EngineInv'
  <2>1. /\ failures' \in Seq(RuleIDs \cup {ConvergenceFailure})
        /\ CannotConverge(produced) => ConvergenceFailure \in ToSet(failures')
    <3>1. CASE ~CannotConverge(produced)
        BY <1>5, <3>1 DEF Evaluate, EngineTypeOK
    <3>2. CASE CannotConverge(produced)
      <4>1. failures' = Append(failures, ConvergenceFailure)
          BY <1>5, <3>2 DEF Evaluate
      <4>2. /\ failures' \in Seq(RuleIDs \cup {ConvergenceFailure})
            /\ Len(failures) + 1 \in DOMAIN failures'
            /\ failures'[Len(failures) + 1] = ConvergenceFailure
          BY <4>1 DEF EngineTypeOK
      <4> QED
          BY <4>2 DEF ToSet
    <3> QED
        BY <3>1, <3>2
  <2>2. EngineTypeOK'
      BY <1>5, <2>1 DEF Evaluate, EngineTypeOK
  <2>3. /\ engine' = "done" /\ produced' = produced
        /\ findings' = IF CannotConverge(produced) THEN <<>> ELSE Converge(produced)
      BY <1>5 DEF Evaluate
  <2>4. OutcomeIsSettled'
      BY <2>1, <2>3 DEF OutcomeIsSettled
  <2> QED
      BY <2>2, <2>4
<1>6. ASSUME UNCHANGED engineVars PROVE EngineInv'
  <2>1. EngineTypeOK'
      BY <1>6 DEF engineVars, EngineTypeOK
  <2>2. OutcomeIsSettled'
      BY <1>6 DEF engineVars, OutcomeIsSettled
  <2> QED
      BY <2>1, <2>2
<1>7. EngineOver => UNCHANGED engineVars
    BY DEF EngineOver
<1> QED
    BY <1>1, <1>2, <1>3, <1>4, <1>5, <1>6, <1>7 DEF EngineNext

\* Engine.Evaluate: the types, and an Outcome settled from all that was produced.
THEOREM EngineInvariant == EngineSpec => []EngineInv
<1> QED
    BY EngineInvInit, EngineStep, PTL DEF EngineSpec

-----------------------------------------------------------------------------
(* Groups.                                                                 *)

MergeKeys == [layer : Nat, summary : Nat, detail : Nat, discriminator : Nat]

LEMMA FindingFields ==
    ASSUME NEW f \in Findings
    PROVE  /\ f.code \in Nat /\ f.subject \in Nat /\ f.layer \in Nat
           /\ f.summary \in Nat /\ f.detail \in Nat /\ f.discriminator \in Nat
           /\ f.kind \in {"CONFIRMED", "HYPOTHESIS"}
           /\ f.severity \in 1..4 /\ f.confidence \in 1..3 /\ f.vantage \in BOOLEAN
           /\ f.refs \in SUBSET (Nat \ {0}) /\ IsFiniteSet(f.refs)
           /\ f.advice \in Seq(Advices)
           /\ mergeable(f) \in MergeKeys
           /\ IdentityOf(f) \in Seq(Nat)
           /\ Admissible(f)
<1>1. f \in FindingInputs /\ Admissible(f)
    BY DEF Findings
<1>2. /\ f.code \in Nat /\ f.subject \in Nat /\ f.layer \in Nat
      /\ f.summary \in Nat /\ f.detail \in Nat /\ f.discriminator \in Nat
      /\ f.kind \in {"CONFIRMED", "HYPOTHESIS"}
      /\ f.severity \in 1..4 /\ f.confidence \in 1..3 /\ f.vantage \in BOOLEAN
      /\ f.refs \in RefSets /\ f.advice \in Seq(Advices)
    BY <1>1 DEF FindingInputs
<1>3. f.refs \in SUBSET (Nat \ {0}) /\ IsFiniteSet(f.refs)
    BY <1>2 DEF RefSets
<1>4. mergeable(f) \in MergeKeys
    BY <1>2 DEF mergeable, MergeKeys
<1>5. IdentityOf(f) \in Seq(Nat)
    BY <1>2 DEF IdentityOf
<1> QED
    BY <1>1, <1>2, <1>3, <1>4, <1>5

\* A question has a home of its own; a silent bucket's home asks about its claim.
LEMMA HomeFacts ==
    ASSUME NEW keys \in SUBSET MergeKeys, NEW key \in keys
    PROVE  /\ Home(keys, key) \in keys
           /\ sameClaimAs(Home(keys, key), key)
           /\ key.discriminator # 0 => Home(keys, key) = key
           /\ Home(keys, key) # key => Home(keys, key).discriminator # 0 /\ key.discriminator = 0
           /\ Home(keys, Home(keys, key)) = Home(keys, key)
<1>1. \A l \in MergeKeys : sameClaimAs(l, l)
    BY DEF sameClaimAs
<1>2. CASE key.discriminator = 0 /\ Cardinality(Hosts(keys, key)) = 1
  <2>1. Hosts(keys, key) # {}
      BY <1>2, FS_EmptySet
  <2>2. Home(keys, key) \in Hosts(keys, key)
      BY <1>2, <2>1 DEF Home
  <2>3. /\ Home(keys, key) \in keys /\ Home(keys, key).discriminator # 0
        /\ sameClaimAs(Home(keys, key), key)
      BY <2>2 DEF Hosts
  <2>4. Home(keys, Home(keys, key)) = Home(keys, key)
    <3> DEFINE h == Home(keys, key)
    <3>1. h.discriminator # 0
        BY <2>3
    <3> HIDE DEF h
    <3>2. Home(keys, h) = h
        BY <3>1 DEF Home
    <3> QED
        BY <3>2 DEF h
  <2> QED
      BY <1>2, <2>3, <2>4
<1>3. CASE ~(key.discriminator = 0 /\ Cardinality(Hosts(keys, key)) = 1)
  <2>1. Home(keys, key) = key
      BY <1>3 DEF Home
  <2> QED
      BY <1>1, <2>1
<1> QED
    BY <1>2, <1>3

\* mergeKey.compare tells any two keys apart.
LEMMA KeyOrderFacts ==
    /\ \A key \in MergeKeys : KeyOrder(key) \in Seq(Nat)
    /\ \A key, l \in MergeKeys : KeyOrder(key) = KeyOrder(l) => key = l
<1>1. ASSUME NEW key \in MergeKeys PROVE KeyOrder(key) \in Seq(Nat)
  <2>1. key.layer \in Nat /\ key.summary \in Nat /\ key.detail \in Nat /\ key.discriminator \in Nat
      BY DEF MergeKeys
  <2> QED
      BY <2>1 DEF KeyOrder
<1>2. ASSUME NEW key \in MergeKeys, NEW l \in MergeKeys, KeyOrder(key) = KeyOrder(l)
      PROVE  key = l
  <2>1. /\ key.layer = l.layer /\ key.summary = l.summary
        /\ key.detail = l.detail /\ key.discriminator = l.discriminator
      BY <1>2 DEF KeyOrder
  <2> QED
      BY <2>1 DEF MergeKeys
<1> QED
    BY <1>1, <1>2

LEMMA ByKeyIsTotal ==
    ASSUME NEW keys \in SUBSET MergeKeys
    PROVE  TotalOrder(keys, ByKey(keys))
<1>1. \A key, l \in keys : <<key, l>> \in ByKey(keys) <=> LexBefore(KeyOrder(key), KeyOrder(l))
    BY DEF ByKey
<1>2. \A key \in keys : KeyOrder(key) \in Seq(Nat)
    BY KeyOrderFacts
<1>3. \A key \in keys : ~LexBefore(KeyOrder(key), KeyOrder(key))
    BY <1>2, LexIsStrict
<1>4. \A key, l, m \in keys :
         LexBefore(KeyOrder(key), KeyOrder(l)) /\ LexBefore(KeyOrder(l), KeyOrder(m))
            => LexBefore(KeyOrder(key), KeyOrder(m))
    BY <1>2, LexIsTransitive
<1>5. ASSUME NEW key \in keys, NEW l \in keys, key # l
      PROVE  LexBefore(KeyOrder(key), KeyOrder(l)) \/ LexBefore(KeyOrder(l), KeyOrder(key))
  <2>1. KeyOrder(key) # KeyOrder(l)
      BY <1>5, KeyOrderFacts
  <2> QED
      BY <1>2, <2>1, LexIsTotal
<1> QED
    BY <1>1, <1>3, <1>4, <1>5 DEF TotalOrder

\* The parts of one identity's findings, by the key each part comes home to.
Keys(group) == {mergeable(group[i]) : i \in DOMAIN group}
Homes(group) == {Home(Keys(group), key) : key \in Keys(group)}
HomeOrder(group) == Ranked(Homes(group), ByKey(Homes(group)))
BucketOf(group, key) == Where(group, {i \in DOMAIN group : mergeable(group[i]) = key})
FoldedInto(group, key) ==
    Where(group, {i \in DOMAIN group : /\ mergeable(group[i]) # key
                                      /\ Home(Keys(group), mergeable(group[i])) = key})

LEMMA PartitionIs ==
    ASSUME NEW group
    PROVE  partitionByCompatibility(group) =
             [n \in 1..Cardinality(Homes(group)) |->
                BucketOf(group, HomeOrder(group)[n]) \o FoldedInto(group, HomeOrder(group)[n])]
  BY DEF partitionByCompatibility, Keys, Homes, HomeOrder, BucketOf, FoldedInto

\* The homes are listed once each.
LEMMA HomesAreListed ==
    ASSUME NEW group \in Seq(Findings)
    PROVE  /\ Keys(group) \in SUBSET MergeKeys /\ Homes(group) \in SUBSET Keys(group)
           /\ \A key \in Homes(group) : Home(Keys(group), key) = key
           /\ Cardinality(Homes(group)) \in Nat
           /\ \A n \in 1..Cardinality(Homes(group)) : HomeOrder(group)[n] \in Homes(group)
           /\ \A key \in Homes(group) :
                \E n \in 1..Cardinality(Homes(group)) : HomeOrder(group)[n] = key
<1> DEFINE value == [f \in Findings |-> mergeable(f)]
           keys == Keys(group)
           homes == Homes(group)
<1>1. DOMAIN group = 1..Len(group) /\ \A i \in DOMAIN group : group[i] \in Findings
    OBVIOUS
<1>2. keys \in SUBSET MergeKeys
    BY <1>1, FindingFields DEF Keys
<1>3. IsFiniteSet(keys)
  <2>1. IsFiniteSet({value[group[i]] : i \in DOMAIN group})
    <3> HIDE DEF value
    <3> QED
        BY KeysAreFinite
  <2>2. {value[group[i]] : i \in DOMAIN group} = keys
      BY <1>1 DEF Keys
  <2> QED
      BY <2>1, <2>2
<1>4. homes \in SUBSET keys
    BY <1>2, HomeFacts DEF Homes
<1>5. \A key \in homes : Home(keys, key) = key
    BY <1>2, HomeFacts DEF Homes
<1>6. IsFiniteSet(homes)
    BY <1>3, <1>4, FS_Subset
<1>7. TotalOrder(homes, ByKey(homes))
    BY <1>2, <1>4, ByKeyIsTotal
<1> HIDE DEF keys, homes
<1>8. /\ Cardinality(homes) \in Nat
      /\ Ranked(homes, ByKey(homes)) \in [1..Cardinality(homes) -> homes]
      /\ \A key \in homes : \E n \in 1..Cardinality(homes) : Ranked(homes, ByKey(homes))[n] = key
    BY <1>6, <1>7, RankedLists
<1>9. \A n \in 1..Cardinality(homes) : Ranked(homes, ByKey(homes))[n] \in homes
    BY <1>8
<1> QED
    BY <1>2, <1>4, <1>5, <1>8, <1>9 DEF keys, homes, HomeOrder

LEMMA PartHolds ==
    ASSUME NEW group \in Seq(Findings), NEW key
    PROVE  /\ BucketOf(group, key) \in Seq(Findings) /\ FoldedInto(group, key) \in Seq(Findings)
           /\ \A f : f \in ToSet(BucketOf(group, key)) <=>
                       f \in ToSet(group) /\ mergeable(f) = key
           /\ \A f : f \in ToSet(FoldedInto(group, key)) <=>
                       /\ f \in ToSet(group) /\ mergeable(f) # key
                       /\ Home(Keys(group), mergeable(f)) = key
<1> DEFINE I == {i \in DOMAIN group : mergeable(group[i]) = key}
           J == {i \in DOMAIN group : /\ mergeable(group[i]) # key
                                      /\ Home(Keys(group), mergeable(group[i])) = key}
<1>1. I \in SUBSET (1..Len(group)) /\ J \in SUBSET (1..Len(group))
    OBVIOUS
<1>2. /\ \A f : f \in {group[i] : i \in I} <=> f \in ToSet(group) /\ mergeable(f) = key
      /\ \A f : f \in {group[i] : i \in J} <=>
                  /\ f \in ToSet(group) /\ mergeable(f) # key
                  /\ Home(Keys(group), mergeable(f)) = key
    BY DEF ToSet
<1> HIDE DEF I, J
<1>3. Where(group, I) \in Seq(Findings) /\ ToSet(Where(group, I)) = {group[i] : i \in I}
    BY <1>1, WhereSelects
<1>4. Where(group, J) \in Seq(Findings) /\ ToSet(Where(group, J)) = {group[i] : i \in J}
    BY <1>1, WhereSelects
<1>5. BucketOf(group, key) = Where(group, I) /\ FoldedInto(group, key) = Where(group, J)
    BY DEF BucketOf, FoldedInto, I, J
<1> QED
    BY <1>2, <1>3, <1>4, <1>5

\* A group can be merged: somebody is in it, and it is about one thing.
Mergeable(group) ==
    /\ group \in Seq(Findings) /\ ToSet(group) # {}
    /\ \A f, g \in ToSet(group) : IdentityOf(f) = IdentityOf(g)
    /\ ~Conflicting(group)

LEMMA NotConflicting ==
    ASSUME NEW group \in Seq(Findings),
           \A f, g \in ToSet(group) :
              /\ sameClaimAs(mergeable(f), mergeable(g))
              /\ f.discriminator = 0 \/ g.discriminator = 0 \/ f.discriminator = g.discriminator
    PROVE  ~Conflicting(group)
  BY DEF Conflicting, ToSet

\* Partitioning loses nobody, and no part disagrees about its claim or its
\* question: mergeGroup never refuses.
LEMMA PartitionFacts ==
    ASSUME NEW group \in Seq(Findings),
           \A f, g \in ToSet(group) : IdentityOf(f) = IdentityOf(g)
    PROVE  /\ partitionByCompatibility(group) \in Seq(Seq(Findings))
           /\ \A n \in 1..Len(partitionByCompatibility(group)) :
                /\ Mergeable(partitionByCompatibility(group)[n])
                /\ ToSet(partitionByCompatibility(group)[n]) \subseteq ToSet(group)
           /\ \A f \in ToSet(group) : \E n \in 1..Len(partitionByCompatibility(group)) :
                f \in ToSet(partitionByCompatibility(group)[n])
<1> DEFINE N == Cardinality(Homes(group))
           P == partitionByCompatibility(group)
           Part(key) == BucketOf(group, key) \o FoldedInto(group, key)
<1>1. /\ N \in Nat
      /\ \A n \in 1..N : HomeOrder(group)[n] \in Homes(group)
      /\ \A key \in Homes(group) : \E n \in 1..N : HomeOrder(group)[n] = key
      /\ Keys(group) \in SUBSET MergeKeys /\ Homes(group) \in SUBSET Keys(group)
      /\ \A key \in Homes(group) : Home(Keys(group), key) = key
    BY HomesAreListed
<1>2. ASSUME NEW key
      PROVE  /\ Part(key) \in Seq(Findings)
             /\ \A f : f \in ToSet(Part(key)) <=>
                  /\ f \in ToSet(group)
                  /\ mergeable(f) = key \/ Home(Keys(group), mergeable(f)) = key
  <2>1. Part(key) \in Seq(Findings) /\
        ToSet(Part(key)) = ToSet(BucketOf(group, key)) \cup ToSet(FoldedInto(group, key))
      BY PartHolds, ConcatHolds
  <2> HIDE DEF Part
  <2> QED
      BY <2>1, PartHolds
<1>3. P = [n \in 1..N |-> Part(HomeOrder(group)[n])]
    BY PartitionIs
<1> HIDE DEF Part, P, N
<1>4. P \in Seq(Seq(Findings)) /\ Len(P) = N
  <2>1. P \in [1..N -> Seq(Findings)]
      BY <1>2, <1>3
  <2> QED
      BY <1>1, <2>1
<1>5. ASSUME NEW f \in ToSet(group)
      PROVE  /\ f \in Findings /\ mergeable(f) \in Keys(group)
             /\ Home(Keys(group), mergeable(f)) \in Homes(group)
  <2>1. PICK i \in DOMAIN group : f = group[i]
      BY DEF ToSet
  <2>2. f \in Findings
      BY <2>1
  <2>3. mergeable(f) \in Keys(group)
      BY <2>1 DEF Keys
  <2> QED
      BY <2>2, <2>3 DEF Homes
<1>6. ASSUME NEW n \in 1..N
      PROVE  Mergeable(P[n]) /\ ToSet(P[n]) \subseteq ToSet(group)
  <2> DEFINE key == HomeOrder(group)[n]
  <2>1. key \in Homes(group) /\ key \in Keys(group) /\ Home(Keys(group), key) = key
      BY <1>1
  <2>2. P[n] = Part(key)
      BY <1>3
  <2> HIDE DEF key
  <2>3. /\ Part(key) \in Seq(Findings)
        /\ \A f \in ToSet(Part(key)) : f \in ToSet(group) /\ Home(Keys(group), mergeable(f)) = key
      BY <1>2, <2>1
  <2>4. ASSUME NEW f \in ToSet(Part(key))
        PROVE  /\ sameClaimAs(key, mergeable(f))
               /\ f.discriminator = 0 \/ f.discriminator = key.discriminator
    <3>1. mergeable(f) \in Keys(group) /\ Home(Keys(group), mergeable(f)) = key
        BY <1>5, <2>3
    <3>2. sameClaimAs(key, mergeable(f))
        BY <1>1, <3>1, HomeFacts
    <3>3. mergeable(f).discriminator # 0 => key = mergeable(f)
        BY <1>1, <3>1, HomeFacts
    <3>4. mergeable(f).discriminator = f.discriminator
        BY DEF mergeable
    <3> QED
        BY <3>2, <3>3, <3>4
  <2>5. ~Conflicting(Part(key))
    <3>1. \A f, g \in ToSet(Part(key)) : sameClaimAs(mergeable(f), mergeable(g))
        BY <2>4 DEF sameClaimAs
    <3> QED
        BY <2>3, <2>4, <3>1, NotConflicting
  <2>6. ToSet(Part(key)) # {}
    <3>1. PICK l \in Keys(group) : key = Home(Keys(group), l)
        BY <2>1 DEF Homes
    <3>2. PICK f \in ToSet(group) : mergeable(f) = l
        BY <3>1 DEF Keys, ToSet
    <3>3. f \in ToSet(Part(key))
        BY <1>2, <3>1, <3>2
    <3> QED
        BY <3>3
  <2>7. \A f, g \in ToSet(Part(key)) : IdentityOf(f) = IdentityOf(g)
      BY <2>3
  <2> QED
      BY <2>2, <2>3, <2>5, <2>6, <2>7 DEF Mergeable
<1>7. ASSUME NEW f \in ToSet(group) PROVE \E n \in 1..N : f \in ToSet(P[n])
  <2>1. PICK n \in 1..N : HomeOrder(group)[n] = Home(Keys(group), mergeable(f))
      BY <1>1, <1>5
  <2>2. f \in ToSet(Part(HomeOrder(group)[n]))
      BY <1>2, <2>1
  <2> QED
      BY <1>3, <2>2
<1> QED
    BY <1>4, <1>6, <1>7 DEF P

\* The findings by identity.
Identities(in) == {IdentityOf(in[i]) : i \in DOMAIN in}
IdentityOrder(in) == Ranked(Identities(in), ByFields(Identities(in)))
OfIdentity(in, id) == Where(in, {i \in DOMAIN in : IdentityOf(in[i]) = id})
GroupsByIdentity(in) ==
    [n \in 1..Cardinality(Identities(in)) |->
        partitionByCompatibility(OfIdentity(in, IdentityOrder(in)[n]))]

LEMMA GroupsAre ==
    ASSUME NEW in
    PROVE  GroupsOf(in) = FlattenSeq(GroupsByIdentity(in))
  BY DEF GroupsOf, Identities, IdentityOrder, OfIdentity, GroupsByIdentity

LEMMA IdentitiesAreListed ==
    ASSUME NEW in \in Seq(Findings)
    PROVE  /\ Cardinality(Identities(in)) \in Nat
           /\ \A id \in Identities(in) :
                \E n \in 1..Cardinality(Identities(in)) : IdentityOrder(in)[n] = id
<1> DEFINE value == [f \in Findings |-> IdentityOf(f)]
           ids == Identities(in)
<1>1. DOMAIN in = 1..Len(in) /\ \A i \in DOMAIN in : in[i] \in Findings
    OBVIOUS
<1>2. ids \in SUBSET Seq(Nat)
  <2> SUFFICES ASSUME NEW i \in DOMAIN in PROVE IdentityOf(in[i]) \in Seq(Nat)
      BY DEF Identities
  <2> QED
      BY <1>1, FindingFields
<1>3. IsFiniteSet(ids)
  <2>1. IsFiniteSet({value[in[i]] : i \in DOMAIN in})
    <3> HIDE DEF value
    <3> QED
        BY KeysAreFinite
  <2>2. {value[in[i]] : i \in DOMAIN in} = ids
      BY <1>1 DEF Identities
  <2> QED
      BY <2>1, <2>2
<1>4. TotalOrder(ids, ByFields(ids))
    BY <1>2, ByFieldsIsTotal
<1> HIDE DEF ids
<1>5. /\ Cardinality(ids) \in Nat
      /\ \A x \in ids : \E n \in 1..Cardinality(ids) : Ranked(ids, ByFields(ids))[n] = x
    BY <1>3, <1>4, RankedLists
<1> QED
    BY <1>5 DEF ids, IdentityOrder

LEMMA OfIdentityHolds ==
    ASSUME NEW in \in Seq(Findings), NEW id
    PROVE  /\ OfIdentity(in, id) \in Seq(Findings)
           /\ \A f : f \in ToSet(OfIdentity(in, id)) <=> f \in ToSet(in) /\ IdentityOf(f) = id
<1> DEFINE I == {i \in DOMAIN in : IdentityOf(in[i]) = id}
<1>1. I \in SUBSET (1..Len(in))
    OBVIOUS
<1>2. \A f : f \in {in[i] : i \in I} <=> f \in ToSet(in) /\ IdentityOf(f) = id
    BY DEF ToSet
<1> HIDE DEF I
<1>3. Where(in, I) \in Seq(Findings) /\ ToSet(Where(in, I)) = {in[i] : i \in I}
    BY <1>1, WhereSelects
<1>4. OfIdentity(in, id) = Where(in, I)
    BY DEF OfIdentity, I
<1> QED
    BY <1>2, <1>3, <1>4

\* Every finding is in a group, and every group can be merged.
LEMMA GroupsFacts ==
    ASSUME NEW in \in Seq(Findings)
    PROVE  /\ GroupsOf(in) \in Seq(Seq(Findings))
           /\ \A group \in ToSet(GroupsOf(in)) :
                Mergeable(group) /\ ToSet(group) \subseteq ToSet(in)
           /\ \A f \in ToSet(in) : \E group \in ToSet(GroupsOf(in)) : f \in ToSet(group)
<1> DEFINE N == Cardinality(Identities(in))
           G == GroupsByIdentity(in)
           Of(n) == OfIdentity(in, IdentityOrder(in)[n])
<1>1. /\ N \in Nat
      /\ \A id \in Identities(in) : \E n \in 1..N : IdentityOrder(in)[n] = id
    BY IdentitiesAreListed
<1>2. G = [n \in 1..N |-> partitionByCompatibility(Of(n))]
    BY DEF GroupsByIdentity
<1>3. ASSUME NEW n \in 1..N
      PROVE  /\ Of(n) \in Seq(Findings)
             /\ \A f \in ToSet(Of(n)) : f \in ToSet(in)
             /\ \A f, g \in ToSet(Of(n)) : IdentityOf(f) = IdentityOf(g)
    BY OfIdentityHolds
<1> HIDE DEF N, G, Of
<1>4. ASSUME NEW n \in 1..N
      PROVE  /\ G[n] \in Seq(Seq(Findings))
             /\ \A group \in ToSet(G[n]) : Mergeable(group) /\ ToSet(group) \subseteq ToSet(in)
             /\ \A f \in ToSet(Of(n)) : \E group \in ToSet(G[n]) : f \in ToSet(group)
  <2> DEFINE P == partitionByCompatibility(Of(n))
  <2>1. /\ P \in Seq(Seq(Findings))
        /\ \A m \in 1..Len(P) : Mergeable(P[m]) /\ ToSet(P[m]) \subseteq ToSet(Of(n))
        /\ \A f \in ToSet(Of(n)) : \E m \in 1..Len(P) : f \in ToSet(P[m])
      BY <1>3, PartitionFacts
  <2>2. G[n] = P
      BY <1>2
  <2> HIDE DEF P
  <2>3. DOMAIN P = 1..Len(P)
      BY <2>1
  <2>4. \A group \in ToSet(P) : \E m \in 1..Len(P) : group = P[m]
      BY <2>3 DEF ToSet
  <2>5. \A m \in 1..Len(P) : P[m] \in ToSet(P)
      BY <2>3 DEF ToSet
  <2>6. \A group \in ToSet(P) : Mergeable(group) /\ ToSet(group) \subseteq ToSet(in)
      BY <1>3, <2>1, <2>4
  <2>7. \A f \in ToSet(Of(n)) : \E group \in ToSet(P) : f \in ToSet(group)
      BY <2>1, <2>5
  <2> QED
      BY <2>1, <2>2, <2>6, <2>7
<1>5. G \in Seq(Seq(Seq(Findings))) /\ Len(G) = N
  <2>1. G \in [1..N -> Seq(Seq(Findings))]
      BY <1>2, <1>4
  <2> QED
      BY <1>1, <2>1
<1>6. /\ FlattenSeq(G) \in Seq(Seq(Findings))
      /\ \A x : x \in ToSet(FlattenSeq(G)) <=> \E n \in 1..N : x \in ToSet(G[n])
  <2>1. /\ FlattenSeq(G) \in Seq(Seq(Findings))
        /\ \A x : x \in ToSet(FlattenSeq(G)) <=> \E n \in 1..Len(G) : x \in ToSet(G[n])
      BY <1>5, FlattenHolds
  <2> QED
      BY <1>5, <2>1
<1>7. GroupsOf(in) = FlattenSeq(G)
    BY GroupsAre DEF G
<1>8. \A group \in ToSet(GroupsOf(in)) : Mergeable(group) /\ ToSet(group) \subseteq ToSet(in)
    BY <1>4, <1>6, <1>7
<1>9. ASSUME NEW f \in ToSet(in)
      PROVE  \E group \in ToSet(GroupsOf(in)) : f \in ToSet(group)
  <2>1. IdentityOf(f) \in Identities(in)
      BY DEF ToSet, Identities
  <2>2. PICK n \in 1..N : IdentityOrder(in)[n] = IdentityOf(f)
      BY <1>1, <2>1
  <2>3. f \in ToSet(Of(n))
      BY <2>2, OfIdentityHolds DEF Of
  <2> QED
      BY <1>4, <1>6, <1>7, <2>3
<1> QED
    BY <1>6, <1>7, <1>8, <1>9

-----------------------------------------------------------------------------
(* Merging.                                                                *)

LEMMA SortedRefsFacts ==
    ASSUME NEW refs \in SUBSET Nat, IsFiniteSet(refs)
    PROVE  /\ SortedRefs(refs) \in Seq(Nat)
           /\ Len(SortedRefs(refs)) = Cardinality(refs)
           /\ \A x : x \in refs <=> \E i \in 1..Len(SortedRefs(refs)) : SortedRefs(refs)[i] = x
<1> DEFINE l == Ranked(refs, Ascending(refs))
           C == Cardinality(refs)
<1>1. TotalOrder(refs, Ascending(refs))
    BY AscendingIsTotal
<1>2. /\ C \in Nat /\ l \in [1..C -> refs]
      /\ \A x \in refs : \E n \in 1..C : l[n] = x
    BY <1>1, RankedLists
<1>3. SortedRefs(refs) = l
    BY DEF SortedRefs
<1> HIDE DEF l, C
<1>4. l \in Seq(Nat) /\ Len(l) = C
  <2>1. l \in [1..C -> Nat]
      BY <1>2
  <2> QED
      BY <1>2, <2>1
<1>5. \A i \in 1..C : l[i] \in refs
    BY <1>2
<1> QED
    BY <1>2, <1>3, <1>4, <1>5 DEF C

ContentTail(f) ==
    <<0, KindOrder(f.kind), f.severity, f.confidence, f.discriminator, Flag(f.vantage)>>

LEMMA ContentOrderFacts ==
    ASSUME NEW f \in Findings
    PROVE  /\ ContentOrder(f) = SortedRefs(f.refs) \o ContentTail(f) \o AdviceOrder(f.advice)
           /\ SortedRefs(f.refs) \in Seq(Nat) /\ ContentTail(f) \in Seq(Nat)
           /\ AdviceOrder(f.advice) \in Seq(Nat)
           /\ ContentOrder(f) \in Seq(Nat)
<1>1. SortedRefs(f.refs) \in Seq(Nat)
  <2>1. f.refs \in SUBSET Nat /\ IsFiniteSet(f.refs)
      BY FindingFields
  <2> QED
      BY <2>1, SortedRefsFacts
<1>2. ContentTail(f) \in Seq(Nat)
  <2>1. /\ KindOrder(f.kind) \in Nat /\ Flag(f.vantage) \in Nat
        /\ f.severity \in Nat /\ f.confidence \in Nat /\ f.discriminator \in Nat
    <3>1. f.severity \in Nat /\ f.confidence \in Nat /\ f.discriminator \in Nat
      <4>1. f.severity \in 1..4 /\ f.confidence \in 1..3 /\ f.discriminator \in Nat
          BY FindingFields
      <4> QED
          BY <4>1
    <3>2. KindOrder(f.kind) \in Nat
        BY DEF KindOrder
    <3>3. Flag(f.vantage) \in Nat
        BY DEF Flag
    <3> QED
        BY <3>1, <3>2, <3>3
  <2> DEFINE kind == KindOrder(f.kind)
             flag == Flag(f.vantage)
             severity == f.severity
             confidence == f.confidence
             question == f.discriminator
  <2>2. ContentTail(f) = <<0, kind, severity, confidence, question, flag>>
      BY DEF ContentTail
  <2> HIDE DEF kind, flag, severity, confidence, question
  <2>3. <<0, kind, severity, confidence, question, flag>> \in Seq(Nat)
      BY <2>1 DEF kind, flag, severity, confidence, question
  <2> QED
      BY <2>2, <2>3
<1>3. AdviceOrder(f.advice) \in Seq(Nat)
  <2> DEFINE advice == f.advice
  <2>1. advice \in Seq(Advices)
      BY FindingFields
  <2> HIDE DEF advice
  <2>2. \A i \in DOMAIN advice : 2 * advice[i].action + Flag(advice[i].remediates) \in Nat
    <3> SUFFICES ASSUME NEW i \in DOMAIN advice
                 PROVE  2 * advice[i].action + Flag(advice[i].remediates) \in Nat
        OBVIOUS
    <3>3. advice[i] \in Advices
        BY <2>1
    <3>1. advice[i].action \in Nat
        BY <3>3 DEF Advices
    <3>2. Flag(advice[i].remediates) \in Nat
        BY DEF Flag
    <3> QED
        BY <3>1, <3>2
  <2>3. DOMAIN advice = 1..Len(advice) /\ Len(advice) \in Nat
      BY <2>1
  <2>4. AdviceOrder(advice) \in [1..Len(advice) -> Nat]
      BY <2>2, <2>3 DEF AdviceOrder
  <2> QED
      BY <2>3, <2>4 DEF advice
<1>4. ContentOrder(f) = SortedRefs(f.refs) \o ContentTail(f) \o AdviceOrder(f.advice)
    BY DEF ContentOrder, ContentTail
<1>5. SortedRefs(f.refs) \o ContentTail(f) \o AdviceOrder(f.advice) \in Seq(Nat)
    BY <1>1, <1>2, <1>3, ConcatHolds
<1> QED
    BY <1>1, <1>2, <1>3, <1>4, <1>5

LEMMA ByContentHolds ==
    ASSUME NEW group \in Seq(Findings)
    PROVE  /\ ByContent(group) \in Seq(Findings)
           /\ Len(ByContent(group)) = Len(group)
           /\ ToSet(ByContent(group)) = ToSet(group)
<1> DEFINE keys == [i \in DOMAIN group |-> ContentOrder(group[i])]
<1>1. \A i \in 1..Len(group) : keys[i] \in Seq(Nat)
  <2> SUFFICES ASSUME NEW i \in 1..Len(group) PROVE keys[i] \in Seq(Nat)
      OBVIOUS
  <2>1. group[i] \in Findings /\ i \in DOMAIN group
      OBVIOUS
  <2> QED
      BY <2>1, ContentOrderFacts
<1>2. ByContent(group) = SortedBy(group, keys)
    BY DEF ByContent
<1> HIDE DEF keys
<1>3. /\ SortedBy(group, keys) \in Seq(Findings)
      /\ Len(SortedBy(group, keys)) = Len(group)
      /\ ToSet(SortedBy(group, keys)) = ToSet(group)
    BY <1>1, SortedByLists
<1> QED
    BY <1>2, <1>3

\* The first of a kind is kept, so the same values are there.
LEMMA FirstOfEachHolds ==
    ASSUME NEW A, NEW s \in Seq(A)
    PROVE  LET t == Where(s, {i \in DOMAIN s : \A j \in 1..(i - 1) : s[j] # s[i]})
           IN  t \in Seq(A) /\ ToSet(t) = ToSet(s)
<1> DEFINE I == {i \in DOMAIN s : \A j \in 1..(i - 1) : s[j] # s[i]}
<1>1. I \in SUBSET (1..Len(s)) /\ DOMAIN s = 1..Len(s) /\ Len(s) \in Nat
    OBVIOUS
<1>2. ASSUME NEW i \in DOMAIN s PROVE \E least \in I : s[least] = s[i]
  <2> DEFINE T == {j \in DOMAIN s : s[j] = s[i]}
  <2>1. T \in SUBSET Nat /\ i \in T
      BY <1>1
  <2>2. PICK least \in T : \A j \in T : least <= j
      BY <2>1, LeastNatural
  <2>3. \A j \in 1..(least - 1) : j \in DOMAIN s /\ ~(least <= j)
      BY <1>1, <2>1
  <2>4. \A j \in 1..(least - 1) : s[j] # s[least]
      BY <2>2, <2>3
  <2> QED
      BY <2>4
<1>3. {s[i] : i \in I} = ToSet(s)
    BY <1>2 DEF ToSet
<1> HIDE DEF I
<1>4. Where(s, I) \in Seq(A) /\ ToSet(Where(s, I)) = {s[i] : i \in I}
    BY <1>1, WhereSelects
<1> QED
    BY <1>3, <1>4 DEF I

\* The merged advice is all the members' advice, and none else.
LEMMA AdviceOfHolds ==
    ASSUME NEW group \in Seq(Findings)
    PROVE  /\ AdviceOf(group) \in Seq(Advices)
           /\ \A a : a \in ToSet(AdviceOf(group)) <=>
                       \E f \in ToSet(group) : a \in ToSet(f.advice)
<1> DEFINE members == ByContent(group)
           lists == [i \in DOMAIN members |-> members[i].advice]
           all == FlattenSeq(lists)
<1>1. members \in Seq(Findings) /\ ToSet(members) = ToSet(group)
    BY ByContentHolds
<1>2. AdviceOf(group) = Where(all, {i \in DOMAIN all : \A j \in 1..(i - 1) : all[j] # all[i]})
    BY DEF AdviceOf
<1> HIDE DEF members
<1>3. /\ Len(members) \in Nat /\ DOMAIN members = 1..Len(members)
      /\ \A i \in 1..Len(members) : members[i] \in Findings
    BY <1>1
<1>4. lists \in Seq(Seq(Advices)) /\ Len(lists) = Len(members)
  <2>1. \A i \in 1..Len(members) : members[i].advice \in Seq(Advices)
      BY <1>3, FindingFields
  <2>2. lists \in [1..Len(members) -> Seq(Advices)]
      BY <1>3, <2>1
  <2> QED
      BY <1>3, <2>2
<1>5. \A i \in 1..Len(members) : lists[i] = members[i].advice
    BY <1>3
<1> HIDE DEF lists
<1>6. /\ all \in Seq(Advices)
      /\ \A a : a \in ToSet(all) <=> \E i \in 1..Len(lists) : a \in ToSet(lists[i])
    BY <1>4, FlattenHolds
<1> HIDE DEF all
<1>7. AdviceOf(group) \in Seq(Advices) /\ ToSet(AdviceOf(group)) = ToSet(all)
    BY <1>2, <1>6, FirstOfEachHolds
<1>8. ToSet(members) = {members[i] : i \in 1..Len(members)}
    BY <1>3 DEF ToSet
<1>9. \A a : a \in ToSet(all) <=> \E f \in ToSet(members) : a \in ToSet(f.advice)
    BY <1>4, <1>5, <1>6, <1>8
<1> QED
    BY <1>1, <1>7, <1>9

\* Every field of the merge, of a group of several.
LEMMA MergedFields ==
    ASSUME NEW group, Mergeable(group)
    PROVE  LET m == mergeGroup(group) IN
           /\ m \in Findings
           /\ \A f \in ToSet(group) :
                /\ IdentityOf(m) = IdentityOf(f) /\ sameClaimAs(mergeable(m), mergeable(f))
                /\ f.refs \subseteq m.refs
                /\ f.severity <= m.severity
                /\ f.discriminator \in {0, m.discriminator} \/ m.kind = "CONFIRMED"
           /\ \E f \in ToSet(group) : f.confidence = m.confidence
           /\ m.refs \subseteq UNION {f.refs : f \in ToSet(group)}
           /\ m.kind = "CONFIRMED" =>
                \E f \in ToSet(group) : Confirmed(f) /\ f.refs \subseteq m.refs
<1> DEFINE M == ToSet(group)
           m == mergeGroup(group)
           r == group[1]
<1>1. /\ group \in Seq(Findings) /\ M # {} /\ ~Conflicting(group)
      /\ \A f, g \in M : IdentityOf(f) = IdentityOf(g)
    BY DEF Mergeable
<1>2. /\ Len(group) \in Nat /\ Len(group) # 0 /\ DOMAIN group = 1..Len(group)
      /\ r \in Findings /\ r \in M /\ M \in SUBSET Findings
      /\ \A f \in M : \E i \in DOMAIN group : f = group[i]
  <2>1. Len(group) \in Nat /\ DOMAIN group = 1..Len(group)
      BY <1>1
  <2>2. Len(group) # 0
      BY <1>1, <2>1 DEF ToSet
  <2>3. \A i \in 1..Len(group) : group[i] \in Findings
      BY <1>1
  <2>4. 1 \in DOMAIN group
      BY <2>1, <2>2
  <2> QED
      BY <2>1, <2>2, <2>3, <2>4 DEF ToSet
<1>3. ASSUME NEW f \in M, NEW g \in M
      PROVE  /\ sameClaimAs(mergeable(f), mergeable(g))
             /\ f.discriminator = 0 \/ g.discriminator = 0 \/ f.discriminator = g.discriminator
             /\ f.code = g.code /\ f.subject = g.subject
  <2>1. /\ sameClaimAs(mergeable(f), mergeable(g))
        /\ f.discriminator = 0 \/ g.discriminator = 0 \/ f.discriminator = g.discriminator
      BY <1>1, <1>2 DEF Conflicting
  <2>2. IdentityOf(f) = IdentityOf(g)
      BY <1>1
  <2> QED
      BY <2>1, <2>2 DEF IdentityOf
<1>4. CASE Len(group) = 1
  <2>1. m = r
      BY <1>4 DEF mergeGroup
  <2>2. M = {r}
      BY <1>2, <1>4 DEF ToSet
  <2>3. r.severity \in 1..4 /\ sameClaimAs(mergeable(r), mergeable(r))
      BY <1>2, FindingFields DEF sameClaimAs
  <2>4. r.severity <= r.severity
      BY <2>3
  <2> HIDE DEF m, M, r
  <2>5. \A f \in M : f = r
      BY <2>2
  <2> QED
      BY <1>2, <2>1, <2>2, <2>3, <2>4, <2>5 DEF m, M, Confirmed
<1>5. CASE Len(group) # 1
  <2> DEFINE kind == MergedKind(group)
             S == {f.severity : f \in M}
             C == {f.confidence : f \in M}
             Q == {f.discriminator : f \in M}
             refs == UNION {f.refs : f \in M}
             question == IF kind = "CONFIRMED" THEN 0 ELSE Max(Q)
             vantage == \E f \in M : f.vantage
             advice == AdviceOf(group)
  <2>1. m = [r EXCEPT !.kind = kind, !.severity = Max(S), !.confidence = Max(C),
                      !.vantage = vantage, !.discriminator = question,
                      !.refs = refs, !.advice = advice]
      BY <1>5 DEF mergeGroup
  <2>2. /\ Max(S) \in S /\ \A x \in S : x <= Max(S)
        /\ Max(C) \in C /\ \A x \in C : x <= Max(C)
    <3>1. \A f \in M : f.severity \in 1..4 /\ f.confidence \in 1..3
        BY <1>2, FindingFields
    <3>2. /\ S \in SUBSET Nat /\ S # {} /\ \A x \in S : x <= 4
          /\ C \in SUBSET Nat /\ C # {} /\ \A x \in C : x <= 3
        BY <1>2, <3>1
    <3> HIDE DEF S, C
    <3> QED
        BY <3>2, MaxIsGreatest
  <2>3. Max(Q) \in Q /\ \A x \in Q : x \in {0, Max(Q)}
    <3>1. Q \in SUBSET Nat /\ Q # {}
        BY <1>2, FindingFields
    <3>2. \A x, y \in Q : x = 0 \/ y = 0 \/ x = y
        BY <1>3
    <3> HIDE DEF Q
    <3>3. \E n \in Q : \A x \in Q : x \in {0, n}
      <4>1. CASE Q \subseteq {0}
          BY <3>1, <4>1
      <4>2. CASE ~(Q \subseteq {0})
        <5>1. PICK n \in Q : n # 0
            BY <4>2
        <5> QED
            BY <3>2, <5>1
      <4> QED
          BY <4>1, <4>2
    <3>4. PICK n \in Q : \A x \in Q : x \in {0, n}
        BY <3>3
    <3>5. n \in Nat /\ \A x \in Q : x <= n
        BY <3>1, <3>4
    <3>6. Max(Q) \in Q /\ \A x \in Q : x <= Max(Q)
        BY <3>1, <3>5, MaxIsGreatest
    <3>7. Max(Q) = n
      <4>1. Max(Q) \in {0, n} /\ n <= Max(Q)
          BY <3>4, <3>6
      <4> QED
          BY <3>5, <4>1
    <3> QED
        BY <3>4, <3>6, <3>7
  <2>4. /\ kind \in {"CONFIRMED", "HYPOTHESIS"}
        /\ \A f \in M : Confirmed(f) => kind = "CONFIRMED"
        /\ kind = "CONFIRMED" => \E f \in M : Confirmed(f)
    <3>1. r.kind \in {"CONFIRMED", "HYPOTHESIS"}
        BY <1>2, FindingFields
    <3> QED
        BY <1>2, <3>1 DEF MergedKind, Confirmed
  <2>5. refs \in SUBSET (Nat \ {0}) /\ IsFiniteSet(refs) /\ refs # {}
    <3> DEFINE Parts == {f.refs : f \in M}
    <3>1. \A f \in M : f.refs \in SUBSET (Nat \ {0}) /\ IsFiniteSet(f.refs) /\ f.refs # {}
        BY <1>2, FindingFields DEF Admissible, Buildable
    <3>2. IsFiniteSet(Parts)
      <4> DEFINE value == [f \in Findings |-> f.refs]
      <4>1. IsFiniteSet({value[group[i]] : i \in DOMAIN group})
        <5> HIDE DEF value
        <5> QED
            BY <1>1, KeysAreFinite
      <4>2. {value[group[i]] : i \in DOMAIN group} = Parts
        <5>1. \A i \in DOMAIN group : group[i] \in Findings /\ group[i] \in M
            BY <1>1 DEF ToSet
        <5>2. \A i \in DOMAIN group : value[group[i]] \in Parts
            BY <5>1
        <5>3. \A f \in M : f.refs \in {value[group[i]] : i \in DOMAIN group}
            BY <1>2
        <5> QED
            BY <5>2, <5>3
      <4> QED
          BY <4>1, <4>2
    <3>3. \A p \in Parts : IsFiniteSet(p)
        BY <3>1
    <3>4. IsFiniteSet(UNION Parts)
      <4> HIDE DEF Parts
      <4> QED
          BY <3>2, <3>3, FS_UNION
    <3>5. refs \in SUBSET (Nat \ {0}) /\ refs # {}
        BY <1>2, <3>1
    <3> QED
        BY <3>4, <3>5
  <2>6. \A f \in M : f.refs \subseteq refs
      OBVIOUS
  <2>7. /\ advice \in Seq(Advices)
        /\ \A a \in ToSet(advice) : \E f \in M : a \in ToSet(f.advice)
      BY <1>1, AdviceOfHolds
  <2>8. vantage \in BOOLEAN
      OBVIOUS
  <2>9. question \in Nat /\ (\A f \in M : f.discriminator \in {0, question} \/ kind = "CONFIRMED")
    <3>1. Max(Q) \in Nat
        BY <1>2, <2>3, FindingFields
    <3>2. \A f \in M : f.discriminator \in {0, Max(Q)}
        BY <2>3
    <3> HIDE DEF Q, kind
    <3> QED
        BY <3>1, <3>2
  <2>10. /\ Max(S) \in 1..4 /\ Max(C) \in 1..3
         /\ \A f \in M : f.severity <= Max(S) /\ f.confidence <= Max(C)
         /\ \E f \in M : f.confidence = Max(C)
    <3>1. \A f \in M : f.severity \in 1..4 /\ f.confidence \in 1..3
        BY <1>2, FindingFields
    <3> QED
        BY <2>2, <3>1
  <2>11. kind = "CONFIRMED" => question = 0
      OBVIOUS
  <2> DEFINE top == Max(S)
             sure == Max(C)
  <2>21. sure \in 1..3 /\ \A f \in M : f.confidence <= sure
      BY <2>10
  <2> HIDE DEF m, M, r, kind, question, refs, vantage, advice, top, sure
  <2>12. m = [r EXCEPT !.kind = kind, !.severity = top, !.confidence = sure,
                       !.vantage = vantage, !.discriminator = question,
                       !.refs = refs, !.advice = advice]
      BY <2>1 DEF top, sure
  <2>13. /\ m \in FindingInputs
         /\ m.kind = kind /\ m.severity = top /\ m.confidence = sure
         /\ m.discriminator = question /\ m.refs = refs /\ m.advice = advice
         /\ m.code = r.code /\ m.subject = r.subject /\ m.layer = r.layer
         /\ m.summary = r.summary /\ m.detail = r.detail
    <3>1. r \in FindingInputs
        BY <1>2 DEF Findings
    <3>2. refs \in RefSets
        BY <2>5 DEF RefSets
    <3>3. top \in 1..4 /\ sure \in 1..3
        BY <2>10 DEF top, sure
    <3> QED
        BY <2>4, <2>7, <2>8, <2>9, <2>12, <3>1, <3>2, <3>3 DEF FindingInputs
  <2>14. Buildable(m)
      BY <2>5, <2>11, <2>13 DEF Buildable
  <2>15. ASSUME NEW a \in ToSet(m.advice) PROVE AdmitAdvice(m.kind, m.confidence, a)
    <3>1. PICK f \in M : a \in ToSet(f.advice)
        BY <2>7, <2>13
    <3>2. AdmitAdvice(f.kind, f.confidence, a) /\ f.confidence \in 1..3
        BY <1>2, <3>1, FindingFields DEF Admissible
    <3>3. CASE a.remediates
      <4>1. f.kind = "CONFIRMED" /\ f.confidence = 3
          BY <3>2, <3>3 DEF AdmitAdvice, HighConfidence
      <4>2. kind = "CONFIRMED"
          BY <2>4, <4>1 DEF Confirmed
      <4>3. sure = 3
          BY <2>21, <3>1, <4>1
      <4> QED
          BY <2>13, <4>2, <4>3 DEF AdmitAdvice, HighConfidence
    <3>4. CASE ~a.remediates
        BY <3>4 DEF AdmitAdvice
    <3> QED
        BY <3>3, <3>4
  <2>16. m \in Findings
      BY <2>13, <2>14, <2>15 DEF Findings, Admissible
  <2>17. ASSUME NEW f \in M
         PROVE  /\ IdentityOf(m) = IdentityOf(f) /\ sameClaimAs(mergeable(m), mergeable(f))
                /\ f.refs \subseteq m.refs
                /\ f.severity <= m.severity
                /\ f.discriminator \in {0, m.discriminator} \/ m.kind = "CONFIRMED"
    <3>1. sameClaimAs(mergeable(r), mergeable(f)) /\ r.code = f.code /\ r.subject = f.subject
        BY <1>2, <1>3
    <3>2. IdentityOf(m) = IdentityOf(f)
        BY <2>13, <3>1 DEF IdentityOf
    <3>3. sameClaimAs(mergeable(m), mergeable(f))
        BY <2>13, <3>1 DEF sameClaimAs, mergeable
    <3>4. f.severity <= m.severity
        BY <2>10, <2>13 DEF top
    <3> QED
        BY <2>6, <2>9, <2>13, <3>2, <3>3, <3>4
  <2>18. \E f \in M : f.confidence = m.confidence
      BY <2>10, <2>13 DEF sure
  <2>19. m.refs \subseteq UNION {f.refs : f \in M}
      BY <2>13 DEF refs
  <2>20. m.kind = "CONFIRMED" => \E f \in M : Confirmed(f) /\ f.refs \subseteq m.refs
      BY <2>4, <2>6, <2>13
  <2> QED
      BY <2>16, <2>17, <2>18, <2>19, <2>20 DEF m, M
<1> QED
    BY <1>4, <1>5

-----------------------------------------------------------------------------
(* The report.                                                             *)

LEMMA SortFindingsHolds ==
    ASSUME NEW fs \in Seq(Findings)
    PROVE  SortFindings(fs) \in Seq(Findings) /\ ToSet(SortFindings(fs)) = ToSet(fs)
<1> DEFINE keys == [i \in DOMAIN fs |-> ReportOrder(fs[i])]
<1>1. ASSUME NEW f \in Findings PROVE ReportOrder(f) \in Seq(Nat)
  <2>1. /\ f.refs \in SUBSET Nat /\ IsFiniteSet(f.refs) /\ f.severity \in 1..4
        /\ f.layer \in Nat /\ f.code \in Nat /\ f.subject \in Nat /\ f.summary \in Nat
      BY FindingFields
  <2>2. SortedRefs(f.refs) \in Seq(Nat)
      BY <2>1, SortedRefsFacts
  <2>3. <<4 - f.severity, f.layer, f.code, f.subject, f.summary>> \in Seq(Nat)
    <3>1. 4 - f.severity \in Nat
        BY <2>1
    <3> QED
        BY <2>1, <3>1
  <2>4. ReportOrder(f) =
          <<4 - f.severity, f.layer, f.code, f.subject, f.summary>> \o SortedRefs(f.refs)
      BY DEF ReportOrder
  <2> QED
      BY <2>2, <2>3, <2>4, ConcatHolds
<1>2. \A i \in 1..Len(fs) : keys[i] \in Seq(Nat)
  <2> SUFFICES ASSUME NEW i \in 1..Len(fs) PROVE keys[i] \in Seq(Nat)
      OBVIOUS
  <2>1. fs[i] \in Findings /\ i \in DOMAIN fs
      OBVIOUS
  <2> QED
      BY <1>1, <2>1
<1>3. SortFindings(fs) = SortedBy(fs, keys)
    BY DEF SortFindings
<1> HIDE DEF keys
<1>4. SortedBy(fs, keys) \in Seq(Findings) /\ ToSet(SortedBy(fs, keys)) = ToSet(fs)
    BY <1>2, SortedByLists
<1> QED
    BY <1>3, <1>4

\* The findings of the report are the merges of the groups.
LEMMA ConvergeHolds ==
    ASSUME NEW in \in Seq(Findings)
    PROVE  /\ Converge(in) \in Seq(Findings)
           /\ \A m : m \in ToSet(Converge(in)) <=>
                       \E group \in ToSet(GroupsOf(in)) : m = mergeGroup(group)
<1> DEFINE groups == GroupsOf(in)
           ms == [n \in DOMAIN groups |-> mergeGroup(groups[n])]
<1>1. groups \in Seq(Seq(Findings)) /\ \A g \in ToSet(groups) : Mergeable(g)
    BY GroupsFacts
<1>2. Converge(in) = SortFindings(ms)
    BY DEF Converge
<1> HIDE DEF groups
<1>3. DOMAIN groups = 1..Len(groups) /\ Len(groups) \in Nat
    BY <1>1
<1>4. \A n \in 1..Len(groups) : mergeGroup(groups[n]) \in Findings
    BY <1>1, <1>3, MergedFields DEF ToSet
<1>5. ms \in Seq(Findings) /\ DOMAIN ms = DOMAIN groups
  <2>1. ms \in [1..Len(groups) -> Findings]
      BY <1>3, <1>4
  <2> QED
      BY <1>3, <2>1
<1>6. \A m : m \in ToSet(ms) <=> \E g \in ToSet(groups) : m = mergeGroup(g)
    BY <1>5 DEF ToSet
<1> HIDE DEF ms
<1>7. SortFindings(ms) \in Seq(Findings) /\ ToSet(SortFindings(ms)) = ToSet(ms)
    BY <1>5, SortFindingsHolds
<1> QED
    BY <1>2, <1>6, <1>7 DEF groups

\* A sequence of findings with no zero Finding among them.
LEMMA WithoutZero ==
    ASSUME NEW in \in Seq(Findings \cup {ZeroFinding}), ZeroFinding \notin ToSet(in)
    PROVE  in \in Seq(Findings)
<1>1. \A i \in 1..Len(in) : in[i] \in Findings
  <2> SUFFICES ASSUME NEW i \in 1..Len(in) PROVE in[i] \in Findings
      OBVIOUS
  <2>1. i \in DOMAIN in /\ in[i] \in Findings \cup {ZeroFinding}
      OBVIOUS
  <2>2. in[i] # ZeroFinding
      BY <2>1 DEF ToSet
  <2> QED
      BY <2>1, <2>2
<1>2. Len(in) \in Nat /\ in = [i \in 1..Len(in) |-> in[i]]
    OBVIOUS
<1>3. in \in [1..Len(in) -> Findings]
    BY <1>1, <1>2
<1> QED
    BY <1>2, <1>3

\* Partitioning lets no group through that mergeGroup would refuse, so that a
\* finding no rule built is the only reason Converge has to fail.
LEMMA OnlyZeroFails ==
    ASSUME NEW in \in Seq(Findings \cup {ZeroFinding})
    PROVE  CannotConverge(in) <=> ZeroFinding \in ToSet(in)
<1>1. ASSUME ZeroFinding \notin ToSet(in) PROVE ~CannotConverge(in)
  <2>1. in \in Seq(Findings)
      BY <1>1, WithoutZero
  <2>2. \A group \in ToSet(GroupsOf(in)) : ~Conflicting(group)
      BY <2>1, GroupsFacts DEF Mergeable
  <2> QED
      BY <1>1, <2>2 DEF CannotConverge
<1>2. ASSUME ZeroFinding \in ToSet(in) PROVE CannotConverge(in)
    BY <1>2 DEF CannotConverge
<1> QED
    BY <1>1, <1>2

LEMMA OutcomeFacts ==
    ASSUME EngineInv
    PROVE  /\ findings = <<>> \/ (produced \in Seq(Findings) /\ findings = Converge(produced))
           /\ engine = "done" =>
                \/ ConvergenceFailure \in ToSet(failures) /\ findings = <<>>
                \/ produced \in Seq(Findings) /\ findings = Converge(produced)
<1>1. ASSUME engine = "done", ~CannotConverge(produced)
      PROVE  produced \in Seq(Findings) /\ findings = Converge(produced)
  <2>1. produced \in Seq(Findings \cup {ZeroFinding})
      BY DEF EngineInv, EngineTypeOK
  <2>2. ZeroFinding \notin ToSet(produced)
      BY <1>1 DEF CannotConverge
  <2>3. produced \in Seq(Findings)
      BY <2>1, <2>2, WithoutZero
  <2> QED
      BY <1>1, <2>3 DEF EngineInv, OutcomeIsSettled
<1> QED
    BY <1>1 DEF EngineInv, OutcomeIsSettled

\* For any rules and inputs: mergeGroup's maximum, absorption and union never
\* make a finding that NewFinding or AdmitAdvice would have refused (ADR 0082).
THEOREM MergesAreAdmissible == EngineSpec => []MergedIsAdmissible
<1>1. EngineInv => MergedIsAdmissible
  <2> SUFFICES ASSUME EngineInv, NEW i \in DOMAIN findings
               PROVE  LET f == findings[i]
                      IN /\ Buildable(f)
                         /\ \A a \in ToSet(f.advice) : AdmitAdvice(f.kind, f.confidence, a)
                         /\ f.kind = "CONFIRMED" =>
                              \E g \in ToSet(produced) : Confirmed(g) /\ g.refs \subseteq f.refs
      BY DEF MergedIsAdmissible
  <2> DEFINE f == findings[i]
  <2>1. findings # <<>>
      OBVIOUS
  <2>2. produced \in Seq(Findings) /\ findings = Converge(produced)
      BY <2>1, OutcomeFacts
  <2>3. f \in ToSet(Converge(produced))
      BY <2>2 DEF ToSet
  <2>4. PICK group \in ToSet(GroupsOf(produced)) : f = mergeGroup(group)
      BY <2>2, <2>3, ConvergeHolds
  <2>5. Mergeable(group) /\ ToSet(group) \subseteq ToSet(produced)
      BY <2>2, GroupsFacts
  <2>6. f \in Findings
      BY <2>4, <2>5, MergedFields
  <2>7. Buildable(f) /\ \A a \in ToSet(f.advice) : AdmitAdvice(f.kind, f.confidence, a)
      BY <2>6 DEF Findings, Admissible
  <2>8. f.kind = "CONFIRMED" => \E g \in ToSet(group) : Confirmed(g) /\ g.refs \subseteq f.refs
      BY <2>4, <2>5, MergedFields
  <2> HIDE DEF f
  <2>9. f.kind = "CONFIRMED" => \E g \in ToSet(produced) : Confirmed(g) /\ g.refs \subseteq f.refs
      BY <2>5, <2>8
  <2> QED
      BY <2>7, <2>9 DEF f
<1> QED
    BY <1>1, EngineInvariant, PTL

\* For any rules and inputs: each finding a rule returned is told by one of the
\* report, and the report tells nothing that no rule did (Converge, mergeGroup).
THEOREM ConvergenceIsFaithful == EngineSpec => []NothingLostOrInvented
<1> DEFINE Tells(g, f) == /\ IdentityOf(g) = IdentityOf(f)
                          /\ sameClaimAs(mergeable(g), mergeable(f))
                          /\ f.refs \subseteq g.refs
                          /\ f.severity <= g.severity
                          /\ f.discriminator \in {0, g.discriminator} \/ g.kind = "CONFIRMED"
<1>1. EngineInv => NothingLostOrInvented
  <2> SUFFICES ASSUME EngineInv, engine = "done",
                      ~(ConvergenceFailure \in ToSet(failures) /\ findings = <<>>)
               PROVE  /\ \A f \in ToSet(produced) : \E g \in ToSet(findings) : Tells(g, f)
                      /\ \A g \in ToSet(findings) :
                           /\ \E f \in ToSet(produced) : f.confidence = g.confidence /\ Tells(g, f)
                           /\ g.refs \subseteq UNION {f.refs : f \in ToSet(produced)}
      BY DEF NothingLostOrInvented
  <2>1. produced \in Seq(Findings) /\ findings = Converge(produced)
      BY OutcomeFacts
  <2>2. \A m : m \in ToSet(findings) <=>
                 \E group \in ToSet(GroupsOf(produced)) : m = mergeGroup(group)
      BY <2>1, ConvergeHolds
  <2>3. ASSUME NEW group \in ToSet(GroupsOf(produced))
        PROVE  /\ ToSet(group) \subseteq ToSet(produced)
               /\ \A f \in ToSet(group) : Tells(mergeGroup(group), f)
               /\ \E f \in ToSet(group) : f.confidence = mergeGroup(group).confidence
               /\ mergeGroup(group).refs \subseteq UNION {f.refs : f \in ToSet(group)}
    <3>1. Mergeable(group) /\ ToSet(group) \subseteq ToSet(produced)
        BY <2>1, GroupsFacts
    <3> QED
        BY <3>1, MergedFields
  <2>4. \A f \in ToSet(produced) : \E group \in ToSet(GroupsOf(produced)) : f \in ToSet(group)
      BY <2>1, GroupsFacts
  <2> HIDE DEF Tells
  <2>5. \A f \in ToSet(produced) : \E g \in ToSet(findings) : Tells(g, f)
      BY <2>2, <2>3, <2>4
  <2>6. ASSUME NEW g \in ToSet(findings)
        PROVE  /\ \E f \in ToSet(produced) : f.confidence = g.confidence /\ Tells(g, f)
               /\ g.refs \subseteq UNION {f.refs : f \in ToSet(produced)}
    <3>1. PICK group \in ToSet(GroupsOf(produced)) : g = mergeGroup(group)
        BY <2>2
    <3>2. PICK f \in ToSet(group) : f.confidence = g.confidence
        BY <2>3, <3>1
    <3>3. f \in ToSet(produced) /\ Tells(g, f)
        BY <2>3, <3>1
    <3>4. g.refs \subseteq UNION {e.refs : e \in ToSet(group)}
        BY <2>3, <3>1
    <3>5. ToSet(group) \subseteq ToSet(produced)
        BY <2>3
    <3>6. g.refs \subseteq UNION {e.refs : e \in ToSet(produced)}
        BY <3>4, <3>5
    <3> QED
        BY <3>2, <3>3, <3>6
  <2> QED
      BY <2>5, <2>6
<1> QED
    BY <1>1, EngineInvariant, PTL

\* The whole of a convergence fails for a finding that no rule built, and for
\* nothing else: no group that partitionByCompatibility makes is refused.
THEOREM OnlyAZeroFindingFailsConvergence ==
    EngineSpec => [](CannotConverge(produced) <=> ZeroFinding \in ToSet(produced))
<1>1. EngineInv => (CannotConverge(produced) <=> ZeroFinding \in ToSet(produced))
  <2> SUFFICES ASSUME EngineInv
               PROVE  CannotConverge(produced) <=> ZeroFinding \in ToSet(produced)
      OBVIOUS
  <2>1. produced \in Seq(Findings \cup {ZeroFinding})
      BY DEF EngineInv, EngineTypeOK
  <2> QED
      BY <2>1, OnlyZeroFails
<1> QED
    BY <1>1, EngineInvariant, PTL

-----------------------------------------------------------------------------
(* Order decides nothing: what is alike is grouped alike, and what is alike *)
(* merges to the same finding.                                             *)

\* Two recommendations that compare equal are one.
LEMMA AdviceTells ==
    ASSUME NEW a \in Seq(Advices), NEW b \in Seq(Advices), AdviceOrder(a) = AdviceOrder(b)
    PROVE  a = b
<1> DEFINE m == Len(a)
           n == Len(b)
<1>1. /\ m \in Nat /\ n \in Nat /\ DOMAIN a = 1..m /\ DOMAIN b = 1..n
      /\ a \in [1..m -> Advices] /\ b \in [1..n -> Advices]
    OBVIOUS
<1>2. DOMAIN AdviceOrder(a) = 1..m /\ DOMAIN AdviceOrder(b) = 1..n
    BY <1>1 DEF AdviceOrder
<1> HIDE DEF m, n
<1>3. m = n
  <2>1. 1..m = 1..n
      BY <1>2
  <2> QED
      BY <1>1, <2>1
<1>4. ASSUME NEW i \in 1..m PROVE a[i] = b[i]
  <2> DEFINE x == a[i]
             y == b[i]
             p == x.action
             q == y.action
             e == Flag(x.remediates)
             g == Flag(y.remediates)
  <2>1. x \in Advices /\ y \in Advices
      BY <1>1, <1>3
  <2>2. p \in Nat /\ q \in Nat /\ x.remediates \in BOOLEAN /\ y.remediates \in BOOLEAN
      BY <2>1 DEF Advices
  <2>3. AdviceOrder(a)[i] = 2 * p + e
      BY <1>1 DEF AdviceOrder
  <2>4. AdviceOrder(b)[i] = 2 * q + g
      BY <1>1, <1>3 DEF AdviceOrder
  <2>5. /\ e \in {0, 1} /\ g \in {0, 1}
        /\ e = 1 <=> x.remediates
        /\ g = 1 <=> y.remediates
      BY DEF Flag
  <2> HIDE DEF x, y, p, q, e, g
  <2>6. p = q /\ e = g
      BY <2>2, <2>3, <2>4, <2>5
  <2>7. x.remediates <=> y.remediates
      BY <2>5, <2>6
  <2>8. x.remediates = y.remediates
      BY <2>2, <2>7
  <2>9. x.action = y.action
      BY <2>6 DEF p, q
  <2>10. x = [action |-> x.action, remediates |-> x.remediates]
      BY <2>1 DEF Advices
  <2>11. y = [action |-> y.action, remediates |-> y.remediates]
      BY <2>1 DEF Advices
  <2>12. x = y
      BY <2>8, <2>9, <2>10, <2>11
  <2> QED
      BY <2>12 DEF x, y
<1> QED
    BY <1>3, <1>4, SameElements DEF m, n

\* compareByContent: members that compare equal make the same claim in the
\* same words, so nothing tells them apart.
LEMMA ContentTells ==
    ASSUME NEW f \in Findings, NEW g \in Findings,
           IdentityOf(f) = IdentityOf(g), sameClaimAs(mergeable(f), mergeable(g)),
           ContentOrder(f) = ContentOrder(g)
    PROVE  f = g
<1> DEFINE a == SortedRefs(f.refs)
           b == SortedRefs(g.refs)
           t == ContentTail(f)
           u == ContentTail(g)
           v == AdviceOrder(f.advice)
           w == AdviceOrder(g.advice)
<1>1. /\ a \in Seq(Nat) /\ t \in Seq(Nat) /\ v \in Seq(Nat)
      /\ b \in Seq(Nat) /\ u \in Seq(Nat) /\ w \in Seq(Nat)
      /\ a \o t \o v = b \o u \o w
    BY ContentOrderFacts
<1>2. /\ Len(t) = 6 /\ Len(u) = 6 /\ t[1] = 0 /\ u[1] = 0
      /\ t[2] = KindOrder(f.kind) /\ t[3] = f.severity /\ t[4] = f.confidence
      /\ t[5] = f.discriminator /\ t[6] = Flag(f.vantage)
      /\ u[2] = KindOrder(g.kind) /\ u[3] = g.severity /\ u[4] = g.confidence
      /\ u[5] = g.discriminator /\ u[6] = Flag(g.vantage)
    BY DEF ContentTail
<1>3. /\ f.refs \in SUBSET (Nat \ {0}) /\ IsFiniteSet(f.refs)
      /\ g.refs \in SUBSET (Nat \ {0}) /\ IsFiniteSet(g.refs)
    BY FindingFields
<1>4. /\ \A x : x \in f.refs <=> \E i \in 1..Len(a) : a[i] = x
      /\ \A x : x \in g.refs <=> \E i \in 1..Len(b) : b[i] = x
  <2>1. f.refs \in SUBSET Nat /\ g.refs \in SUBSET Nat
      BY <1>3
  <2> QED
      BY <1>3, <2>1, SortedRefsFacts
<1>5. (\A i \in 1..Len(a) : a[i] # 0) /\ (\A i \in 1..Len(b) : b[i] # 0)
    BY <1>3, <1>4
<1> HIDE DEF a, b, t, u, v, w
<1>6. Len(a) = Len(b)
  <2> DEFINE p == Len(a)
             q == Len(b)
             s == a \o t \o v
             c == a \o t
             d == b \o u
  <2>1. p \in Nat /\ q \in Nat
      BY <1>1
  <2>2. c \in Seq(Nat) /\ OneAfterTheOther(c, a, t)
      BY <1>1, ConcatPlaces
  <2>3. d \in Seq(Nat) /\ OneAfterTheOther(d, b, u)
      BY <1>1, ConcatPlaces
  <2>4. s = c \o v /\ s = d \o w
      BY <1>1
  <2> HIDE DEF s, c, d
  <2>5. OneAfterTheOther(s, c, v) /\ OneAfterTheOther(s, d, w)
      BY <1>1, <2>2, <2>3, <2>4, ConcatPlaces
  <2>6. /\ Len(c) = p + 6 /\ \A i \in 1..p : c[i] = a[i]
        /\ c[p + 1] = t[1]
      BY <1>2, <2>2 DEF OneAfterTheOther
  <2>7. /\ Len(d) = q + 6 /\ \A i \in 1..q : d[i] = b[i]
        /\ d[q + 1] = u[1]
      BY <1>2, <2>3 DEF OneAfterTheOther
  <2>8. /\ \A i \in 1..Len(c) : s[i] = c[i]
        /\ \A i \in 1..Len(d) : s[i] = d[i]
      BY <2>5 DEF OneAfterTheOther
  <2>9. (\A i \in 1..p : a[i] # 0) /\ (\A i \in 1..q : b[i] # 0)
      BY <1>5
  <2> HIDE DEF p, q
  <2>10. s[p + 1] = 0 /\ \A i \in 1..p : s[i] # 0
    <3>1. \A i \in 1..(p + 1) : s[i] = c[i]
        BY <2>6, <2>8, <2>1
    <3> QED
        BY <1>2, <2>1, <2>6, <2>9, <3>1
  <2>11. s[q + 1] = 0 /\ \A i \in 1..q : s[i] # 0
    <3>1. \A i \in 1..(q + 1) : s[i] = d[i]
        BY <2>7, <2>8, <2>1
    <3> QED
        BY <1>2, <2>1, <2>7, <2>9, <3>1
  <2>12. p = q
      BY <2>1, <2>10, <2>11
  <2> QED
      BY <2>12 DEF p, q
<1>7. a = b /\ t = u /\ v = w
  <2> DEFINE c == a \o t
             d == b \o u
  <2>1. c \in Seq(Nat) /\ OneAfterTheOther(c, a, t) /\ d \in Seq(Nat) /\ OneAfterTheOther(d, b, u)
      BY <1>1, ConcatPlaces
  <2>2. c = d /\ v = w
    <3>1. c \o v = d \o w
        BY <1>1
    <3> HIDE DEF c, d
    <3>2. Len(c) = Len(d)
        BY <1>2, <1>6, <2>1 DEF OneAfterTheOther
    <3> QED
        BY <1>1, <2>1, <3>1, <3>2, SplitConcat
  <2> QED
      BY <1>1, <1>6, <2>2, SplitConcat
<1>8. f.refs = g.refs
  <2>1. \A x : x \in f.refs <=> x \in g.refs
      BY <1>4, <1>7
  <2> QED
      BY <2>1
<1>9. f.advice = g.advice
  <2>1. f.advice \in Seq(Advices) /\ g.advice \in Seq(Advices)
      BY FindingFields
  <2> QED
      BY <1>7, <2>1, AdviceTells DEF v, w
<1>10. /\ f.severity = g.severity /\ f.confidence = g.confidence
       /\ f.discriminator = g.discriminator
       /\ f.kind = g.kind /\ f.vantage = g.vantage
  <2>1. /\ f.kind \in {"CONFIRMED", "HYPOTHESIS"} /\ f.vantage \in BOOLEAN
        /\ g.kind \in {"CONFIRMED", "HYPOTHESIS"} /\ g.vantage \in BOOLEAN
      BY FindingFields
  <2>2. KindOrder(f.kind) = KindOrder(g.kind) /\ Flag(f.vantage) = Flag(g.vantage)
      BY <1>2, <1>7
  <2>3. f.kind = g.kind
      BY <2>1, <2>2 DEF KindOrder
  <2>4. f.vantage <=> g.vantage
      BY <2>2 DEF Flag
  <2>5. f.vantage = g.vantage
      BY <2>1, <2>4
  <2> QED
      BY <1>2, <1>7, <2>3, <2>5
<1>11. f.code = g.code /\ f.subject = g.subject
    BY DEF IdentityOf
<1>12. f.layer = g.layer /\ f.summary = g.summary /\ f.detail = g.detail
    BY DEF sameClaimAs, mergeable
<1>13. f \in FindingInputs /\ g \in FindingInputs
    BY DEF Findings
<1> QED
    BY <1>8, <1>9, <1>10, <1>11, <1>12, <1>13, FieldsDecide

\* Members equal in content are one finding, so members alike come in one order.
LEMMA ByContentAlike ==
    ASSUME NEW g, NEW h, Mergeable(g), Mergeable(h), Alike(g, h)
    PROVE  ByContent(g) = ByContent(h)
<1> DEFINE key == [f \in Findings |-> ContentOrder(f)]
           ks == [i \in DOMAIN g |-> ContentOrder(g[i])]
           kt == [i \in DOMAIN h |-> ContentOrder(h[i])]
<1>1. g \in Seq(Findings) /\ h \in Seq(Findings)
    BY DEF Mergeable
<1>2. /\ DOMAIN g = 1..Len(g) /\ \A i \in 1..Len(g) : g[i] \in Findings
      /\ DOMAIN h = 1..Len(h) /\ \A i \in 1..Len(h) : h[i] \in Findings
    BY <1>1
<1>3. key \in [Findings -> Seq(Nat)]
    BY ContentOrderFacts
<1>4. KeyedBy(g, ks, key) /\ KeyedBy(h, kt, key)
    BY <1>2 DEF KeyedBy
<1>5. TellsApart(key, g)
  <2> SUFFICES ASSUME NEW x \in ToSet(g), NEW y \in ToSet(g), key[x] = key[y] PROVE x = y
      BY DEF TellsApart
  <2>1. PICK i \in DOMAIN g, j \in DOMAIN g : x = g[i] /\ y = g[j]
      BY DEF ToSet
  <2>2. x \in Findings /\ y \in Findings
      BY <1>2, <2>1
  <2>3. ContentOrder(x) = ContentOrder(y)
      BY <2>2
  <2>4. IdentityOf(x) = IdentityOf(y) /\ sameClaimAs(mergeable(x), mergeable(y))
      BY <2>1 DEF Mergeable, Conflicting
  <2> QED
      BY <2>2, <2>3, <2>4, ContentTells
<1>6. ByContent(g) = SortedBy(g, ks) /\ ByContent(h) = SortedBy(h, kt)
    BY DEF ByContent
<1> HIDE DEF key, ks, kt
<1>7. SortedBy(g, ks) = SortedBy(h, kt)
    BY <1>1, <1>3, <1>4, <1>5, AlikeSortTheSame
<1> QED
    BY <1>6, <1>7

\* mergeGroup: nothing of the result depends on which member came first.
LEMMA MergeAlike ==
    ASSUME NEW g, NEW h, Mergeable(g), Mergeable(h), Alike(g, h)
    PROVE  mergeGroup(g) = mergeGroup(h)
<1> DEFINE M == ToSet(g)
           r == g[1]
           q == h[1]
<1>1. g \in Seq(Findings) /\ h \in Seq(Findings) /\ M # {}
    BY DEF Mergeable
<1>2. M = ToSet(h) /\ Len(g) = Len(h)
    BY <1>1, AlikeHoldsTheSame
<1>3. /\ Len(g) \in Nat /\ Len(g) # 0 /\ DOMAIN g = 1..Len(g) /\ DOMAIN h = 1..Len(g)
      /\ 1 \in DOMAIN g /\ 1 \in DOMAIN h
  <2>1. Len(g) \in Nat /\ DOMAIN g = 1..Len(g) /\ DOMAIN h = 1..Len(g)
      BY <1>1, <1>2
  <2>2. Len(g) # 0
      BY <1>1, <2>1 DEF ToSet
  <2> QED
      BY <2>1, <2>2
<1>4. r \in M /\ q \in M /\ r \in Findings /\ q \in Findings
  <2>1. r \in ToSet(g) /\ q \in ToSet(h)
      BY <1>3 DEF ToSet
  <2>2. r \in Findings /\ q \in Findings
      BY <1>1, <1>2, <1>3
  <2> QED
      BY <1>2, <2>1, <2>2
<1>5. /\ r.code = q.code /\ r.subject = q.subject /\ r.layer = q.layer
      /\ r.summary = q.summary /\ r.detail = q.detail
  <2>1. IdentityOf(r) = IdentityOf(q)
      BY <1>4 DEF Mergeable
  <2>2. \A x, y \in M : sameClaimAs(mergeable(x), mergeable(y))
      BY DEF Mergeable, Conflicting, ToSet
  <2>3. sameClaimAs(mergeable(r), mergeable(q))
      BY <1>4, <2>2
  <2> QED
      BY <2>1, <2>3 DEF IdentityOf, sameClaimAs, mergeable
<1>6. CASE Len(g) = 1
  <2>1. M = {r}
      BY <1>3, <1>6 DEF ToSet
  <2>2. r = q
      BY <1>4, <2>1
  <2> QED
      BY <1>2, <1>6, <2>2 DEF mergeGroup
<1>7. CASE Len(g) # 1
  <2> DEFINE kind == MergedKind(g)
             top == Max({f.severity : f \in M})
             sure == Max({f.confidence : f \in M})
             vantage == \E f \in M : f.vantage
             question == IF kind = "CONFIRMED" THEN 0 ELSE Max({f.discriminator : f \in M})
             refs == UNION {f.refs : f \in M}
             advice == AdviceOf(g)
  <2>1. MergedKind(h) = kind
    <3>1. r.kind \in {"CONFIRMED", "HYPOTHESIS"} /\ q.kind \in {"CONFIRMED", "HYPOTHESIS"}
        BY <1>4, FindingFields
    <3>2. CASE \E f \in M : Confirmed(f)
        BY <1>2, <3>2 DEF MergedKind
    <3>3. CASE ~\E f \in M : Confirmed(f)
      <4>1. r.kind = "HYPOTHESIS" /\ q.kind = "HYPOTHESIS"
          BY <1>4, <3>1, <3>3 DEF Confirmed
      <4>2. MergedKind(g) = r.kind
          BY <3>3 DEF MergedKind
      <4>3. MergedKind(h) = q.kind
          BY <1>2, <3>3 DEF MergedKind
      <4> QED
          BY <4>1, <4>2, <4>3
    <3> QED
        BY <3>2, <3>3
  <2>2. AdviceOf(h) = advice
    <3>1. ByContent(g) = ByContent(h)
        BY ByContentAlike
    <3> QED
        BY <3>1 DEF AdviceOf
  <2>3. mergeGroup(g) = [r EXCEPT !.kind = kind, !.severity = top, !.confidence = sure,
                                  !.vantage = vantage, !.discriminator = question,
                                  !.refs = refs, !.advice = advice]
      BY <1>7 DEF mergeGroup
  <2>4. mergeGroup(h) = [q EXCEPT !.kind = kind, !.severity = top, !.confidence = sure,
                                  !.vantage = vantage, !.discriminator = question,
                                  !.refs = refs, !.advice = advice]
      BY <1>2, <1>7, <2>1, <2>2 DEF mergeGroup
  <2>5. r \in FindingInputs /\ q \in FindingInputs
      BY <1>4 DEF Findings
  <2> HIDE DEF M, r, q, kind, top, sure, vantage, question, refs, advice
  <2>6. mergeGroup(g) \in FindingInputs /\ mergeGroup(h) \in FindingInputs
      BY MergedFields DEF Findings
  <2> DEFINE m == mergeGroup(g)
             n == mergeGroup(h)
  <2> HIDE DEF m, n
  <2>7. /\ m.kind = kind /\ m.severity = top /\ m.confidence = sure /\ m.vantage = vantage
        /\ m.discriminator = question /\ m.refs = refs /\ m.advice = advice
        /\ m.code = r.code /\ m.subject = r.subject /\ m.layer = r.layer
        /\ m.summary = r.summary /\ m.detail = r.detail
      BY <2>3, <2>5 DEF FindingInputs, m
  <2>8. /\ n.kind = kind /\ n.severity = top /\ n.confidence = sure /\ n.vantage = vantage
        /\ n.discriminator = question /\ n.refs = refs /\ n.advice = advice
        /\ n.code = q.code /\ n.subject = q.subject /\ n.layer = q.layer
        /\ n.summary = q.summary /\ n.detail = q.detail
      BY <2>4, <2>5 DEF FindingInputs, n
  <2>9. m = n
    <3>1. m \in FindingInputs /\ n \in FindingInputs
        BY <2>6 DEF m, n
    <3>2. /\ m.code = n.code /\ m.subject = n.subject /\ m.layer = n.layer
          /\ m.summary = n.summary /\ m.detail = n.detail
        BY <1>5, <2>7, <2>8
    <3> QED
        BY <2>7, <2>8, <3>1, <3>2, FieldsDecide
  <2> QED
      BY <2>9 DEF m, n
<1> QED
    BY <1>6, <1>7

\* What is alike is told apart by identity, and by key, into parts that are alike.
LEMMA PartsAlike ==
    ASSUME NEW s \in Seq(Findings), NEW t \in Seq(Findings), Alike(s, t)
    PROVE  /\ Identities(s) = Identities(t) /\ IdentityOrder(s) = IdentityOrder(t)
           /\ Keys(s) = Keys(t) /\ Homes(s) = Homes(t) /\ HomeOrder(s) = HomeOrder(t)
           /\ \A id : Alike(OfIdentity(s, id), OfIdentity(t, id))
           /\ \A key : Alike(BucketOf(s, key), BucketOf(t, key))
           /\ \A key : Alike(FoldedInto(s, key), FoldedInto(t, key))
<1>1. ToSet(s) = ToSet(t)
    BY AlikeHoldsTheSame
<1>2. /\ DOMAIN s = 1..Len(s) /\ \A i \in 1..Len(s) : s[i] \in Findings
      /\ DOMAIN t = 1..Len(t) /\ \A i \in 1..Len(t) : t[i] \in Findings
    OBVIOUS
<1>3. Identities(s) = Identities(t) /\ Keys(s) = Keys(t)
  <2>1. \A u : Identities(u) = {IdentityOf(f) : f \in ToSet(u)}
      BY DEF Identities, ToSet
  <2>2. \A u : Keys(u) = {mergeable(f) : f \in ToSet(u)}
      BY DEF Keys, ToSet
  <2> QED
      BY <1>1, <2>1, <2>2
<1>4. IdentityOrder(s) = IdentityOrder(t)
    BY <1>3 DEF IdentityOrder
<1>5. Homes(s) = Homes(t)
    BY <1>3 DEF Homes
<1>6. HomeOrder(s) = HomeOrder(t)
    BY <1>5 DEF HomeOrder
<1>7. ASSUME NEW id PROVE Alike(OfIdentity(s, id), OfIdentity(t, id))
  <2> DEFINE Y == {f \in Findings : IdentityOf(f) = id}
  <2>1. {i \in DOMAIN s : IdentityOf(s[i]) = id} = Standing(s, Y)
      BY <1>2 DEF Standing
  <2>2. {i \in DOMAIN t : IdentityOf(t[i]) = id} = Standing(t, Y)
      BY <1>2 DEF Standing
  <2> HIDE DEF Y
  <2>3. Alike(Where(s, Standing(s, Y)), Where(t, Standing(t, Y)))
      BY WhereAlike
  <2> QED
      BY <2>1, <2>2, <2>3 DEF OfIdentity
<1>8. ASSUME NEW key PROVE Alike(BucketOf(s, key), BucketOf(t, key))
  <2> DEFINE Y == {f \in Findings : mergeable(f) = key}
  <2>1. {i \in DOMAIN s : mergeable(s[i]) = key} = Standing(s, Y)
      BY <1>2 DEF Standing
  <2>2. {i \in DOMAIN t : mergeable(t[i]) = key} = Standing(t, Y)
      BY <1>2 DEF Standing
  <2> HIDE DEF Y
  <2>3. Alike(Where(s, Standing(s, Y)), Where(t, Standing(t, Y)))
      BY WhereAlike
  <2> QED
      BY <2>1, <2>2, <2>3 DEF BucketOf
<1>9. ASSUME NEW key PROVE Alike(FoldedInto(s, key), FoldedInto(t, key))
  <2> DEFINE Y == {f \in Findings : /\ mergeable(f) # key
                                    /\ Home(Keys(s), mergeable(f)) = key}
  <2>1. {i \in DOMAIN s : mergeable(s[i]) # key /\ Home(Keys(s), mergeable(s[i])) = key} =
          Standing(s, Y)
      BY <1>2 DEF Standing
  <2>2. {i \in DOMAIN t : mergeable(t[i]) # key /\ Home(Keys(t), mergeable(t[i])) = key} =
          Standing(t, Y)
      BY <1>2, <1>3 DEF Standing
  <2> HIDE DEF Y
  <2>3. Alike(Where(s, Standing(s, Y)), Where(t, Standing(t, Y)))
      BY WhereAlike
  <2> QED
      BY <2>1, <2>2, <2>3 DEF FoldedInto
<1> QED
    BY <1>3, <1>4, <1>5, <1>6, <1>7, <1>8, <1>9

\* Two sequences of findings that hold the same ones.
SameMembers == {p \in Seq(Findings) \X Seq(Findings) : Alike(p[1], p[2])}

LEMMA PartitionsAlike ==
    ASSUME NEW s \in Seq(Findings), NEW t \in Seq(Findings), Alike(s, t),
           \A f, g \in ToSet(s) : IdentityOf(f) = IdentityOf(g)
    PROVE  LET a == partitionByCompatibility(s)
               b == partitionByCompatibility(t)
           IN  /\ a \in Seq(Seq(Findings)) /\ b \in Seq(Seq(Findings)) /\ Len(a) = Len(b)
               /\ \A n \in 1..Len(a) : <<a[n], b[n]>> \in SameMembers
<1> DEFINE a == partitionByCompatibility(s)
           b == partitionByCompatibility(t)
           N == Cardinality(Homes(s))
           At(u, n) == BucketOf(u, HomeOrder(s)[n]) \o FoldedInto(u, HomeOrder(s)[n])
<1>1. ToSet(s) = ToSet(t)
    BY AlikeHoldsTheSame
<1>2. a \in Seq(Seq(Findings)) /\ b \in Seq(Seq(Findings))
    BY <1>1, PartitionFacts
<1>3. Homes(s) = Homes(t) /\ HomeOrder(s) = HomeOrder(t)
    BY PartsAlike
<1>4. a = [n \in 1..N |-> At(s, n)]
    BY PartitionIs
<1>5. b = [n \in 1..N |-> At(t, n)]
    BY <1>3, PartitionIs
<1>6. N \in Nat
    BY HomesAreListed
<1>7. ASSUME NEW n \in 1..N PROVE <<At(s, n), At(t, n)>> \in SameMembers
  <2> DEFINE key == HomeOrder(s)[n]
  <2> HIDE DEF key
  <2>1. /\ BucketOf(s, key) \in Seq(Findings) /\ FoldedInto(s, key) \in Seq(Findings)
        /\ BucketOf(t, key) \in Seq(Findings) /\ FoldedInto(t, key) \in Seq(Findings)
      BY PartHolds
  <2>2. Alike(BucketOf(s, key), BucketOf(t, key)) /\ Alike(FoldedInto(s, key), FoldedInto(t, key))
      BY PartsAlike
  <2>3. Alike(BucketOf(s, key) \o FoldedInto(s, key), BucketOf(t, key) \o FoldedInto(t, key))
      BY <2>1, <2>2, ConcatAlike
  <2>4. /\ BucketOf(s, key) \o FoldedInto(s, key) \in Seq(Findings)
        /\ BucketOf(t, key) \o FoldedInto(t, key) \in Seq(Findings)
      BY <2>1, ConcatHolds
  <2> QED
      BY <2>3, <2>4 DEF SameMembers, key
<1> HIDE DEF a, b, N, At
<1>8. Len(a) = N /\ Len(b) = N
    BY <1>4, <1>5, <1>6
<1>9. \A n \in 1..N : <<a[n], b[n]>> \in SameMembers
    BY <1>4, <1>5, <1>7
<1> QED
    BY <1>2, <1>8, <1>9 DEF a, b

LEMMA GroupsAlike ==
    ASSUME NEW s \in Seq(Findings), NEW t \in Seq(Findings), Alike(s, t)
    PROVE  /\ Len(GroupsOf(s)) = Len(GroupsOf(t))
           /\ \A j \in 1..Len(GroupsOf(s)) : <<GroupsOf(s)[j], GroupsOf(t)[j]>> \in SameMembers
<1> DEFINE N == Cardinality(Identities(s))
           S(n) == OfIdentity(s, IdentityOrder(s)[n])
           T(n) == OfIdentity(t, IdentityOrder(s)[n])
           a == GroupsByIdentity(s)
           b == GroupsByIdentity(t)
<1>1. Identities(s) = Identities(t) /\ IdentityOrder(s) = IdentityOrder(t)
    BY PartsAlike
<1>2. a = [n \in 1..N |-> partitionByCompatibility(S(n))]
    BY DEF GroupsByIdentity
<1>3. b = [n \in 1..N |-> partitionByCompatibility(T(n))]
    BY <1>1 DEF GroupsByIdentity
<1>4. N \in Nat
    BY IdentitiesAreListed
<1>5. ASSUME NEW n \in 1..N
      PROVE  /\ S(n) \in Seq(Findings) /\ T(n) \in Seq(Findings) /\ Alike(S(n), T(n))
             /\ \A f, g \in ToSet(S(n)) : IdentityOf(f) = IdentityOf(g)
  <2>1. S(n) \in Seq(Findings) /\ \A f, g \in ToSet(S(n)) : IdentityOf(f) = IdentityOf(g)
      BY OfIdentityHolds
  <2>2. T(n) \in Seq(Findings)
      BY OfIdentityHolds
  <2>3. Alike(S(n), T(n))
      BY PartsAlike
  <2> QED
      BY <2>1, <2>2, <2>3
<1> HIDE DEF N, S, T, a, b
<1>6. ASSUME NEW n \in 1..N
      PROVE  /\ a[n] \in Seq(Seq(Findings)) /\ b[n] \in Seq(Seq(Findings))
             /\ Len(a[n]) = Len(b[n])
             /\ \A j \in 1..Len(a[n]) : <<a[n][j], b[n][j]>> \in SameMembers
  <2> DEFINE p == partitionByCompatibility(S(n))
             q == partitionByCompatibility(T(n))
  <2>1. /\ p \in Seq(Seq(Findings)) /\ q \in Seq(Seq(Findings)) /\ Len(p) = Len(q)
        /\ \A j \in 1..Len(p) : <<p[j], q[j]>> \in SameMembers
      BY <1>5, PartitionsAlike
  <2>2. a[n] = p /\ b[n] = q
      BY <1>2, <1>3
  <2> HIDE DEF p, q
  <2> QED
      BY <2>1, <2>2
<1>7. /\ a \in Seq(Seq(Seq(Findings))) /\ b \in Seq(Seq(Seq(Findings)))
      /\ Len(a) = N /\ Len(b) = N
  <2>1. a \in [1..N -> Seq(Seq(Findings))] /\ b \in [1..N -> Seq(Seq(Findings))]
      BY <1>2, <1>3, <1>6
  <2> QED
      BY <1>4, <2>1
<1>8. \A n \in 1..Len(a) : /\ Len(a[n]) = Len(b[n])
                           /\ \A j \in 1..Len(a[n]) : <<a[n][j], b[n][j]>> \in SameMembers
    BY <1>6, <1>7
<1>9. /\ Len(FlattenSeq(a)) = Len(FlattenSeq(b))
      /\ \A j \in 1..Len(FlattenSeq(a)) : <<FlattenSeq(a)[j], FlattenSeq(b)[j]>> \in SameMembers
    BY <1>7, <1>8, FlattenPairs
<1>10. GroupsOf(s) = FlattenSeq(a) /\ GroupsOf(t) = FlattenSeq(b)
    BY GroupsAre DEF a, b
<1> QED
    BY <1>9, <1>10

LEMMA ConvergeAlike ==
    ASSUME NEW s \in Seq(Findings), NEW t \in Seq(Findings), Alike(s, t)
    PROVE  Converge(s) = Converge(t)
<1> DEFINE g == GroupsOf(s)
           h == GroupsOf(t)
           a == [n \in DOMAIN g |-> mergeGroup(g[n])]
           b == [n \in DOMAIN h |-> mergeGroup(h[n])]
<1>1. /\ g \in Seq(Seq(Findings)) /\ \A group \in ToSet(g) : Mergeable(group)
      /\ h \in Seq(Seq(Findings)) /\ \A group \in ToSet(h) : Mergeable(group)
    BY GroupsFacts
<1>2. Len(g) = Len(h) /\ \A j \in 1..Len(g) : <<g[j], h[j]>> \in SameMembers
    BY GroupsAlike
<1>3. Converge(s) = SortFindings(a) /\ Converge(t) = SortFindings(b)
    BY DEF Converge
<1> HIDE DEF g, h
<1>4. DOMAIN g = 1..Len(g) /\ DOMAIN h = 1..Len(g)
    BY <1>1, <1>2
<1>5. ASSUME NEW j \in 1..Len(g) PROVE mergeGroup(g[j]) = mergeGroup(h[j])
  <2>1. g[j] \in ToSet(g) /\ h[j] \in ToSet(h)
      BY <1>4 DEF ToSet
  <2>2. Mergeable(g[j]) /\ Mergeable(h[j])
      BY <1>1, <2>1
  <2>3. Alike(g[j], h[j])
    <3>1. <<g[j], h[j]>> \in SameMembers
        BY <1>2
    <3> QED
        BY <3>1 DEF SameMembers
  <2> QED
      BY <2>2, <2>3, MergeAlike
<1>6. a = b
    BY <1>4, <1>5
<1> QED
    BY <1>3, <1>6

LEMMA RearrangedIsAlike ==
    ASSUME NEW A, NEW s \in Seq(A), NEW t \in Rearranged(s)
    PROVE  t \in Seq(A) /\ Alike(s, t)
<1> DEFINE D == 1..Len(s)
<1>1. Len(s) \in Nat /\ DOMAIN s = D
    OBVIOUS
<1>2. 1..Cardinality(DOMAIN s) = D
  <2>0. 1 \in Int /\ Len(s) \in Int
      BY <1>1
  <2>1. Cardinality(1..Len(s)) = IF 1 > Len(s) THEN 0 ELSE Len(s) - 1 + 1
      BY ONLY <2>0, FS_Interval
  <2>2. Cardinality(D) = Len(s)
      BY <1>1, <2>1
  <2> QED
      BY <1>1, <2>2
<1>3. PICK p \in SetToSeqs(DOMAIN s) : t = [i \in DOMAIN s |-> s[p[i]]]
    BY DEF Rearranged
<1>4. p \in [D -> D] /\ \A i, j \in D : i # j => p[i] # p[j]
    BY <1>1, <1>2 DEF SetToSeqs
<1>5. t = [i \in D |-> s[p[i]]]
    BY <1>1, <1>3
<1>6. t \in Seq(A) /\ Alike(t, s)
    BY <1>4, <1>5, PermutedIsAlike
<1> QED
    BY <1>6 DEF Alike

\* Converge: "The result is the same for any input order".
THEOREM ConvergenceIgnoresOrder == EngineSpec => []OrderDecidesNothing
<1>1. EngineInv => OrderDecidesNothing
  <2> SUFFICES ASSUME EngineInv, engine = "done", findings # <<>>,
                      NEW s \in Rearranged(produced)
               PROVE  Converge(s) = findings
      BY DEF OrderDecidesNothing
  <2>1. produced \in Seq(Findings) /\ findings = Converge(produced)
      BY OutcomeFacts
  <2>2. s \in Seq(Findings) /\ Alike(produced, s)
      BY <2>1, RearrangedIsAlike
  <2> QED
      BY <2>1, <2>2, ConvergeAlike
<1> QED
    BY <1>1, EngineInvariant, PTL

-----------------------------------------------------------------------------
(* Redaction, for any runs: a value has one pseudonym across the run, and   *)
(* each report counts its own.                                             *)

LEMMA SubSeqHolds ==
    ASSUME NEW s \in Seq(Nat), NEW m \in 1..(Len(s) + 1), NEW n \in 0..Len(s)
    PROVE  /\ SubSeq(s, m, n) \in Seq(Nat)
           /\ Len(SubSeq(s, m, n)) = IF m <= n THEN n - m + 1 ELSE 0
           /\ \A i \in 1..(n - m + 1) : SubSeq(s, m, n)[i] = s[m + i - 1]
<1>1. \A i \in m..n : s[i] \in Nat
    OBVIOUS
<1>2. m \in Int /\ n \in Int
    OBVIOUS
<1> DEFINE t == SubSeq(s, m, n)
<1>3. /\ t \in Seq(Nat) /\ Len(t) = IF m <= n THEN n - m + 1 ELSE 0
      /\ \A i \in 1 .. n - m + 1 : t[i] = s[m + i - 1]
    BY ONLY <1>1, <1>2, SubSeqProperties
<1> QED
    BY <1>3

LEMMA PrefixIsWithin ==
    ASSUME NEW s \in Seq(Nat), NEW n \in 0..Len(s)
    PROVE  SubSeq(s, 1, n) \in SubSeqs(s)
<1>1. 0 \in 0..Len(s) /\ 0 + 1 = 1
    OBVIOUS
<1>2. \E i, j \in 0..Len(s) : SubSeq(s, 1, n) = SubSeq(s, i + 1, j)
    BY <1>1
<1> QED
    BY <1>2 DEF SubSeqs

LEMMA WholeIsWithin ==
    ASSUME NEW s \in Seq(Nat)
    PROVE  s \in SubSeqs(s)
<1> DEFINE t == SubSeq(s, 1, Len(s))
<1>1. t \in Seq(Nat) /\ Len(t) = Len(s) /\ \A i \in 1..Len(s) : t[i] = s[i]
    BY SubSeqHolds
<1>2. t \in SubSeqs(s)
    BY PrefixIsWithin
<1> HIDE DEF t
<1>3. t = s
    BY <1>1, SameElements
<1> QED
    BY <1>2, <1>3

\* A reference is a host, or a host and a port that begins at its only colon.
Colons(ref) == {i \in 1..Len(ref) : ref[i] = Colon}
OneColon(ref) == Cardinality(Colons(ref)) = 1

LEMMA ColonsAreFinite ==
    ASSUME NEW ref \in Seq(Nat)
    PROVE  /\ IsFiniteSet(Colons(ref))
           /\ OneColon(ref) <=> \E colon \in 1..Len(ref) : Colons(ref) = {colon}
<1>1. IsFiniteSet(1..Len(ref))
    BY FS_Interval
<1>2. Colons(ref) \in SUBSET (1..Len(ref))
    BY DEF Colons
<1>3. IsFiniteSet(Colons(ref))
    BY <1>1, <1>2, FS_Subset
<1>4. OneColon(ref) <=> \E colon : Colons(ref) = {colon}
    BY <1>3, FS_Singleton DEF OneColon
<1> QED
    BY <1>2, <1>3, <1>4

LEMMA WithoutAPort ==
    ASSUME NEW ref \in Seq(Nat), ~OneColon(ref)
    PROVE  /\ endpointParts(ref).host = ref
           /\ endpointParts(ref).port = <<>> /\ endpointParts(ref).hasPort = FALSE
  BY DEF endpointParts, OneColon, Colons

\* What stands before the colon, and what stands from it on.
LEMMA WithAPort ==
    ASSUME NEW ref \in Seq(Nat), NEW colon \in 1..Len(ref), Colons(ref) = {colon}
    PROVE  /\ endpointParts(ref).host = SubSeq(ref, 1, colon - 1)
           /\ endpointParts(ref).port = SubSeq(ref, colon, Len(ref))
           /\ endpointParts(ref).hasPort = TRUE
<1>1. OneColon(ref)
    BY ColonsAreFinite
<1>2. (CHOOSE i \in Colons(ref) : TRUE) = colon
    OBVIOUS
<1>3. endpointParts(ref) = [host |-> SubSeq(ref, 1, colon - 1),
                            port |-> SubSeq(ref, colon, Len(ref)), hasPort |-> TRUE]
    BY <1>1, <1>2 DEF endpointParts, OneColon, Colons
<1> QED
    BY <1>3

\* A port holds its colon and no other; none is left in the host.
LEMMA EndpointFacts ==
    ASSUME NEW ref \in Seq(Nat)
    PROVE  /\ endpointParts(ref).host \in Seq(Nat) /\ endpointParts(ref).port \in Seq(Nat)
           /\ ~OneColon(endpointParts(ref).host)
           /\ endpointParts(ref).hasPort <=> OneColon(ref)
           /\ ~OneColon(ref) => endpointParts(ref).host = ref /\ endpointParts(ref).port = <<>>
           /\ OneColon(ref) =>
                /\ Len(endpointParts(ref).port) >= 1
                /\ endpointParts(ref).port[1] = Colon
                /\ \A i \in 2..Len(endpointParts(ref).port) : endpointParts(ref).port[i] # Colon
           /\ endpointParts(ref).host \in SubSeqs(ref)
<1>1. CASE ~OneColon(ref)
  <2>1. /\ endpointParts(ref).host = ref
        /\ endpointParts(ref).port = <<>> /\ endpointParts(ref).hasPort = FALSE
      BY <1>1, WithoutAPort
  <2>2. ref \in SubSeqs(ref)
      BY WholeIsWithin
  <2> QED
      BY <1>1, <2>1, <2>2
<1>2. CASE OneColon(ref)
  <2>1. PICK colon \in 1..Len(ref) : Colons(ref) = {colon}
      BY <1>2, ColonsAreFinite
  <2> DEFINE h == SubSeq(ref, 1, colon - 1)
             p == SubSeq(ref, colon, Len(ref))
  <2>2. /\ endpointParts(ref).host = h /\ endpointParts(ref).port = p
        /\ endpointParts(ref).hasPort = TRUE
      BY <2>1, WithAPort
  <2>3. /\ ref[colon] = Colon
        /\ \A i \in 1..Len(ref) : i # colon => ref[i] # Colon
      BY <2>1 DEF Colons
  <2>4. h \in Seq(Nat) /\ Len(h) = colon - 1 /\ \A i \in 1..(colon - 1) : h[i] = ref[i]
    <3>1. 1 \in 1..(Len(ref) + 1) /\ colon - 1 \in 0..Len(ref)
        OBVIOUS
    <3>2. /\ h \in Seq(Nat) /\ Len(h) = IF 1 <= colon - 1 THEN colon - 1 - 1 + 1 ELSE 0
          /\ \A i \in 1..(colon - 1 - 1 + 1) : h[i] = ref[1 + i - 1]
        BY <3>1, SubSeqHolds
    <3> HIDE DEF h
    <3> QED
        BY <3>2
  <2>5. /\ p \in Seq(Nat) /\ Len(p) = Len(ref) - colon + 1
        /\ \A i \in 1..(Len(ref) - colon + 1) : p[i] = ref[colon + i - 1]
    <3>1. colon \in 1..(Len(ref) + 1) /\ Len(ref) \in 0..Len(ref) /\ colon <= Len(ref)
        OBVIOUS
    <3>2. /\ p \in Seq(Nat) /\ Len(p) = IF colon <= Len(ref) THEN Len(ref) - colon + 1 ELSE 0
          /\ \A i \in 1..(Len(ref) - colon + 1) : p[i] = ref[colon + i - 1]
        BY <3>1, SubSeqHolds
    <3> HIDE DEF p
    <3> QED
        BY <3>1, <3>2
  <2>6. h \in SubSeqs(ref)
    <3>1. colon - 1 \in 0..Len(ref)
        OBVIOUS
    <3> QED
        BY <3>1, PrefixIsWithin
  <2> DEFINE m == Len(ref)
  <2>10. m \in Nat /\ colon \in 1..m
      OBVIOUS
  <2>11. /\ \A i \in 1..m : i # colon => ref[i] # Colon
         /\ Len(p) = m - colon + 1 /\ \A i \in 1..(m - colon + 1) : p[i] = ref[colon + i - 1]
      BY <2>3, <2>5
  <2> HIDE DEF h, p, m
  <2>7. \A i \in 1..Len(h) : h[i] # Colon
    <3> SUFFICES ASSUME NEW i \in 1..(colon - 1) PROVE h[i] # Colon
        BY <2>4
    <3>1. i \in 1..m /\ i # colon
        BY <2>10
    <3> QED
        BY <2>4, <2>11, <3>1
  <2>8. ~OneColon(h)
    <3>1. Colons(h) = {}
        BY <2>7 DEF Colons
    <3> QED
        BY <2>4, <3>1, ColonsAreFinite
  <2>9. Len(p) >= 1 /\ p[1] = Colon /\ \A i \in 2..Len(p) : p[i] # Colon
    <3>1. Len(p) >= 1 /\ 1 \in 1..(m - colon + 1) /\ colon + 1 - 1 = colon
        BY <2>10, <2>11
    <3>2. p[1] = Colon
        BY <2>3, <2>11, <3>1
    <3>3. ASSUME NEW i \in 2..Len(p) PROVE p[i] # Colon
      <4>1. i \in 1..(m - colon + 1) /\ colon + i - 1 \in 1..m /\ colon + i - 1 # colon
          BY <2>10, <2>11
      <4> QED
          BY <2>11, <4>1
    <3> QED
        BY <3>1, <3>2, <3>3
  <2> QED
      BY <1>2, <2>2, <2>4, <2>5, <2>6, <2>8, <2>9
<1> QED
    BY <1>1, <1>2

\* A pseudonym put before the port is read back as the host.
LEMMA PseudonymIsTheHost ==
    ASSUME NEW ref \in Seq(Nat), NEW c \in Nat \ {0}, NEW d \in Nat \ {0}
    PROVE  endpointParts(<<c, d>> \o endpointParts(ref).port).host = <<c, d>>
<1> DEFINE port == endpointParts(ref).port
           new == <<c, d>> \o port
<1>1. port \in Seq(Nat)
    BY EndpointFacts
<1> HIDE DEF port
<1>2. <<c, d>> \in Seq(Nat) /\ Len(<<c, d>>) = 2
    OBVIOUS
<1>3. new \in Seq(Nat) /\ OneAfterTheOther(new, <<c, d>>, port)
    BY <1>1, <1>2, ConcatPlaces
<1> HIDE DEF new
<1>4. /\ Len(new) = 2 + Len(port) /\ new[1] = c /\ new[2] = d
      /\ \A i \in 1..Len(port) : new[2 + i] = port[i]
    BY <1>2, <1>3 DEF OneAfterTheOther
<1>5. Len(port) \in Nat
    BY <1>1
<1>6. CASE OneColon(ref)
  <2>1. Len(port) >= 1 /\ port[1] = Colon /\ \A i \in 2..Len(port) : port[i] # Colon
      BY <1>6, EndpointFacts DEF port
  <2>2. new[3] = Colon /\ 3 \in 1..Len(new)
      BY <1>4, <1>5, <2>1
  <2>3. ASSUME NEW i \in 1..Len(new), i # 3 PROVE new[i] # Colon
    <3>1. CASE i <= 2
        BY <1>4, <1>5, <3>1 DEF Colon
    <3>2. CASE i > 3
      <4> DEFINE j == i - 2
      <4>1. j \in 2..Len(port) /\ j \in 1..Len(port) /\ 2 + j = i
          BY <1>4, <1>5, <3>2
      <4> HIDE DEF j
      <4>2. new[2 + j] = port[j] /\ port[j] # Colon
          BY <1>4, <2>1, <4>1
      <4> QED
          BY <4>1, <4>2
    <3> QED
        BY <1>4, <1>5, <2>3, <3>1, <3>2
  <2>4. Colons(new) = {3}
      BY <2>2, <2>3 DEF Colons
  <2>5. endpointParts(new).host = SubSeq(new, 1, 3 - 1)
      BY <1>3, <2>2, <2>4, WithAPort
  <2>6. SubSeq(new, 1, 2) = <<c, d>>
    <3> DEFINE t == SubSeq(new, 1, 2)
    <3>1. t \in Seq(Nat) /\ Len(t) = 2 /\ \A i \in 1..2 : t[i] = new[i]
      <4>1. 1 \in 1..(Len(new) + 1) /\ 2 \in 0..Len(new)
          BY <2>2
      <4>2. /\ t \in Seq(Nat) /\ Len(t) = IF 1 <= 2 THEN 2 - 1 + 1 ELSE 0
            /\ \A i \in 1..(2 - 1 + 1) : t[i] = new[1 + i - 1]
          BY <1>3, <4>1, SubSeqHolds
      <4> HIDE DEF t
      <4> QED
          BY <4>2
    <3> HIDE DEF t
    <3>2. \A i \in 1..Len(t) : t[i] = <<c, d>>[i]
        BY <1>4, <3>1
    <3>3. t = <<c, d>>
        BY <1>2, <3>1, <3>2, SameElements
    <3> QED
        BY <3>3 DEF t
  <2>7. 3 - 1 = 2
      OBVIOUS
  <2> QED
      BY <2>5, <2>6, <2>7 DEF new, port
<1>7. CASE ~OneColon(ref)
  <2>1. port = <<>>
      BY <1>7, EndpointFacts DEF port
  <2>2. new = <<c, d>>
      BY <1>2, <2>1 DEF new
  <2>3. Colons(new) = {}
      BY <1>2, <2>2 DEF Colons, Colon
  <2>4. ~OneColon(new)
      BY <1>3, <2>3, ColonsAreFinite
  <2>5. endpointParts(new).host = new
      BY <1>3, <2>4, WithoutAPort
  <2> QED
      BY <2>2, <2>5 DEF new, port
<1> QED
    BY <1>6, <1>7

-----------------------------------------------------------------------------
(* The table.                                                              *)

LEMMA AssignFacts ==
    ASSUME NEW values \in SUBSET Seq(Nat), IsFiniteSet(values), NEW category
    PROVE  /\ DOMAIN assign(values, category) = values
           /\ \A v \in values : \E d \in Nat \ {0} : assign(values, category)[v] = <<category, d>>
           /\ \A v, w \in values :
                assign(values, category)[v] = assign(values, category)[w] => v = w
<1> DEFINE order == Ranked(values, ByFields(values))
           C == Cardinality(values)
           number == [v \in values |-> CHOOSE i \in DOMAIN order : order[i] = v]
<1>1. TotalOrder(values, ByFields(values))
    BY ByFieldsIsTotal
<1>2. /\ C \in Nat /\ order \in [1..C -> values]
      /\ \A v \in values : \E n \in 1..C : order[n] = v
    BY <1>1, RankedLists
<1>3. assign(values, category) = [v \in values |-> <<category, number[v]>>]
    BY DEF assign
<1>4. number = [v \in values |-> CHOOSE i \in DOMAIN order : order[i] = v]
    OBVIOUS
<1> HIDE DEF order, C, number
<1>5. ASSUME NEW v \in values PROVE number[v] \in 1..C /\ order[number[v]] = v
  <2>1. \E i \in DOMAIN order : order[i] = v
      BY <1>2
  <2>2. number[v] = CHOOSE i \in DOMAIN order : order[i] = v
      BY <1>4
  <2>3. number[v] \in DOMAIN order /\ order[number[v]] = v
      BY <2>1, <2>2
  <2> QED
      BY <1>2, <2>3
<1>6. DOMAIN assign(values, category) = values
    BY <1>3
<1>7. ASSUME NEW v \in values PROVE assign(values, category)[v] = <<category, number[v]>>
    BY <1>3
<1>8. \A v \in values : number[v] \in Nat \ {0}
    BY <1>2, <1>5
<1>9. ASSUME NEW v \in values, NEW w \in values,
             assign(values, category)[v] = assign(values, category)[w]
      PROVE  v = w
  <2>1. number[v] = number[w]
      BY <1>7, <1>9
  <2> QED
      BY <1>5, <2>1
<1> QED
    BY <1>6, <1>7, <1>8, <1>9

\* What collect may find.
Finds == Namespaces \X Seq(Nat)

LEMMA TableFacts ==
    ASSUME NEW found \in SUBSET Finds, IsFiniteSet(found), NEW ns \in Namespaces
    PROVE  /\ \A v : knows(newTable(found), ns, v) <=> <<ns, v>> \in found
           /\ \A v : <<ns, v>> \in found =>
                \E d \in Nat \ {0} : newTable(found)[ns][v] = <<Category[ns], d>>
           /\ \A v, w : <<ns, v>> \in found /\ <<ns, w>> \in found
                /\ newTable(found)[ns][v] = newTable(found)[ns][w] => v = w
<1> DEFINE here == {g \in found : g[1] = ns}
           values == {f[2] : f \in here}
           second == [f \in found |-> f[2]]
<1>1. \A v : v \in values <=> <<ns, v>> \in found
  <2>1. \A f \in found : f = <<f[1], f[2]>>
      BY DEF Finds
  <2> QED
      BY <2>1
<1>2. values \in SUBSET Seq(Nat)
    BY DEF Finds
<1>3. IsFiniteSet(values)
  <2>1. IsFiniteSet(here)
      BY FS_Subset
  <2> DEFINE g == [f \in here |-> f[2]]
  <2>2. g \in Surjection(here, values)
      BY DEF Surjection
  <2> HIDE DEF g, here, values
  <2> QED
      BY <2>1, <2>2, FS_Surjection
<1>4. newTable(found)[ns] = assign(values, Category[ns])
    BY DEF newTable
<1> HIDE DEF values, here
<1>5. /\ DOMAIN assign(values, Category[ns]) = values
      /\ \A v \in values : \E d \in Nat \ {0} :
            assign(values, Category[ns])[v] = <<Category[ns], d>>
      /\ \A v, w \in values :
            assign(values, Category[ns])[v] = assign(values, Category[ns])[w] => v = w
    BY <1>2, <1>3, AssignFacts
<1> QED
    BY <1>1, <1>4, <1>5 DEF knows

-----------------------------------------------------------------------------
(* Fields.                                                                 *)

Fields == [kind : FieldKinds, text : Seq(Nat)]

NamespaceOf(host) == IF IsAddr(host) THEN "ips" ELSE "hosts"

\* The host is what a reference is collected for, when it names one.
PeerOf(s) == <<NamespaceOf(endpointParts(s).host), endpointParts(s).host>>

LEMMA ClassifyIs ==
    ASSUME NEW s
    PROVE  classifyRef(s) = IF endpointParts(s).host = <<>> THEN {} ELSE {PeerOf(s)}
  BY DEF classifyRef, PeerOf, NamespaceOf

\* What was found in a run: no peer with a port, and nothing empty.
WellFound(found) ==
    /\ found \in SUBSET Finds /\ IsFiniteSet(found)
    /\ \A f \in found : f[1] \in {"hosts", "ips"} =>
         f[1] = NamespaceOf(f[2]) /\ f[2] # <<>> /\ ~OneColon(f[2])
    /\ \A f \in found : f[1] = "identities" => f[2] # <<>>

\* One value of a field, or none.
LEMMA CollectFieldFacts ==
    ASSUME NEW field \in Fields
    PROVE  /\ WellFound(collectField(field))
           /\ field.kind \in {"ref", "host"} /\ endpointParts(field.text).host # <<>> =>
                PeerOf(field.text) \in collectField(field)
           /\ field.kind = "identity" /\ field.text # <<>> =>
                <<"identities", field.text>> \in collectField(field)
           /\ field.kind = "id" => <<"ids", field.text>> \in collectField(field)
           /\ field.kind \in {"ref", "host"} => collectField(field) = classifyRef(field.text)
           /\ field.kind = "identity" =>
                collectField(field) \subseteq {<<"identities", field.text>>}
           /\ field.kind = "id" => collectField(field) = {<<"ids", field.text>>}
           /\ field.kind = "string" => collectField(field) \in {{}, classifyRef(field.text)}
           /\ field.kind \in {"prose", "message"} => collectField(field) = {}
<1> DEFINE s == field.text
           h == endpointParts(s).host
<1>1. s \in Seq(Nat) /\ field.kind \in FieldKinds
    BY DEF Fields
<1>2. h \in Seq(Nat) /\ ~OneColon(h)
    BY <1>1, EndpointFacts
<1>3. WellFound(classifyRef(s))
  <2>1. CASE h = <<>>
    <3>1. classifyRef(s) = {}
        BY <2>1, ClassifyIs
    <3> QED
        BY <3>1, FS_EmptySet DEF WellFound
  <2>2. CASE h # <<>>
    <3>1. classifyRef(s) = {<<NamespaceOf(h), h>>}
        BY <2>2, ClassifyIs DEF PeerOf
    <3>2. NamespaceOf(h) \in {"hosts", "ips"} /\ NamespaceOf(h) \in Namespaces
        BY DEF NamespaceOf, Namespaces
    <3> HIDE DEF h, s
    <3>3. IsFiniteSet(classifyRef(s))
        BY <3>1, FS_Singleton
    <3>4. classifyRef(s) \in SUBSET Finds
        BY <1>2, <3>1, <3>2 DEF Finds
    <3> QED
        BY <1>2, <2>2, <3>1, <3>2, <3>3, <3>4 DEF WellFound
  <2> QED
      BY <2>1, <2>2
<1>4. WellFound({})
    BY FS_EmptySet DEF WellFound
<1>5. ASSUME NEW ns \in {"identities", "ids"}, s # <<>> \/ ns = "ids"
      PROVE  WellFound({<<ns, s>>})
  <2>1. <<ns, s>> \in Finds
      BY <1>1 DEF Finds, Namespaces
  <2>2. IsFiniteSet({<<ns, s>>})
      BY FS_Singleton
  <2> QED
      BY <1>5, <2>1, <2>2 DEF WellFound
<1>6. CASE field.kind \in {"ref", "host"}
  <2>1. collectField(field) = classifyRef(s)
      BY <1>6 DEF collectField
  <2> QED
      BY <1>3, <1>6, <2>1, ClassifyIs
<1>7. CASE field.kind = "identity"
  <2>1. collectField(field) = IF s = <<>> THEN {} ELSE {<<"identities", s>>}
      BY <1>7 DEF collectField
  <2> QED
      BY <1>4, <1>5, <1>7, <2>1
<1>8. CASE field.kind = "id"
  <2>1. collectField(field) = {<<"ids", s>>}
      BY <1>8 DEF collectField
  <2> QED
      BY <1>5, <1>8, <2>1
<1>9. CASE field.kind = "string"
  <2>1. collectField(field) = classifyRef(s) \/ collectField(field) = {}
      BY <1>9 DEF collectField
  <2> QED
      BY <1>3, <1>4, <1>9, <2>1
<1>10. CASE field.kind \in {"prose", "message"}
  <2>1. collectField(field) = {}
      BY <1>10 DEF collectField
  <2> QED
      BY <1>4, <1>10, <2>1
<1> QED
    BY <1>1, <1>6, <1>7, <1>8, <1>9, <1>10 DEF FieldKinds

LEMMA UnionIsWellFound ==
    ASSUME NEW S, IsFiniteSet(S), \A found \in S : WellFound(found)
    PROVE  WellFound(UNION S)
<1>1. \A found \in S : IsFiniteSet(found)
    BY DEF WellFound
<1>2. IsFiniteSet(UNION S)
    BY <1>1, FS_UNION
<1> QED
    BY <1>2 DEF WellFound

LEMMA CollectFacts ==
    ASSUME NEW fields \in Seq(Fields)
    PROVE  /\ WellFound(collect(fields))
           /\ \A i \in 1..Len(fields) : collectField(fields[i]) \subseteq collect(fields)
<1> DEFINE value == [f \in Fields |-> collectField(f)]
           S == {collectField(fields[i]) : i \in 1..Len(fields)}
<1>1. DOMAIN fields = 1..Len(fields) /\ \A i \in 1..Len(fields) : fields[i] \in Fields
    OBVIOUS
<1>2. IsFiniteSet(S)
  <2>1. IsFiniteSet({value[fields[i]] : i \in DOMAIN fields})
    <3> HIDE DEF value
    <3> QED
        BY KeysAreFinite
  <2>2. {value[fields[i]] : i \in DOMAIN fields} = S
      BY <1>1
  <2> QED
      BY <2>1, <2>2
<1>3. \A found \in S : WellFound(found)
    BY <1>1, CollectFieldFacts
<1>4. collect(fields) = UNION S
    BY DEF collect
<1>5. \A i \in 1..Len(fields) : collectField(fields[i]) \in S
    OBVIOUS
<1> HIDE DEF S
<1> QED
    BY <1>2, <1>3, <1>4, <1>5, UnionIsWellFound

LEMMA ResultFields ==
    ASSUME NEW results \in Seq(Results), NEW n \in 1..Len(results)
    PROVE  results[n].fields \in Seq(Fields)
<1>1. results[n] \in Results
    OBVIOUS
<1> QED
    BY <1>1 DEF Results, Fields

\* One table serves every report of a run: what is in any of them is found.
LEMMA CollectRunFacts ==
    ASSUME NEW results \in Seq(Results)
    PROVE  /\ WellFound(collectRun(results))
           /\ \A n \in 1..Len(results) : \A i \in 1..Len(results[n].fields) :
                collectField(results[n].fields[i]) \subseteq collectRun(results)
<1> DEFINE value == [r \in Results |-> collect(r.fields)]
           S == {collect(results[n].fields) : n \in 1..Len(results)}
<1>1. DOMAIN results = 1..Len(results) /\ \A n \in 1..Len(results) : results[n] \in Results
    OBVIOUS
<1>2. IsFiniteSet(S)
  <2>1. IsFiniteSet({value[results[n]] : n \in DOMAIN results})
    <3> HIDE DEF value
    <3> QED
        BY KeysAreFinite
  <2>2. {value[results[n]] : n \in DOMAIN results} = S
      BY <1>1
  <2> QED
      BY <2>1, <2>2
<1>3. \A n \in 1..Len(results) :
         /\ WellFound(collect(results[n].fields))
         /\ \A i \in 1..Len(results[n].fields) :
              collectField(results[n].fields[i]) \subseteq collect(results[n].fields)
    BY ResultFields, CollectFacts
<1>4. collectRun(results) = UNION S
    BY DEF collectRun
<1>5. \A n \in 1..Len(results) : collect(results[n].fields) \in S
    OBVIOUS
<1>6. \A found \in S : WellFound(found)
    BY <1>3
<1> HIDE DEF S
<1>7. WellFound(UNION S)
    BY <1>2, <1>6, UnionIsWellFound
<1> QED
    BY <1>3, <1>4, <1>5, <1>7

-----------------------------------------------------------------------------
(* Looking up.                                                             *)

\* Nothing is looked up, or a value that was found and that stands in the text.
LooksUp(found, s, l) ==
    \/ l = Unknown
    \/ /\ l.ns \in Namespaces /\ l # Unknown
       /\ <<l.ns, l.value>> \in found /\ Holds(s, l.value)

LEMMA InFacts ==
    ASSUME NEW found, WellFound(found), NEW s \in Seq(Nat), NEW ns \in Namespaces,
           NEW v, NEW port, <<ns, v>> \in found, v \in SubSeqs(s), v # <<>> \/ ns # "ids"
    PROVE  LooksUp(found, s, In(ns, v, port))
<1>1. v # <<>>
    BY DEF WellFound, Namespaces
<1>2. In(ns, v, port).ns = ns /\ In(ns, v, port).value = v
    BY DEF In
<1>3. In(ns, v, port) # Unknown
    BY <1>2 DEF Unknown, Namespaces
<1> QED
    BY <1>1, <1>2, <1>3 DEF LooksUp, Holds

LEMMA EndpointRefFacts ==
    ASSUME NEW found, WellFound(found), NEW s \in Seq(Nat)
    PROVE  /\ LooksUp(found, s, endpointRef(newTable(found), s))
           /\ endpointParts(s).host = <<>> => endpointRef(newTable(found), s) = Unknown
           /\ endpointParts(s).host # <<>> /\ PeerOf(s) \in found =>
                endpointRef(newTable(found), s) =
                  In(NamespaceOf(endpointParts(s).host), endpointParts(s).host, endpointParts(s).port)
<1> DEFINE t == newTable(found)
           h == endpointParts(s).host
           ns == NamespaceOf(h)
<1>1. found \in SUBSET Finds /\ IsFiniteSet(found)
    BY DEF WellFound
<1>2. ns \in Namespaces /\ ns # "ids"
    BY DEF NamespaceOf, Namespaces
<1>3. h \in SubSeqs(s)
    BY EndpointFacts
<1>4. \A v : knows(t, ns, v) <=> <<ns, v>> \in found
    BY <1>1, <1>2, TableFacts
<1>5. endpointRef(t, s) =
        IF h # <<>> /\ knows(t, ns, h) THEN In(ns, h, endpointParts(s).port) ELSE Unknown
    BY DEF endpointRef, NamespaceOf
<1>6. PeerOf(s) = <<ns, h>>
    BY DEF PeerOf
<1>7. CASE h # <<>> /\ <<ns, h>> \in found
  <2>1. endpointRef(t, s) = In(ns, h, endpointParts(s).port)
      BY <1>4, <1>5, <1>7
  <2>2. LooksUp(found, s, In(ns, h, endpointParts(s).port))
      BY <1>2, <1>3, <1>7, InFacts
  <2> QED
      BY <1>7, <2>1, <2>2
<1>8. CASE ~(h # <<>> /\ <<ns, h>> \in found)
  <2>1. endpointRef(t, s) = Unknown
      BY <1>4, <1>5, <1>8
  <2> QED
      BY <1>6, <1>8, <2>1 DEF LooksUp
<1> QED
    BY <1>7, <1>8

\* attrValue: a peer is found whole or without its port, and as nothing else.
LEMMA AttrValueFacts ==
    ASSUME NEW found, WellFound(found), NEW s \in Seq(Nat)
    PROVE  /\ LooksUp(found, s, attrValue(newTable(found), s))
           /\ endpointParts(s).host # <<>> /\ PeerOf(s) \in found =>
                attrValue(newTable(found), s) =
                  In(NamespaceOf(endpointParts(s).host), endpointParts(s).host, endpointParts(s).port)
<1> DEFINE t == newTable(found)
           p == endpointParts(s)
<1>1. found \in SUBSET Finds /\ IsFiniteSet(found)
    BY DEF WellFound
<1>2. \A ns \in Namespaces : \A v : knows(t, ns, v) <=> <<ns, v>> \in found
    BY <1>1, TableFacts
<1>3. /\ "ips" \in Namespaces /\ "hosts" \in Namespaces /\ "identities" \in Namespaces
      /\ "ips" # "ids" /\ "hosts" # "ids" /\ "identities" # "ids"
    BY DEF Namespaces
<1>4. p.host \in SubSeqs(s) /\ s \in SubSeqs(s)
    BY EndpointFacts, WholeIsWithin
<1>5. /\ p.hasPort <=> OneColon(s)
      /\ ~OneColon(s) => p.host = s /\ p.port = <<>>
    BY EndpointFacts
<1>6. /\ \A v : <<"ips", v>> \in found => IsAddr(v) /\ ~OneColon(v)
      /\ \A v : <<"hosts", v>> \in found => ~IsAddr(v) /\ ~OneColon(v)
  <2> SUFFICES ASSUME NEW ns \in {"ips", "hosts"}, NEW v, <<ns, v>> \in found
               PROVE  ns = NamespaceOf(v) /\ ~OneColon(v)
      BY DEF NamespaceOf
  <2>1. <<ns, v>>[1] = ns /\ <<ns, v>>[2] = v
      OBVIOUS
  <2> QED
      BY <2>1 DEF WellFound
<1>7. attrValue(t, s) =
        IF knows(t, "ips", s) THEN In("ips", s, <<>>)
        ELSE IF knows(t, "hosts", s) THEN In("hosts", s, <<>>)
        ELSE IF p.hasPort /\ knows(t, "ips", p.host) THEN In("ips", p.host, p.port)
        ELSE IF p.hasPort /\ knows(t, "hosts", p.host) THEN In("hosts", p.host, p.port)
        ELSE IF knows(t, "identities", s) THEN In("identities", s, <<>>) ELSE Unknown
    BY Zenon DEF attrValue
<1>8. PeerOf(s) = <<NamespaceOf(p.host), p.host>>
    BY DEF PeerOf
<1>9. \A v, port : /\ v \in SubSeqs(s) /\ knows(t, "ips", v) => LooksUp(found, s, In("ips", v, port))
                   /\ v \in SubSeqs(s) /\ knows(t, "hosts", v) => LooksUp(found, s, In("hosts", v, port))
                   /\ v \in SubSeqs(s) /\ knows(t, "identities", v) =>
                        LooksUp(found, s, In("identities", v, port))
  <2> HIDE DEF t
  <2>1. ASSUME NEW ns \in {"ips", "hosts", "identities"}, NEW v, NEW port, v \in SubSeqs(s),
               knows(t, ns, v)
        PROVE  LooksUp(found, s, In(ns, v, port))
    <3>1. ns \in Namespaces /\ ns # "ids" /\ <<ns, v>> \in found
        BY <1>2, <1>3, <2>1
    <3> QED
        BY <2>1, <3>1, InFacts
  <2> QED
      BY <2>1
<1> HIDE DEF t, p
<1>10. LooksUp(found, s, attrValue(t, s))
  <2>1. LooksUp(found, s, Unknown)
      BY DEF LooksUp
  <2> QED
      BY <1>4, <1>7, <1>9, <2>1
<1>11. ASSUME p.host # <<>>, PeerOf(s) \in found
       PROVE  attrValue(t, s) = In(NamespaceOf(p.host), p.host, p.port)
  <2>1. <<NamespaceOf(p.host), p.host>> \in found
      BY <1>8, <1>11
  <2>2. CASE ~OneColon(s)
    <3>1. p.host = s /\ p.port = <<>>
        BY <1>5, <2>2
    <3>2. CASE IsAddr(s)
      <4>1. NamespaceOf(s) = "ips" /\ knows(t, "ips", s)
          BY <1>2, <1>3, <2>1, <3>1, <3>2 DEF NamespaceOf
      <4> QED
          BY <1>7, <3>1, <4>1
    <3>3. CASE ~IsAddr(s)
      <4>1. NamespaceOf(s) = "hosts" /\ knows(t, "hosts", s) /\ ~knows(t, "ips", s)
          BY <1>2, <1>3, <1>6, <2>1, <3>1, <3>3 DEF NamespaceOf
      <4> QED
          BY <1>7, <3>1, <4>1
    <3> QED
        BY <3>2, <3>3
  <2>3. CASE OneColon(s)
    <3>1. ~knows(t, "ips", s) /\ ~knows(t, "hosts", s) /\ p.hasPort
        BY <1>2, <1>3, <1>5, <1>6, <2>3
    <3>2. CASE IsAddr(p.host)
      <4>1. NamespaceOf(p.host) = "ips" /\ knows(t, "ips", p.host)
          BY <1>2, <1>3, <2>1, <3>2 DEF NamespaceOf
      <4> QED
          BY <1>7, <3>1, <4>1
    <3>3. CASE ~IsAddr(p.host)
      <4>1. NamespaceOf(p.host) = "hosts" /\ knows(t, "hosts", p.host) /\ ~knows(t, "ips", p.host)
          BY <1>2, <1>3, <1>6, <2>1, <3>3 DEF NamespaceOf
      <4> QED
          BY <1>7, <3>1, <4>1
    <3> QED
        BY <3>2, <3>3
  <2> QED
      BY <2>2, <2>3
<1> QED
    BY <1>10, <1>11 DEF t, p

\* What rewriting a field looks up: what the field was collected for, and
\* nothing that the run does not hold.
LEMMA LookupFacts ==
    ASSUME NEW found, WellFound(found), NEW field \in Fields, collectField(field) \subseteq found,
           field.kind = "id" => field.text # <<>>
    PROVE  LET l == lookup(newTable(found), field)
               p == endpointParts(field.text)
           IN  /\ LooksUp(found, field.text, l)
               /\ field.kind \in {"ref", "host"} /\ p.host # <<>> =>
                    l = In(NamespaceOf(p.host), p.host, p.port)
               /\ field.kind = "identity" =>
                    l = IF field.text = <<>> THEN Unknown ELSE In("identities", field.text, <<>>)
               /\ field.kind = "id" => l = In("ids", field.text, <<>>)
               /\ field.kind \in {"prose", "message"} => l = Unknown
               /\ \A u \in collectField(field) : l # Unknown /\ u = <<l.ns, l.value>>
<1> DEFINE t == newTable(found)
           l == lookup(t, field)
           s == field.text
           p == endpointParts(s)
<1>1. s \in Seq(Nat) /\ field.kind \in FieldKinds
    BY DEF Fields
<1>2. found \in SUBSET Finds /\ IsFiniteSet(found)
    BY DEF WellFound
<1>3. \A ns \in Namespaces : \A v : knows(t, ns, v) <=> <<ns, v>> \in found
    BY <1>2, TableFacts
<1>4. LooksUp(found, s, Unknown)
    BY DEF LooksUp
<1>5. ASSUME NEW ns \in Namespaces, NEW v, NEW port
      PROVE  In(ns, v, port) # Unknown /\ <<In(ns, v, port).ns, In(ns, v, port).value>> = <<ns, v>>
  <2>1. In(ns, v, port).ns = ns /\ In(ns, v, port).value = v
      BY DEF In
  <2>2. Unknown.ns = "none" /\ ns # "none"
      BY DEF Unknown, Namespaces
  <2> QED
      BY <2>1, <2>2
<1>6. \A h : NamespaceOf(h) \in Namespaces
    BY DEF NamespaceOf, Namespaces
<1>7. CASE field.kind \in {"ref", "host"}
  <2>1. collectField(field) = IF p.host = <<>> THEN {} ELSE {PeerOf(s)}
      BY <1>7, CollectFieldFacts, ClassifyIs
  <2>2. l = endpointRef(t, s) \/ l = attrValue(t, s)
      BY <1>7 DEF lookup
  <2>3. LooksUp(found, s, l)
      BY <1>1, <2>2, EndpointRefFacts, AttrValueFacts
  <2>4. p.host # <<>> => l = In(NamespaceOf(p.host), p.host, p.port)
    <3>1. p.host # <<>> => PeerOf(s) \in found
        BY <2>1
    <3> QED
        BY <1>1, <2>2, <3>1, EndpointRefFacts, AttrValueFacts
  <2>5. \A u \in collectField(field) : l # Unknown /\ u = <<l.ns, l.value>>
    <3> SUFFICES ASSUME NEW u \in collectField(field) PROVE l # Unknown /\ u = <<l.ns, l.value>>
        OBVIOUS
    <3>1. p.host # <<>> /\ u = <<NamespaceOf(p.host), p.host>>
        BY <2>1 DEF PeerOf
    <3>2. l = In(NamespaceOf(p.host), p.host, p.port)
        BY <2>4, <3>1
    <3> QED
        BY <1>5, <1>6, <3>1, <3>2
  <2> QED
      BY <1>7, <2>3, <2>4, <2>5
<1>8. CASE field.kind = "identity"
  <2>1. l = IF knows(t, "identities", s) THEN In("identities", s, <<>>) ELSE Unknown
      BY <1>8 DEF lookup
  <2>2. "identities" \in Namespaces
      BY DEF Namespaces
  <2>3. s # <<>> => <<"identities", s>> \in found
      BY <1>8, CollectFieldFacts
  <2>4. s = <<>> => <<"identities", s>> \notin found
    <3>1. <<"identities", s>>[1] = "identities" /\ <<"identities", s>>[2] = s
        OBVIOUS
    <3> QED
        BY <3>1 DEF WellFound
  <2>5. l = IF s = <<>> THEN Unknown ELSE In("identities", s, <<>>)
      BY <1>3, <2>1, <2>2, <2>3, <2>4
  <2>6. LooksUp(found, s, l)
    <3>1. s \in SubSeqs(s)
        BY <1>1, WholeIsWithin
    <3>2. s # <<>> => LooksUp(found, s, In("identities", s, <<>>))
        BY <1>1, <2>2, <2>3, <3>1, InFacts
    <3> QED
        BY <1>4, <2>5, <3>2
  <2>7. \A u \in collectField(field) : l # Unknown /\ u = <<l.ns, l.value>>
    <3> SUFFICES ASSUME NEW u \in collectField(field) PROVE l # Unknown /\ u = <<l.ns, l.value>>
        OBVIOUS
    <3>1. u = <<"identities", s>> /\ u \in found
        BY <1>8, CollectFieldFacts
    <3>2. l = In("identities", s, <<>>)
        BY <2>4, <2>5, <3>1
    <3> QED
        BY <1>5, <2>2, <3>1, <3>2
  <2> QED
      BY <1>8, <2>5, <2>6, <2>7
<1>9. CASE field.kind = "id"
  <2>1. l = In("ids", s, <<>>)
      BY <1>9 DEF lookup
  <2>2. "ids" \in Namespaces
      BY DEF Namespaces
  <2>3. collectField(field) = {<<"ids", s>>} /\ s # <<>>
      BY <1>9, CollectFieldFacts
  <2>4. s \in SubSeqs(s)
      BY <1>1, WholeIsWithin
  <2>5. LooksUp(found, s, l)
      BY <1>1, <2>1, <2>2, <2>3, <2>4, InFacts
  <2> QED
      BY <1>5, <1>9, <2>1, <2>2, <2>3, <2>5
<1>10. CASE field.kind = "string"
  <2>1. l = attrValue(t, s)
      BY <1>10 DEF lookup
  <2>2. LooksUp(found, s, l)
      BY <1>1, <2>1, AttrValueFacts
  <2>3. \A u \in collectField(field) : l # Unknown /\ u = <<l.ns, l.value>>
    <3> SUFFICES ASSUME NEW u \in collectField(field) PROVE l # Unknown /\ u = <<l.ns, l.value>>
        OBVIOUS
    <3>1. collectField(field) = classifyRef(s)
        BY <1>10, CollectFieldFacts
    <3>2. p.host # <<>> /\ u = PeerOf(s) /\ u \in found
        BY <3>1, ClassifyIs
    <3>3. l = In(NamespaceOf(p.host), p.host, p.port)
        BY <1>1, <2>1, <3>2, AttrValueFacts
    <3> QED
        BY <1>5, <1>6, <3>2, <3>3 DEF PeerOf
  <2> QED
      BY <1>10, <2>2, <2>3
<1>11. CASE field.kind \in {"prose", "message"}
  <2>1. l = Unknown
      BY <1>11 DEF lookup
  <2>2. collectField(field) = {}
      BY <1>11, CollectFieldFacts
  <2> QED
      BY <1>4, <1>11, <2>1, <2>2
<1> QED
    BY <1>1, <1>7, <1>8, <1>9, <1>10, <1>11 DEF FieldKinds

LEMMA RewriteIs ==
    ASSUME NEW t, NEW replacements, NEW field \in Fields
    PROVE  LET l == lookup(t, field)
               new == rewrite(t, replacements, field)
           IN  /\ field.kind = "prose" => new.text = text(replacements, field.text)
               /\ field.kind \notin {"prose", "message"} =>
                    new.text = IF l = Unknown THEN field.text ELSE t[l.ns][l.value] \o l.port
<1> DEFINE l == lookup(t, field)
           new == rewrite(t, replacements, field)
<1>1. ASSUME NEW x PROVE [field EXCEPT !.text = x].text = x
    BY DEF Fields
<1>2. CASE field.kind = "prose"
  <2>1. new = [field EXCEPT !.text = text(replacements, field.text)]
      BY <1>2 DEF rewrite
  <2> QED
      BY <1>1, <1>2, <2>1
<1>3. CASE field.kind \notin {"prose", "message"}
  <2>1. new = IF l = Unknown THEN field ELSE [field EXCEPT !.text = t[l.ns][l.value] \o l.port]
      BY <1>3 DEF rewrite
  <2> QED
      BY <1>1, <1>3, <2>1
<1> QED
    BY <1>2, <1>3

-----------------------------------------------------------------------------
(* The run.                                                                *)

\* What a target's report is rebuilt into.
Rebuilt(n) ==
    [id     |-> alias(n),
     fields |-> [i \in 1..Len(run[n].fields) |-> rewrite(table, prose, run[n].fields[i])],
     counts |-> UNION {usage(table, prose, i, run[n].fields[i]) : i \in 1..Len(run[n].fields)}]

\* One table, of the whole run; each report rebuilt against it and with its own
\* counts, in order; and a run is published when every report is.
RedactionInv ==
    /\ run \in Runs
    /\ outcome = "none" => shared = <<>>
    /\ outcome # "none" => table = newTable(collectRun(run))
    /\ shared \in Seq({Rebuilt(n) : n \in 1..Len(run)}) /\ Len(shared) <= Len(run)
    /\ \A n \in 1..Len(shared) : shared[n] = Rebuilt(n)
    /\ outcome = "published" => Len(shared) = Len(run)

LEMMA RedactionInvInit == RedactionInit => RedactionInv
<1> SUFFICES ASSUME RedactionInit PROVE RedactionInv
    OBVIOUS
<1>1. run \in Runs /\ shared = <<>> /\ outcome = "none"
    BY DEF RedactionInit, RedactionIdle
<1>2. run \in Seq(Results)
    BY <1>1, RunsAssumption DEF RunsAssumption
<1>3. shared \in Seq({Rebuilt(n) : n \in 1..Len(run)}) /\ Len(shared) = 0
    BY <1>1
<1> QED
    BY <1>1, <1>2, <1>3 DEF RedactionInv

LEMMA RedactionStep == RedactionInv /\ [RedactionNext]_redactionVars => RedactionInv'
<1> SUFFICES ASSUME RedactionInv, [RedactionNext]_redactionVars PROVE RedactionInv'
    OBVIOUS
<1>1. run \in Seq(Results) /\ Len(run) \in Nat
    BY RunsAssumption DEF RedactionInv, RunsAssumption
<1>2. ASSUME RedactRun PROVE RedactionInv'
  <2>1. /\ run' = run /\ shared' = shared /\ shared = <<>> /\ outcome' = "redacting"
        /\ table' = newTable(collectRun(run))
      BY <1>2 DEF RedactRun, RedactionInv
  <2>2. shared' \in Seq({Rebuilt(n)' : n \in 1..Len(run)}) /\ Len(shared') = 0
      BY <2>1
  <2> QED
      BY <1>1, <2>1, <2>2 DEF RedactionInv
<1>3. ASSUME RedactTarget PROVE RedactionInv'
  <2> DEFINE n == Len(shared) + 1
             R == {Rebuilt(m) : m \in 1..Len(run)}
  <2>1. /\ run' = run /\ table' = table /\ prose' = prose
        /\ outcome = "redacting" /\ n <= Len(run)
        /\ \/ outcome' = "refused" /\ shared' = shared
           \/ outcome' = outcome /\ shared' = Append(shared, Rebuilt(n))
    <3> DEFINE new == [i \in 1..Len(run[n].fields) |-> rewrite(table, prose, run[n].fields[i])]
               uses == UNION {usage(table, prose, i, run[n].fields[i]) :
                                i \in 1..Len(run[n].fields)}
    <3>1. resetUsage(used) \cup uses = uses
        BY DEF resetUsage
    <3>2. run' = run /\ table' = table /\ prose' = prose
        BY <1>3 DEF RedactTarget
    <3>3. outcome = "redacting" /\ n <= Len(run)
        BY <1>3 DEF RedactTarget
    <3>4. \/ outcome' = "refused" /\ shared' = shared
          \/ /\ outcome' = outcome
             /\ shared' = Append(shared, [id |-> alias(n), fields |-> new,
                                          counts |-> resetUsage(used) \cup uses])
        BY <1>3 DEF RedactTarget, tableFor
    <3>5. Rebuilt(n) = [id |-> alias(n), fields |-> new, counts |-> uses]
        BY DEF Rebuilt
    <3> HIDE DEF n, new, uses
    <3> QED
        BY <3>1, <3>2, <3>3, <3>4, <3>5
  <2>2. /\ shared \in Seq(R) /\ Len(shared) <= Len(run) /\ Len(shared) \in Nat
        /\ \A m \in 1..Len(shared) : shared[m] = Rebuilt(m)
      BY DEF RedactionInv
  <2>3. \A m : Rebuilt(m)' = Rebuilt(m)
      BY <2>1 DEF Rebuilt
  <2>4. Rebuilt(n) \in R
      BY <2>1, <2>2
  <2> HIDE DEF R
  <2>5. /\ shared' \in Seq(R) /\ Len(shared') <= Len(run)
        /\ \A m \in 1..Len(shared') : shared'[m] = Rebuilt(m)
    <3>1. CASE shared' = shared
        BY <2>2, <3>1
    <3>2. CASE shared' = Append(shared, Rebuilt(n))
      <4>1. /\ shared' \in Seq(R) /\ Len(shared') = n
            /\ \A m \in 1..Len(shared) : shared'[m] = shared[m]
            /\ shared'[n] = Rebuilt(n)
          BY <2>2, <2>4, <3>2
      <4>2. \A m \in 1..n : m \in 1..Len(shared) \/ m = n
          BY <2>2
      <4> QED
          BY <2>1, <2>2, <4>1, <4>2
    <3> QED
        BY <2>1, <3>1, <3>2
  <2>6. outcome' \in {"refused", "redacting"} /\ table' = newTable(collectRun(run'))
      BY <2>1 DEF RedactionInv
  <2>7. run' \in Runs /\ R = {Rebuilt(m)' : m \in 1..Len(run')}
      BY <2>1, <2>3 DEF RedactionInv, R
  <2> QED
      BY <2>1, <2>3, <2>5, <2>6, <2>7 DEF RedactionInv
<1>4. ASSUME Finish PROVE RedactionInv'
  <2>1. /\ run' = run /\ table' = table /\ prose' = prose /\ shared' = shared
        /\ outcome = "redacting" /\ Len(shared) = Len(run)
        /\ outcome' \in {"refused", "published"}
      BY <1>4 DEF Finish
  <2>2. \A m : Rebuilt(m)' = Rebuilt(m)
      BY <2>1 DEF Rebuilt
  <2> QED
      BY <2>1, <2>2 DEF RedactionInv
<1>5. ASSUME UNCHANGED redactionVars PROVE RedactionInv'
  <2>1. /\ run' = run /\ table' = table /\ prose' = prose /\ shared' = shared
        /\ outcome' = outcome
      BY <1>5 DEF redactionVars
  <2>2. \A m : Rebuilt(m)' = Rebuilt(m)
      BY <2>1 DEF Rebuilt
  <2> QED
      BY <2>1, <2>2 DEF RedactionInv
<1>6. Settled => UNCHANGED redactionVars
    BY DEF Settled
<1> QED
    BY <1>2, <1>3, <1>4, <1>5, <1>6 DEF RedactionNext

\* RedactRun: one table of everything the run holds, and every report rebuilt
\* against it.
THEOREM RedactionInvariant == RedactionSpec => []RedactionInv
<1> QED
    BY RedactionInvInit, RedactionStep, PTL DEF RedactionSpec

\* What is known of each field of a report that was rebuilt.
LEMMA RebuiltFields ==
    ASSUME RedactionInv, NEW n \in 1..Len(shared), NEW i \in 1..Len(run[n].fields)
    PROVE  /\ run \in Seq(Results) /\ n \in 1..Len(run) /\ run[n].fields \in Seq(Fields)
           /\ run[n].fields[i] \in Fields
           /\ run[n].fields[i].kind = "id" => run[n].fields[i].text # <<>>
           /\ WellFound(collectRun(run)) /\ table = newTable(collectRun(run))
           /\ collectField(run[n].fields[i]) \subseteq collectRun(run)
           /\ shared[n].fields[i] = rewrite(table, prose, run[n].fields[i])
           /\ shared[n].counts =
                UNION {usage(table, prose, j, run[n].fields[j]) : j \in 1..Len(run[n].fields)}
<1>1. run \in Seq(Results)
    BY RunsAssumption DEF RedactionInv, RunsAssumption
<1>2. n \in 1..Len(run) /\ n \in DOMAIN run /\ shared[n] = Rebuilt(n)
    BY <1>1 DEF RedactionInv
<1>3. run[n].fields \in Seq(Fields)
    BY <1>1, <1>2, ResultFields
<1>4. run[n].fields[i] \in Fields /\ i \in DOMAIN run[n].fields
    BY <1>3
<1>5. run[n].fields[i].kind = "id" => run[n].fields[i].text # <<>>
    BY <1>2, <1>4, RunsAssumption DEF RedactionInv, RunsAssumption
<1>6. shared # <<>>
    BY DEF RedactionInv
<1>7. table = newTable(collectRun(run))
    BY <1>6 DEF RedactionInv
<1>8. /\ WellFound(collectRun(run))
      /\ collectField(run[n].fields[i]) \subseteq collectRun(run)
    BY <1>1, <1>2, CollectRunFacts
<1>9. /\ shared[n].fields = [j \in 1..Len(run[n].fields) |-> rewrite(table, prose, run[n].fields[j])]
      /\ shared[n].counts =
           UNION {usage(table, prose, j, run[n].fields[j]) : j \in 1..Len(run[n].fields)}
    BY <1>2 DEF Rebuilt
<1>10. shared[n].fields[i] = rewrite(table, prose, run[n].fields[i])
    BY <1>9
<1> QED
    BY <1>1, <1>2, <1>3, <1>4, <1>5, <1>7, <1>8, <1>9, <1>10

\* The usage of a field: its prose was rewritten, or the value looked up.
LEMMA UsageFacts ==
    ASSUME RedactionInv, NEW n \in 1..Len(shared), NEW i \in 1..Len(run[n].fields)
    PROVE  LET field == run[n].fields[i]
               uses == usage(table, prose, i, field)
           IN  /\ field.kind = "prose" =>
                    uses = IF field.text # shared[n].fields[i].text THEN {<<"prose", i>>} ELSE {}
               /\ field.kind # "prose" =>
                    /\ collectField(field) \subseteq uses
                    /\ \A u \in uses : u[1] # "prose" /\ Holds(field.text, u[2])
               /\ field.kind = "prose" => collectField(field) = {}
<1> DEFINE field == run[n].fields[i]
           uses == usage(table, prose, i, field)
           l == lookup(table, field)
<1>1. /\ field \in Fields /\ (field.kind = "id" => field.text # <<>>)
      /\ WellFound(collectRun(run)) /\ table = newTable(collectRun(run))
      /\ collectField(field) \subseteq collectRun(run)
      /\ shared[n].fields[i] = rewrite(table, prose, field)
    BY RebuiltFields
<1>2. CASE field.kind = "prose"
  <2>1. shared[n].fields[i].text = text(prose, field.text)
      BY <1>1, <1>2, RewriteIs
  <2>2. uses = IF text(prose, field.text) # field.text THEN {<<"prose", i>>} ELSE {}
      BY <1>2 DEF usage
  <2>3. collectField(field) = {}
      BY <1>1, <1>2, CollectFieldFacts
  <2> QED
      BY <1>2, <2>1, <2>2, <2>3
<1>3. CASE field.kind # "prose"
  <2>1. /\ LooksUp(collectRun(run), field.text, l)
        /\ \A u \in collectField(field) : l # Unknown /\ u = <<l.ns, l.value>>
    <3> HIDE DEF field
    <3> QED
        BY <1>1, LookupFacts DEF l
  <2>2. uses = IF l = Unknown THEN {} ELSE {<<l.ns, l.value>>}
      BY <1>3 DEF usage
  <2>3. l # Unknown => l.ns # "prose" /\ Holds(field.text, l.value)
      BY <2>1 DEF LooksUp, Namespaces
  <2> HIDE DEF l, uses, field
  <2>4. collectField(field) \subseteq uses
      BY <2>1, <2>2
  <2>5. \A u \in uses : u[1] # "prose" /\ Holds(field.text, u[2])
      BY <2>2, <2>3
  <2> QED
      BY <1>3, <2>4, <2>5 DEF uses, field
<1> QED
    BY <1>2, <1>3

\* resetUsage: for any runs, what a report counts was in it, everything
\* identifying in it is counted, and a rewritten sentence is counted once.
THEOREM EachReportCountsItsOwn == RedactionSpec => []CountsAreOwn
<1>1. RedactionInv => CountsAreOwn
  <2> SUFFICES ASSUME RedactionInv, NEW n \in 1..Len(shared)
               PROVE  LET structured == {u \in shared[n].counts : u[1] # "prose"}
                          rewritten  == {i \in 1..Len(run[n].fields) :
                                           run[n].fields[i].kind = "prose"
                                           /\ run[n].fields[i].text # shared[n].fields[i].text}
                      IN /\ collect(run[n].fields) \subseteq structured
                         /\ \A u \in structured : \E i \in 1..Len(run[n].fields) :
                              Holds(run[n].fields[i].text, u[2])
                         /\ Cardinality(shared[n].counts \ structured) = Cardinality(rewritten)
      BY DEF CountsAreOwn
  <2> DEFINE D == 1..Len(run[n].fields)
             F(i) == run[n].fields[i]
             Uses(i) == usage(table, prose, i, F(i))
             counts == shared[n].counts
             structured == {u \in counts : u[1] # "prose"}
             rewritten == {i \in D : F(i).kind = "prose" /\ F(i).text # shared[n].fields[i].text}
  <2>2. counts = UNION {Uses(i) : i \in D}
    <3>1. shared[n] = Rebuilt(n)
        BY DEF RedactionInv
    <3> QED
        BY <3>1 DEF Rebuilt
  <2>3. ASSUME NEW i \in D
        PROVE  /\ F(i).kind = "prose" =>
                    Uses(i) = IF F(i).text # shared[n].fields[i].text THEN {<<"prose", i>>} ELSE {}
               /\ F(i).kind # "prose" =>
                    /\ collectField(F(i)) \subseteq Uses(i)
                    /\ \A u \in Uses(i) : u[1] # "prose" /\ Holds(F(i).text, u[2])
               /\ F(i).kind = "prose" => collectField(F(i)) = {}
      BY UsageFacts
  <2>4. collect(run[n].fields) = UNION {collectField(F(i)) : i \in D}
      BY DEF collect
  <2>5. IsFiniteSet(rewritten)
    <3>1. run \in Seq(Results) /\ n \in 1..Len(run)
        BY RunsAssumption DEF RedactionInv, RunsAssumption
    <3>2. run[n].fields \in Seq(Fields)
        BY <3>1, ResultFields
    <3>3. Len(run[n].fields) \in Nat
        BY <3>2
    <3>4. IsFiniteSet(D)
        BY <3>3, FS_Interval
    <3> QED
        BY <3>4, FS_Subset
  <2> HIDE DEF D, F, Uses, counts
  <2>6. collect(run[n].fields) \subseteq structured
    <3> SUFFICES ASSUME NEW i \in D, NEW u \in collectField(F(i)) PROVE u \in structured
        BY <2>4
    <3>1. F(i).kind # "prose"
        BY <2>3
    <3>2. u \in Uses(i) /\ u[1] # "prose"
        BY <2>3, <3>1
    <3> QED
        BY <2>2, <3>2
  <2>7. ASSUME NEW u \in structured PROVE \E i \in D : Holds(F(i).text, u[2])
    <3>1. PICK i \in D : u \in Uses(i)
        BY <2>2
    <3>2. F(i).kind # "prose"
      <4> SUFFICES ASSUME F(i).kind = "prose" PROVE FALSE
          OBVIOUS
      <4>1. u = <<"prose", i>>
          BY <2>3, <3>1
      <4> QED
          BY <4>1
    <3> QED
        BY <2>3, <3>1, <3>2
  <2>8. \A u : u \in counts \ structured <=> \E i \in rewritten : u = <<"prose", i>>
    <3>1. ASSUME NEW u \in counts \ structured PROVE \E i \in rewritten : u = <<"prose", i>>
      <4>1. PICK i \in D : u \in Uses(i)
          BY <2>2
      <4>2. u[1] = "prose"
          BY <3>1
      <4>3. F(i).kind = "prose"
          BY <2>3, <4>1, <4>2
      <4>4. F(i).text # shared[n].fields[i].text /\ u = <<"prose", i>>
          BY <2>3, <4>1, <4>3
      <4> QED
          BY <4>3, <4>4
    <3>2. ASSUME NEW i \in rewritten PROVE <<"prose", i>> \in counts \ structured
      <4>1. <<"prose", i>> \in Uses(i)
          BY <2>3
      <4> QED
          BY <2>2, <4>1
    <3> QED
        BY <3>1, <3>2
  <2>9. Cardinality(rewritten) = Cardinality(counts \ structured)
    <3> DEFINE f == [i \in rewritten |-> <<"prose", i>>]
               T == counts \ structured
    <3>1. \A i \in rewritten : f[i] \in T
        BY <2>8
    <3>2. \A i, j \in rewritten : f[i] = f[j] => i = j
        OBVIOUS
    <3>3. \A u \in T : \E i \in rewritten : f[i] = u
        BY <2>8
    <3> HIDE DEF f, T, rewritten
    <3>4. Cardinality(rewritten) = Cardinality(T)
        BY <2>5, <3>1, <3>2, <3>3, SameCount
    <3> QED
        BY <3>4 DEF T
  <2> QED
      BY <2>6, <2>7, <2>9 DEF D, F, counts
<1> QED
    BY <1>1, RedactionInvariant, PTL

-----------------------------------------------------------------------------
(* One pseudonym for one value.                                            *)

Pseudonym(found, f) == newTable(found)[f[1]][f[2]]

\* A category's letter is not a colon, and no two namespaces share one.
LEMMA CategoriesDiffer ==
    /\ \A ns \in Namespaces : Category[ns] \in Nat \ {0}
    /\ \A a, b \in Namespaces : Category[a] = Category[b] => a = b
  BY DEF Category, Namespaces

LEMMA PseudonymsDiffer ==
    ASSUME NEW found, WellFound(found), NEW f \in found, NEW g \in found
    PROVE  /\ \E c, d \in Nat \ {0} : Pseudonym(found, f) = <<c, d>>
           /\ Pseudonym(found, f) = Pseudonym(found, g) <=> f = g
<1>1. found \in SUBSET Finds /\ IsFiniteSet(found)
    BY DEF WellFound
<1>2. ASSUME NEW h \in found
      PROVE  h = <<h[1], h[2]>> /\ h[1] \in Namespaces /\ <<h[1], h[2]>> \in found
  <2>1. h \in Namespaces \X Seq(Nat)
      BY <1>1 DEF Finds
  <2> QED
      BY <2>1
<1>3. ASSUME NEW h \in found
      PROVE  \E d \in Nat \ {0} : Pseudonym(found, h) = <<Category[h[1]], d>>
  <2> DEFINE ns == h[1]
  <2>1. ns \in Namespaces /\ <<ns, h[2]>> \in found
      BY <1>2
  <2> HIDE DEF ns
  <2>2. \E d \in Nat \ {0} : newTable(found)[ns][h[2]] = <<Category[ns], d>>
      BY <1>1, <2>1, TableFacts
  <2> QED
      BY <2>2 DEF Pseudonym, ns
<1>4. \E c, d \in Nat \ {0} : Pseudonym(found, f) = <<c, d>>
  <2> DEFINE c == Category[f[1]]
  <2>1. c \in Nat \ {0}
      BY <1>2, CategoriesDiffer
  <2>2. \E d \in Nat \ {0} : Pseudonym(found, f) = <<c, d>>
      BY <1>3
  <2> HIDE DEF c
  <2> QED
      BY <2>1, <2>2
<1>5. ASSUME Pseudonym(found, f) = Pseudonym(found, g) PROVE f = g
  <2>1. PICK d \in Nat \ {0} : Pseudonym(found, f) = <<Category[f[1]], d>>
      BY <1>3
  <2>2. PICK m \in Nat \ {0} : Pseudonym(found, g) = <<Category[g[1]], m>>
      BY <1>3
  <2>3. f[1] = g[1]
    <3> DEFINE a == Category[f[1]]
               b == Category[g[1]]
    <3>1. <<a, d>> = <<b, m>>
        BY <1>5, <2>1, <2>2
    <3> HIDE DEF a, b
    <3>2. a = b
        BY <3>1
    <3> QED
        BY <1>2, <3>2, CategoriesDiffer DEF a, b
  <2> DEFINE ns == f[1]
  <2>4. /\ ns \in Namespaces /\ <<ns, f[2]>> \in found /\ <<ns, g[2]>> \in found
        /\ newTable(found)[ns][f[2]] = newTable(found)[ns][g[2]]
      BY <1>2, <1>5, <2>3 DEF Pseudonym
  <2> HIDE DEF ns
  <2>5. f[2] = g[2]
    <3>1. \A v, w : <<ns, v>> \in found /\ <<ns, w>> \in found
             /\ newTable(found)[ns][v] = newTable(found)[ns][w] => v = w
        BY <1>1, <2>4, TableFacts
    <3> QED
        BY <2>4, <3>1
  <2> QED
      BY <1>2, <2>3, <2>5
<1> QED
    BY <1>4, <1>5

\* What a peer, an identity and an identifier are shared as.
SharedAs(found, s) ==
    LET host == endpointParts(s[1].text).host IN
    /\ s[1].kind \in {"ref", "host"} /\ host # <<>> =>
         /\ PeerOf(s[1].text) \in found
         /\ endpointParts(s[2]).host = Pseudonym(found, PeerOf(s[1].text))
    /\ s[1].kind = "identity" =>
         \/ s[1].text = <<>> /\ s[2] = <<>>
         \/ /\ s[1].text # <<>> /\ <<"identities", s[1].text>> \in found
            /\ s[2] = Pseudonym(found, <<"identities", s[1].text>>)
    /\ s[1].kind = "id" =>
         /\ <<"ids", s[1].text>> \in found
         /\ s[2] = Pseudonym(found, <<"ids", s[1].text>>)

LEMMA RewrittenAs ==
    ASSUME NEW found, WellFound(found), NEW replacements, NEW field \in Fields,
           collectField(field) \subseteq found, field.kind = "id" => field.text # <<>>
    PROVE  SharedAs(found, <<field, rewrite(newTable(found), replacements, field).text>>)
<1> DEFINE t == newTable(found)
           l == lookup(t, field)
           p == endpointParts(field.text)
           new == rewrite(t, replacements, field).text
           pair == <<field, new>>
<1> SUFFICES SharedAs(found, pair)
    OBVIOUS
<1>1. pair[1] = field /\ pair[2] = new
    OBVIOUS
<1>2. field.text \in Seq(Nat) /\ field.kind \in FieldKinds
    BY DEF Fields
<1>3. field.kind \notin {"prose", "message"} =>
        new = IF l = Unknown THEN field.text ELSE t[l.ns][l.value] \o l.port
    BY RewriteIs
<1>4. ASSUME NEW ns \in Namespaces, NEW v, NEW port, l = In(ns, v, port), <<ns, v>> \in found,
             field.kind \notin {"prose", "message"}
      PROVE  new = Pseudonym(found, <<ns, v>>) \o port
  <2>1. l.ns = ns /\ l.value = v /\ l.port = port
      BY <1>4 DEF In
  <2>2. l # Unknown
      BY <2>1 DEF Unknown, Namespaces
  <2> HIDE DEF l
  <2>3. new = t[ns][v] \o port
      BY <1>3, <1>4, <2>1, <2>2
  <2> QED
      BY <2>3 DEF Pseudonym
<1>5. ASSUME NEW f \in found PROVE Pseudonym(found, f) \o <<>> = Pseudonym(found, f)
  <2>1. PICK c \in Nat \ {0}, d \in Nat \ {0} : Pseudonym(found, f) = <<c, d>>
      BY PseudonymsDiffer
  <2>2. <<c, d>> \o <<>> = <<c, d>>
      OBVIOUS
  <2> QED
      BY <2>1, <2>2
<1> HIDE DEF pair, new
<1>6. CASE field.kind \in {"ref", "host"}
  <2> SUFFICES ASSUME p.host # <<>>
               PROVE  /\ PeerOf(field.text) \in found
                      /\ endpointParts(new).host = Pseudonym(found, PeerOf(field.text))
      BY <1>1, <1>6 DEF SharedAs
  <2>1. l = In(NamespaceOf(p.host), p.host, p.port)
      BY <1>6, LookupFacts
  <2>2. PeerOf(field.text) \in found /\ PeerOf(field.text) = <<NamespaceOf(p.host), p.host>>
      BY <1>6, CollectFieldFacts DEF PeerOf
  <2>3. NamespaceOf(p.host) \in Namespaces
      BY DEF NamespaceOf, Namespaces
  <2> DEFINE f == PeerOf(field.text)
  <2> HIDE DEF l, p
  <2>4. new = Pseudonym(found, f) \o p.port
      BY <1>4, <1>6, <2>1, <2>2, <2>3
  <2>5. PICK c \in Nat \ {0}, d \in Nat \ {0} : Pseudonym(found, f) = <<c, d>>
      BY <2>2, PseudonymsDiffer
  <2>6. endpointParts(<<c, d>> \o p.port).host = <<c, d>>
      BY <1>2, PseudonymIsTheHost DEF p
  <2> QED
      BY <2>2, <2>4, <2>5, <2>6
<1>7. CASE field.kind = "identity"
  <2>1. l = IF field.text = <<>> THEN Unknown ELSE In("identities", field.text, <<>>)
      BY <1>7, LookupFacts
  <2>2. CASE field.text = <<>>
    <3>1. new = <<>>
        BY <1>3, <1>7, <2>1, <2>2
    <3> QED
        BY <1>1, <1>7, <2>2, <3>1 DEF SharedAs
  <2>3. CASE field.text # <<>>
    <3>1. <<"identities", field.text>> \in found
        BY <1>7, <2>3, CollectFieldFacts
    <3>2. "identities" \in Namespaces
        BY DEF Namespaces
    <3> HIDE DEF l
    <3>3. new = Pseudonym(found, <<"identities", field.text>>) \o <<>>
        BY <1>4, <1>7, <2>1, <2>3, <3>1, <3>2
    <3>4. new = Pseudonym(found, <<"identities", field.text>>)
        BY <1>5, <3>1, <3>3
    <3> QED
        BY <1>1, <1>7, <2>3, <3>1, <3>4 DEF SharedAs
  <2> QED
      BY <2>2, <2>3
<1>8. CASE field.kind = "id"
  <2>1. l = In("ids", field.text, <<>>)
      BY <1>8, LookupFacts
  <2>2. <<"ids", field.text>> \in found
      BY <1>8, CollectFieldFacts
  <2>3. "ids" \in Namespaces
      BY DEF Namespaces
  <2> HIDE DEF l
  <2>4. new = Pseudonym(found, <<"ids", field.text>>) \o <<>>
      BY <1>4, <1>8, <2>1, <2>2, <2>3
  <2>5. new = Pseudonym(found, <<"ids", field.text>>)
      BY <1>5, <2>2, <2>4
  <2> QED
      BY <1>1, <1>8, <2>2, <2>5 DEF SharedAs
<1>9. CASE field.kind \in {"string", "prose", "message"}
    BY <1>1, <1>9 DEF SharedAs
<1> QED
    BY <1>2, <1>6, <1>7, <1>8, <1>9 DEF FieldKinds

LEMMA SharedFields ==
    ASSUME RedactionInv, outcome = "published", NEW s \in Shared
    PROVE  SharedAs(collectRun(run), s)
<1>1. PICK n \in DOMAIN run : \E i \in DOMAIN run[n].fields :
        s = <<run[n].fields[i], shared[n].fields[i].text>>
    BY DEF Shared
<1>2. PICK i \in DOMAIN run[n].fields : s = <<run[n].fields[i], shared[n].fields[i].text>>
    BY <1>1
<1>3. run \in Seq(Results)
    BY RunsAssumption DEF RedactionInv, RunsAssumption
<1>4. n \in 1..Len(run) /\ Len(shared) = Len(run)
    BY <1>3 DEF RedactionInv
<1>5. run[n].fields \in Seq(Fields)
    BY <1>3, <1>4, ResultFields
<1>6. n \in 1..Len(shared) /\ i \in 1..Len(run[n].fields)
    BY <1>4, <1>5
<1>7. /\ run[n].fields[i] \in Fields
      /\ run[n].fields[i].kind = "id" => run[n].fields[i].text # <<>>
      /\ WellFound(collectRun(run)) /\ table = newTable(collectRun(run))
      /\ collectField(run[n].fields[i]) \subseteq collectRun(run)
      /\ shared[n].fields[i] = rewrite(table, prose, run[n].fields[i])
    BY <1>6, RebuiltFields
<1> QED
    BY <1>7, <1>2, RewrittenAs

\* newTable and redactWith: one pseudonym for one value, in whichever targets it
\* occurs, for peers whose port is kept, identities and evidence identifiers.
THEOREM OnePseudonymForOneValue == RedactionSpec => []PseudonymsAreOneToOne
<1>1. ASSUME RedactionInv, outcome = "published" PROVE OneToOne(PeerParts)
  <2> DEFINE found == collectRun(run)
  <2>1. WellFound(found)
    <3>1. run \in Seq(Results)
        BY <1>1, RunsAssumption DEF RedactionInv, RunsAssumption
    <3> QED
        BY <3>1, CollectRunFacts
  <2>2. ASSUME NEW p \in PeerParts
        PROVE  /\ <<NamespaceOf(p[1]), p[1]>> \in found
               /\ p[2] = Pseudonym(found, <<NamespaceOf(p[1]), p[1]>>)
    <3>1. PICK s \in Shared : /\ s[1].kind \in {"ref", "host"}
                              /\ p = <<endpointParts(s[1].text).host, endpointParts(s[2]).host>>
        BY DEF PeerParts
    <3>2. p[1] # <<>> /\ p[1] = endpointParts(s[1].text).host /\ p[2] = endpointParts(s[2]).host
        BY <3>1 DEF PeerParts
    <3>3. PeerOf(s[1].text) = <<NamespaceOf(p[1]), p[1]>>
        BY <3>2 DEF PeerOf
    <3>4. SharedAs(found, s)
        BY <1>1, SharedFields
    <3> HIDE DEF found
    <3>5. PeerOf(s[1].text) \in found /\ p[2] = Pseudonym(found, PeerOf(s[1].text))
        BY <3>1, <3>2, <3>4 DEF SharedAs
    <3> QED
        BY <3>3, <3>5
  <2> HIDE DEF found
  <2>3. ASSUME NEW p \in PeerParts, NEW q \in PeerParts PROVE p[1] = q[1] <=> p[2] = q[2]
    <3> DEFINE f == <<NamespaceOf(p[1]), p[1]>>
               g == <<NamespaceOf(q[1]), q[1]>>
    <3>1. f \in found /\ g \in found /\ p[2] = Pseudonym(found, f) /\ q[2] = Pseudonym(found, g)
        BY <2>2
    <3>2. f = g <=> p[1] = q[1]
        OBVIOUS
    <3> HIDE DEF f, g
    <3>3. Pseudonym(found, f) = Pseudonym(found, g) <=> f = g
        BY <2>1, <3>1, PseudonymsDiffer
    <3> QED
        BY <3>1, <3>2, <3>3
  <2> QED
      BY <2>3 DEF OneToOne
<1>2. ASSUME RedactionInv, outcome = "published",
             NEW names \in {<<"identity", "identities">>, <<"id", "ids">>}
      PROVE  OneToOne(Named(names[1]))
  <2> DEFINE found == collectRun(run)
             kind == names[1]
             ns == names[2]
  <2>1. WellFound(found)
    <3>1. run \in Seq(Results)
        BY <1>2, RunsAssumption DEF RedactionInv, RunsAssumption
    <3> QED
        BY <3>1, CollectRunFacts
  <2>2. ASSUME NEW p \in Named(kind)
        PROVE  \/ p[1] = <<>> /\ p[2] = <<>>
               \/ /\ <<ns, p[1]>> \in found /\ p[2] = Pseudonym(found, <<ns, p[1]>>)
                  /\ p[1] # <<>>
               \/ kind = "id" /\ <<ns, p[1]>> \in found /\ p[2] = Pseudonym(found, <<ns, p[1]>>)
    <3>1. PICK s \in Shared : s[1].kind = kind /\ p = <<s[1].text, s[2]>>
        BY DEF Named
    <3>2. SharedAs(found, s)
        BY <1>2, SharedFields
    <3>3. p[1] = s[1].text /\ p[2] = s[2]
        BY <3>1
    <3> HIDE DEF found
    <3>4. CASE names = <<"identity", "identities">>
      <4>1. kind = "identity" /\ ns = "identities"
          BY <3>4
      <4> HIDE DEF kind, ns
      <4> QED
          BY <3>1, <3>2, <3>3, <4>1 DEF SharedAs
    <3>5. CASE names = <<"id", "ids">>
      <4>1. kind = "id" /\ ns = "ids"
          BY <3>5
      <4> HIDE DEF kind, ns
      <4> QED
          BY <3>1, <3>2, <3>3, <4>1 DEF SharedAs
    <3> QED
        BY <3>4, <3>5
  <2>3. kind = "id" => \A p \in Named(kind) :
          <<ns, p[1]>> \in found /\ p[2] = Pseudonym(found, <<ns, p[1]>>)
    <3> SUFFICES ASSUME kind = "id", NEW p \in Named(kind)
                 PROVE  <<ns, p[1]>> \in found /\ p[2] = Pseudonym(found, <<ns, p[1]>>)
        OBVIOUS
    <3>1. PICK s \in Shared : s[1].kind = kind /\ p = <<s[1].text, s[2]>>
        BY DEF Named
    <3>2. SharedAs(found, s)
        BY <1>2, SharedFields
    <3>3. p[1] = s[1].text /\ p[2] = s[2] /\ ns = "ids"
        BY <3>1
    <3> HIDE DEF found, kind, ns
    <3> QED
        BY <3>1, <3>2, <3>3 DEF SharedAs
  <2>4. ASSUME NEW f \in found PROVE Pseudonym(found, f) # <<>>
    <3> HIDE DEF found
    <3>1. PICK c \in Nat \ {0}, d \in Nat \ {0} : Pseudonym(found, f) = <<c, d>>
        BY <2>1, PseudonymsDiffer
    <3> QED
        BY <3>1
  <2> HIDE DEF found, kind, ns
  <2>5. ASSUME NEW p \in Named(kind), NEW q \in Named(kind),
               <<ns, p[1]>> \in found, p[2] = Pseudonym(found, <<ns, p[1]>>),
               <<ns, q[1]>> \in found, q[2] = Pseudonym(found, <<ns, q[1]>>)
        PROVE  p[1] = q[1] <=> p[2] = q[2]
    <3> DEFINE f == <<ns, p[1]>>
               g == <<ns, q[1]>>
    <3>1. f \in found /\ g \in found /\ p[2] = Pseudonym(found, f) /\ q[2] = Pseudonym(found, g)
        BY <2>5
    <3>2. f = g <=> p[1] = q[1]
        OBVIOUS
    <3> HIDE DEF f, g
    <3>3. Pseudonym(found, f) = Pseudonym(found, g) <=> f = g
        BY <2>1, <3>1, PseudonymsDiffer
    <3> QED
        BY <3>1, <3>2, <3>3
  <2>6. ASSUME NEW p \in Named(kind), NEW q \in Named(kind) PROVE p[1] = q[1] <=> p[2] = q[2]
    <3>1. CASE kind = "id"
        BY <2>3, <2>5, <3>1
    <3>2. CASE kind # "id"
        BY <2>2, <2>4, <2>5, <3>2
    <3> QED
        BY <3>1, <3>2
  <2> QED
      BY <2>6 DEF OneToOne, kind
<1>3. RedactionInv => PseudonymsAreOneToOne
  <2> SUFFICES ASSUME RedactionInv, outcome = "published"
               PROVE  OneToOne(PeerParts) /\ OneToOne(Named("identity")) /\ OneToOne(Named("id"))
      BY DEF PseudonymsAreOneToOne
  <2>1. OneToOne(Named(<<"identity", "identities">>[1])) /\ OneToOne(Named(<<"id", "ids">>[1]))
      BY <1>2
  <2> QED
      BY <1>1, <2>1
<1> QED
    BY <1>3, RedactionInvariant, PTL
=============================================================================
