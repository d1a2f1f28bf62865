------------------------------ MODULE MCParts ------------------------------
(* The parts every journey shares, one at a time with the others at rest.   *)
(*                                                                          *)
(* The graph: three identifiers, the least with a cycle no pair of edges    *)
(* shows; a builder is called, or one of its searches runs on any relation. *)
(*                                                                          *)
(* The engine: three rules, and inputs that differ in every field the merge *)
(* reconciles or keeps apart: kind, severity, confidence, question,         *)
(* evidence and advice.                                                     *)
(*                                                                          *)
(* Redaction: two targets. A name 11 that is part of the name 11.12, a name *)
(* 3 that is a digit, a name 31 that is a word of the schema, an address    *)
(* 21; a target identifier that is another target's pseudonym.              *)
(*                                                                          *)
(* One connection and its exchanges, under bindDeadline.                    *)
(*                                                                          *)
(* The transport sweep of a host with up to MaxAddr addresses.              *)
EXTENDS EvidenceGraph, GraphWalk, FindCycle, Convergence, Redaction,
        ExchangeDeadline, Transport, TLC

CONSTANTS n1, n2, n3, MaxAddr

MCNodes == {n1, n2, n3}
MCAddr  == 1..MaxAddr

-----------------------------------------------------------------------------
Observe   == [action |-> 1, remediates |-> FALSE]
Compare   == [action |-> 2, remediates |-> FALSE]
Remediate == [action |-> 3, remediates |-> TRUE]

Hypothesis(q, c, r, a) ==
    [code |-> 1, subject |-> 1, layer |-> 3, summary |-> 1, detail |-> 1, discriminator |-> q,
     kind |-> "HYPOTHESIS", severity |-> 2, confidence |-> c, vantage |-> FALSE,
     refs |-> {r}, advice |-> a]
Proof(c, r, a) ==
    [Hypothesis(0, c, r, a) EXCEPT !.kind = "CONFIRMED", !.severity = 3, !.vantage = TRUE]

MCInputs ==
    { Hypothesis(0, 1, 1, <<Compare, Observe>>),
      Hypothesis(1, 2, 2, <<Observe>>),
      Hypothesis(2, 2, 1, <<Compare>>),
      Hypothesis(1, 3, 3, <<Remediate>>),
      Proof(2, 1, <<Observe>>),
      Proof(3, 3, <<Remediate, Compare>>),
      [Proof(3, 2, <<>>) EXCEPT !.detail = 2],
      [Proof(3, 2, <<>>) EXCEPT !.subject = 2, !.layer = 2],
      [Proof(3, 1, <<>>) EXCEPT !.layer = 4],
      [Proof(3, 1, <<>>) EXCEPT !.discriminator = 1],
      [Proof(3, 1, <<>>) EXCEPT !.refs = {}] }

-----------------------------------------------------------------------------
Field(kind, letters) == [kind |-> kind, text |-> letters]

MCReports ==
    {<<Field("ref", r), Field("host", h), Field("identity", i), Field("string", s),
       Field("prose", p), Field("id", <<41, 11>>)>> :
        r \in {<<11>>, <<11, 12, 0, 4>>, <<0, 9>>, <<3>>, <<21, 0, 4>>},
        h \in {<<11, 12>>, <<21>>},
        i \in {<<11>>, <<12>>, <<>>},
        s \in {<<33>>, <<11>>, <<13, 0, 4>>},
        p \in {<<11, 12, 33, 11>>, <<12, 13, 21>>}}
MCSecondReports ==
    {<<Field("message", <<11>>)>>} \cup
    {<<Field("ref", r), Field("prose", p), Field("id", <<41>>)>> :
        r \in {<<11>>, <<12, 0, 4>>, <<31>>}, p \in {<<12, 13, 21>>, <<41, 11>>}}
MCRuns ==
    {<<[id |-> id, fields |-> a], [id |-> <<14>>, fields |-> b]>> :
        id \in {<<13>>, <<105, 2>>}, a \in MCReports, b \in MCSecondReports}

-----------------------------------------------------------------------------
builderVars == <<node, parents, blockedBy, reply>>
partsVars == <<builderVars, walkVars, searchVars, engineVars, redactionVars,
               deadlineVars, transportVars>>

WalkAtRest ==
    /\ rel = {} /\ start = n1 /\ target = n2
    /\ stack = <<>> /\ seen = {n1} /\ ahead = {} /\ at = "no"

SearchAtRest ==
    /\ relation = {} /\ starts = {}
    /\ mark = [x \in MCNodes |-> "unvisited"] /\ todo = [x \in MCNodes |-> {}]
    /\ path = <<>> /\ verdict = "none"

EngineAtRest == engine = "idle"
RedactionAtRest == outcome = "idle"
ExchangeAtRest == doing = "rest"

\* A sweep over an endpoint with no address yet, refused as its context ended.
TransportAtRest ==
    /\ params = [literal |-> FALSE, tls |-> FALSE, insecure |-> FALSE, usableName |-> TRUE,
                 stepTimeout |-> FALSE, collides |-> TRUE, parentKnown |-> TRUE]
    /\ ctx = "deadline" /\ step = "deadline" /\ pc = "failed" /\ heard = "ok"
    /\ located = {} /\ pending = {} /\ cur = 1
    /\ dns = NoNode /\ blocked = {} /\ open = {} /\ held = {}
    /\ tcp = [a \in Addr |-> NoNode] /\ tls = [a \in Addr |-> NoNode]
    /\ conn = Nothing /\ session = Nothing /\ paths = [a \in Addr |-> Nothing]
    /\ channel = [a \in Addr |-> "unknown"]

EngineRests == EngineIdle /\ EngineAtRest
RedactionRests == RedactionIdle /\ RedactionAtRest /\ run = <<>>
ExchangeRests == DeadlineIdle /\ ExchangeAtRest

SearchesRest == WalkAtRest /\ SearchAtRest
OthersRest == EngineRests /\ RedactionRests /\ ExchangeRests

PartsInit ==
    /\ Init
    /\ \/ WalkInit /\ SearchAtRest /\ OthersRest /\ TransportAtRest
       \/ WalkAtRest /\ SearchInit /\ OthersRest /\ TransportAtRest
       \/ /\ SearchesRest /\ EngineInit
          /\ RedactionRests /\ ExchangeRests /\ TransportAtRest
       \/ /\ SearchesRest /\ RedactionInit
          /\ EngineRests /\ ExchangeRests /\ TransportAtRest
       \/ /\ SearchesRest /\ DeadlineInit
          /\ EngineRests /\ RedactionRests /\ TransportAtRest
       \/ SearchesRest /\ OthersRest /\ TransportInit

Building ==
    /\ SearchesRest /\ EngineAtRest /\ RedactionAtRest /\ ExchangeAtRest /\ TransportAtRest
    /\ Next

Searching ==
    \/ WalkNext /\ UNCHANGED searchVars
    \/ SearchNext /\ UNCHANGED walkVars

PartsNext ==
    \/ /\ Building
       /\ UNCHANGED <<walkVars, searchVars, engineVars, redactionVars, deadlineVars,
                      transportVars>>
    \/ /\ Searching
       /\ UNCHANGED <<builderVars, engineVars, redactionVars, deadlineVars, transportVars>>
    \/ /\ EngineNext
       /\ UNCHANGED <<builderVars, walkVars, searchVars, redactionVars, deadlineVars,
                      transportVars>>
    \/ /\ RedactionNext
       /\ UNCHANGED <<builderVars, walkVars, searchVars, engineVars, deadlineVars,
                      transportVars>>
    \/ /\ ~ExchangeAtRest /\ DeadlineNext
       /\ UNCHANGED <<builderVars, walkVars, searchVars, engineVars, redactionVars,
                      transportVars>>
    \/ /\ TransportNext
       /\ UNCHANGED <<builderVars, walkVars, searchVars, engineVars, redactionVars,
                      deadlineVars>>

\* The searches are loops of a running goroutine; the exchange and the sweep
\* have their own.
PartsSpec ==
    /\ PartsInit /\ [][PartsNext]_partsVars
    /\ WF_walkVars(WalkNext) /\ WF_searchVars(SearchNext)
    /\ DeadlineFairness /\ TransportFairness

\* The builder's two searches end, on a relation with a cycle too: each node is
\* visited once (reachable and findCycle have no other bound).
SearchesTerminate == WalkTerminates /\ SearchTerminates
=============================================================================
