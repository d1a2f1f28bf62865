------------------------------ MODULE Redaction ------------------------------
(***************************************************************************)
(* RedactRun: the shareable form of a run. Every identifying value of the  *)
(* whole run is collected, sorted and numbered once; each target's report  *)
(* is then rewritten against that one table, and the finished document is  *)
(* searched for anything that survived. Redaction fails closed: a document *)
(* is returned whole or not at all.                                        *)
(*                                                                         *)
(* A text is a sequence of letters, so that one value may be part of       *)
(* another, or of a pseudonym. A pseudonym is its category and its number. *)
(***************************************************************************)
EXTENDS SequencesExt, Ranking

CONSTANT Runs   \* the runs there may be to redact

FieldKinds == {"ref", "host", "identity", "string", "id", "prose", "message"}
Results == [id : Seq(Nat), fields : Seq([kind : FieldKinds, text : Seq(Nat)])]

\* A run is the results of its targets in declared order. NewEvidence refuses
\* an empty identifier.
RunsAssumption ==
    \A results \in Runs :
        /\ results \in Seq(Results)
        /\ \A n \in DOMAIN results : \A i \in DOMAIN results[n].fields :
             results[n].fields[i].kind = "id" => results[n].fields[i].text # <<>>
ASSUME RunsAssumption

VARIABLES
    run,        \* the LOCAL_FULL results, in declared order
    table,      \* the pseudonyms assigned
    prose,      \* the replacements for free text, in order
    used,       \* what the report in hand has had replaced
    shared,     \* the results rebuilt so far
    outcome     \* none, redacting, refused or published

redactionVars == <<run, table, prose, used, shared, outcome>>

-----------------------------------------------------------------------------
(* Letters. 1..9 are the digits: a pseudonym's number, a port, or a name   *)
(* somebody chose. Addresses are single letters that parse as one.         *)

Colon == 0
InvalidPort == 9
Addresses == 21..29
Category == [hosts |-> 101, ips |-> 102, identities |-> 103, ids |-> 104, targets |-> 105]
Namespaces == {"hosts", "ips", "identities", "ids"}

\* The letters of the schema itself: keys, codes and steps of every report.
Schema == {<<31>>}

IsAddr(v) == Len(v) = 1 /\ v[1] \in Addresses

\* containsAny, for one position.
Holds(position, v) == v # <<>> /\ v \in SubSeqs(position)

\* strings.ReplaceAll.
replaceEach(s, from, to) ==
    LET rest[i \in 1..(Len(s) + 1)] ==
            IF i > Len(s) THEN <<>>
            ELSE IF i + Len(from) <= Len(s) + 1 /\ SubSeq(s, i, i + Len(from) - 1) = from
            THEN to \o rest[i + Len(from)]
            ELSE <<s[i]>> \o rest[i + 1]
    IN rest[1]

\* endpointParts: the port begins at the only colon, whatever it holds.
endpointParts(ref) ==
    LET colons == {i \in 1..Len(ref) : ref[i] = Colon} IN
    IF Cardinality(colons) # 1 THEN [host |-> ref, port |-> <<>>, hasPort |-> FALSE]
    ELSE LET at == CHOOSE i \in colons : TRUE
         IN [host |-> SubSeq(ref, 1, at - 1), port |-> SubSeq(ref, at, Len(ref)), hasPort |-> TRUE]

looksLikeEndpoint(s) ==
    LET p == endpointParts(s)
    IN p.hasPort /\ p.host # <<>> /\ Len(p.port) = 2 /\ p.port[2] \in 1..(InvalidPort - 1)

-----------------------------------------------------------------------------
(* collect: the identifying values of a field, as <<namespace, value>>.    *)
(* A field is a target, vantage or subject ("ref"), an attribute by its    *)
(* declared kind ("host", "identity", "string"), an evidence identifier    *)
(* ("id"), a finding's free text ("prose"), or the message of a target     *)
(* that failed to run ("message"), which has no other field.               *)

classifyRef(ref) ==
    LET host == endpointParts(ref).host
    IN IF host = <<>> THEN {} ELSE {<<IF IsAddr(host) THEN "ips" ELSE "hosts", host>>}

collectField(field) ==
    LET s == field.text IN
    CASE field.kind \in {"ref", "host"} -> classifyRef(s)
      [] field.kind = "identity" -> IF s = <<>> THEN {} ELSE {<<"identities", s>>}
      [] field.kind = "string" -> IF IsAddr(s) \/ looksLikeEndpoint(s) THEN classifyRef(s) ELSE {}
      [] field.kind = "id" -> {<<"ids", s>>}
      [] field.kind \in {"prose", "message"} -> {}

collect(fields) == UNION {collectField(fields[i]) : i \in 1..Len(fields)}

\* collectRun: every result is visited, and a message is not mined.
collectRun(results) == UNION {collect(results[i].fields) : i \in 1..Len(results)}

-----------------------------------------------------------------------------
(* newTable.                                                               *)

\* Sorted, compacted, numbered from one.
assign(values, category) ==
    LET order == Ranked(values, ByFields(values))
    IN [v \in values |-> <<category, CHOOSE i \in DOMAIN order : order[i] = v>>]

newTable(found) ==
    [ns \in Namespaces |-> assign({f[2] : f \in {g \in found : g[1] = ns}}, Category[ns])]

longer(a, b) ==
    \/ Len(a.from) > Len(b.from)
    \/ Len(a.from) = Len(b.from) /\ LexBefore(a.from, b.from)

\* The replacements of a table. A value of two namespaces has two of one length
\* and text: which comes first is up to map order, the sort not being stable.
proseOrders(t) ==
    LET all == UNION {{[from |-> v, to |-> t[ns][v]] : v \in DOMAIN t[ns]} : ns \in Namespaces}
        either(a, b, peersFirst) == IF peersFirst THEN LexBefore(a.to, b.to) ELSE LexBefore(b.to, a.to)
    IN {Ranked(all, {p \in all \X all :
                       \/ longer(p[1], p[2])
                       \/ p[1].from = p[2].from /\ either(p[1], p[2], peersFirst)}) :
        peersFirst \in BOOLEAN}

-----------------------------------------------------------------------------
(* Rewriting a field: where its value is looked up, if anywhere.           *)

Unknown == [ns |-> "none", value |-> <<>>, port |-> <<>>]
In(ns, value, port) == [ns |-> ns, value |-> value, port |-> port]
knows(t, ns, v) == v \in DOMAIN t[ns]

\* value and endpointRef.
endpointRef(t, ref) ==
    LET p  == endpointParts(ref)
        ns == IF IsAddr(p.host) THEN "ips" ELSE "hosts"
    IN IF p.host # <<>> /\ knows(t, ns, p.host) THEN In(ns, p.host, p.port) ELSE Unknown

\* attrValue: the peers first, whole and then without the port.
attrValue(t, s) ==
    LET p == endpointParts(s) IN
    CASE knows(t, "ips", s) -> In("ips", s, <<>>)
      [] ~knows(t, "ips", s) /\ knows(t, "hosts", s) -> In("hosts", s, <<>>)
      [] OTHER ->
           IF p.hasPort /\ knows(t, "ips", p.host) THEN In("ips", p.host, p.port)
           ELSE IF p.hasPort /\ knows(t, "hosts", p.host) THEN In("hosts", p.host, p.port)
           ELSE IF knows(t, "identities", s) THEN In("identities", s, <<>>)
           ELSE Unknown

lookup(t, field) ==
    CASE field.kind = "ref" -> endpointRef(t, field.text)
      [] field.kind \in {"host", "string"} -> attrValue(t, field.text)
      [] field.kind = "identity" ->
           IF knows(t, "identities", field.text) THEN In("identities", field.text, <<>>) ELSE Unknown
      [] field.kind = "id" -> In("ids", field.text, <<>>)
      [] field.kind \in {"prose", "message"} -> Unknown

\* text.
text(replacements, s) ==
    FoldLeft(LAMBDA out, r : replaceEach(out, r.from, r.to), s, replacements)

\* redactedExecutionMessage: a text of svcdoctor's own, chosen by the class.
Withheld == <<32>>

rewrite(t, replacements, field) ==
    LET l == lookup(t, field) IN
    CASE field.kind = "prose" -> [field EXCEPT !.text = text(replacements, @)]
      [] field.kind = "message" -> [field EXCEPT !.text = Withheld]
      [] field.kind \notin {"prose", "message"} ->
           IF l = Unknown THEN field ELSE [field EXCEPT !.text = t[l.ns][l.value] \o l.port]

\* What rewriting the field records: a value of a namespace, or a prose field.
usage(t, replacements, n, field) ==
    LET l == lookup(t, field) IN
    IF field.kind = "prose"
    THEN IF text(replacements, field.text) # field.text THEN {<<"prose", n>>} ELSE {}
    ELSE IF l = Unknown THEN {} ELSE {<<l.ns, l.value>>}

-----------------------------------------------------------------------------
(* The steps of RedactRun.                                                 *)

Values(t) == UNION {DOMAIN t[ns] : ns \in Namespaces}
Texts(fields) == {fields[i].text : i \in 1..Len(fields)} \cup Schema
survives(values, positions) == \E v \in values, p \in positions : Holds(p, v)

HasReport(result) == \A i \in 1..Len(result.fields) : result.fields[i].kind # "message"

EmptyTable == [ns \in Namespaces |-> [v \in {} |-> <<>>]]

RedactRun ==
    /\ outcome = "none"
    /\ table' = newTable(collectRun(run))
    /\ prose' \in proseOrders(table')
    /\ outcome' = "redacting"
    /\ UNCHANGED <<run, used, shared>>

\* resetUsage: assignments are shared, counters are not.
resetUsage(before) == {}

\* Mutant: each report is numbered by itself.
tableForOwn(n) == newTable(collect(run[n].fields))

\* One table for the whole run.
tableFor(n) == table

\* targetAliases: in declared order.
alias(n) == <<Category.targets, n>>

\* redactTargetResult: a report is rebuilt and searched with redactWith; the
\* message of a target that failed to run is replaced, never searched.
RedactTarget ==
    LET n     == Len(shared) + 1
        t     == tableFor(n)
        old   == run[n].fields
        new   == [i \in 1..Len(old) |-> rewrite(t, prose, old[i])]
        uses  == resetUsage(used) \cup UNION {usage(t, prose, i, old[i]) : i \in 1..Len(old)}
    IN /\ outcome = "redacting" /\ n <= Len(run)
       /\ used' = uses
       /\ IF HasReport(run[n]) /\ survives(Values(t), Texts(new))
          THEN outcome' = "refused" /\ UNCHANGED shared
          ELSE /\ shared' = Append(shared, [id |-> alias(n), fields |-> new,
                                            counts |-> uses])
               /\ UNCHANGED outcome
       /\ UNCHANGED <<run, table, prose>>

\* verifyNoRunResidual, over the finished document: containment for values,
\* equality for the identifiers of targets.
Finish ==
    /\ outcome = "redacting" /\ Len(shared) = Len(run)
    /\ outcome' =
         IF \/ survives(Values(table), UNION {Texts(r.fields) \cup {r.id} : r \in ToSet(shared)})
            \/ \E r \in ToSet(shared), o \in ToSet(run) : r.id = o.id
         THEN "refused" ELSE "published"
    /\ UNCHANGED <<run, table, prose, used, shared>>

Settled == outcome \in {"refused", "published"} /\ UNCHANGED redactionVars

RedactionIdle ==
    table = EmptyTable /\ prose = <<>> /\ used = {} /\ shared = <<>>

RedactionInit == RedactionIdle /\ outcome = "none" /\ run \in Runs

RedactionNext == RedactRun \/ RedactTarget \/ Finish \/ Settled

RedactionSpec == RedactionInit /\ [][RedactionNext]_redactionVars
-----------------------------------------------------------------------------
(* Properties.                                                             *)

\* Each field of the run as it was and as it is shared.
Shared ==
    UNION {{<<run[n].fields[i], shared[n].fields[i].text>> : i \in DOMAIN run[n].fields} :
             n \in DOMAIN run}

\* The hosts of references and host attributes. A port alone names no one.
PeerParts ==
    {p \in {<<endpointParts(s[1].text).host, endpointParts(s[2]).host>> :
               s \in {q \in Shared : q[1].kind \in {"ref", "host"}}} : p[1] # <<>>}
Named(kind) == {<<s[1].text, s[2]>> : s \in {q \in Shared : q[1].kind = kind}}

OneToOne(pairs) == \A p, q \in pairs : p[1] = q[1] <=> p[2] = q[2]

\* "Preserve correlation, remove identity": in a run that is shared, two peers,
\* two declared identities or two evidence identifiers have one pseudonym exactly
\* when they were one, in whichever targets they occur.
PseudonymsAreOneToOne ==
    outcome = "published" =>
        OneToOne(PeerParts) /\ OneToOne(Named("identity")) /\ OneToOne(Named("id"))

\* In a run that is shared, a sentence names a pseudonym only if it named the
\* value, and then does unless a longer value covered it. A name made of a
\* pseudonym's own letters refuses the document.
SentencesCorrelate ==
    outcome = "published" =>
        \A s \in Named("prose"), ns \in Namespaces : \A v \in DOMAIN table[ns] :
          /\ Holds(s[2], table[ns][v]) => Holds(s[1], v)
          /\ Holds(s[1], v) =>
               \/ \E other \in Namespaces :
                     knows(table, other, v) /\ Holds(s[2], table[other][v])
               \/ \E w \in Values(table) : w # v /\ Holds(w, v) /\ Holds(s[1], w)

\* Each report's security metadata describes its own transformation: what is
\* counted was in this report, and everything identifying in it is counted,
\* though the table was built for, and used by, the reports before it.
CountsAreOwn ==
    \A n \in 1..Len(shared) :
        LET structured == {u \in shared[n].counts : u[1] # "prose"}
            rewritten  == {i \in 1..Len(run[n].fields) : run[n].fields[i].kind = "prose"
                              /\ run[n].fields[i].text # shared[n].fields[i].text}
        IN /\ collect(run[n].fields) \subseteq structured
           /\ \A u \in structured : \E i \in 1..Len(run[n].fields) :
                Holds(run[n].fields[i].text, u[2])
           /\ Cardinality(shared[n].counts \ structured) = Cardinality(rewritten)

\* A shared document correlates as the local one did, and counts as its own
\* exactly what was taken out of it.
SharedIsFaithful == PseudonymsAreOneToOne /\ SentencesCorrelate /\ CountsAreOwn
=============================================================================
