------------------------------- MODULE Journey -------------------------------
(***************************************************************************)
(* What the service journeys share: how an exchange on a connection ends,  *)
(* which path continues past the credential boundary (selectPath), and     *)
(* when a run was cut short (incompleteRun).                               *)
(***************************************************************************)
EXTENDS Transport

\* How an exchange ends without an answer to it: cut short by the run's
\* context, by its own step timeout, or by the peer (it closed, or sent what
\* the step does not allow).
Broken == {"interrupted", "timeout", "closed"}

\* An exchange is cut short by the context only once the context ended.
MayReturn(r) == r = "interrupted" => ctx # "live"

\* The part of classify every observation shares: the caller's limits first,
\* then svcdoctor's own ("limit": more than it reads or computes), then what
\* the wire reported.
classifyBroken(r, ended) ==
    CASE ended = "cancelled" -> Node("UNKNOWN", "CANCELLED")
      [] ended = "deadline"  -> Node("UNKNOWN", "LOCAL_TIMEOUT")
      [] ended = "live" /\ r = "timeout" -> Node("UNKNOWN", "LOCAL_TIMEOUT")
      [] ended = "live" /\ r = "limit"   -> Node("UNKNOWN", "UNSUPPORTED")
      [] OTHER -> Node("FAIL", "TARGET")

\* Mutant: any encrypted channel will do.
PermitsAnyTLS(c) == c \in {"tls_verified", "tls_unverified"}

\* RequireVerifiedTLS, the only policy there is.
PermitsCredentials(c) == c = "tls_verified"

\* selectPath: among the candidates the class the run can use (they demand
\* authentication exactly if there is a credential), else all of them; then
\* the canonical minimum.
Preferred(candidates, demanding, wanted) ==
    IF wanted THEN candidates \cap demanding ELSE candidates \ demanding

Eligible(candidates, demanding, wanted) ==
    IF Preferred(candidates, demanding, wanted) # {}
    THEN Preferred(candidates, demanding, wanted) ELSE candidates

IsChosen(a, candidates, demanding, wanted) ==
    /\ a \in Eligible(candidates, demanding, wanted)
    /\ \A b \in Eligible(candidates, demanding, wanted) : a <= b

BudgetClasses == {"CANCELLED", "LOCAL_TIMEOUT"}
CutShort(n) == n.state = "UNKNOWN" /\ n.class \in BudgetClasses

incompleteRun(recorded, established) ==
    \/ ctx # "live"
    \/ ~established /\ \E n \in recorded : CutShort(n)

\* The transport nodes of the graph.
SweepNodes == {dns} \cup {tcp[a] : a \in Addr} \cup {tls[a] : a \in Addr}
=============================================================================
