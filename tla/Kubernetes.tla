----------------------------- MODULE Kubernetes -----------------------------
(***************************************************************************)
(* A Kubernetes run: the target is inspected, the kubeconfig is read again *)
(* when the run connects, one Service is read, and the Pods it selects and *)
(* the EndpointSlices published for it are listed page by page, each list  *)
(* under its own ceilings. The rules then read the five nodes recorded.    *)
(*                                                                         *)
(* The kubeconfig is a file anybody may rewrite between the two readings;  *)
(* the API server is external, and the lists are not snapshots.            *)
(***************************************************************************)
EXTENDS Diagnosis, FiniteSets, Sequences, SequencesExt

CONSTANTS
    MaxPages,      \* budgets.MaxPages
    MaxPods,       \* budgets.MaxPods
    MaxSlices,     \* budgets.MaxSlices
    MaxEndpoints,  \* budgets.MaxEndpoints
    PageSize,      \* budgets.PageSize: the most objects in a page
    Slices         \* the EndpointSlices there may be: a name, an owner, endpoints in order

ASSUME BudgetsAssumption == MaxPages \in Nat \ {0} /\ PageSize \in Nat \ {0}

\* Names and deduplication keys are numbers, in the order of the strings.
ASSUME SlicesAssumption ==
    /\ IsFiniteSet(Slices)
    /\ \A slice \in Slices :
         /\ slice.name \in Nat
         /\ slice.endpoints \in Seq([key : Nat, ready : BOOLEAN])

VARIABLES
    kfile,     \* the selected context of the kubeconfig, as it is on disk
    kdecl,     \* the target: in-cluster or not, with a credential or not
    kbound,    \* the endpoint Inspect bound a supplied credential to
    kauth,     \* the authority connected with: server and identity
    kstage,    \* where the run is
    kctx,      \* the run's context
    access, service, pods, publication,  \* the stages of client.Result
    kfacts,    \* the Service's type and selector
    acc,       \* the publicationAccumulator
    whole,     \* the lists the API returned to the last page, with no token left
    served,    \* what the API returned: how many Pods, which slices
    krequests, \* round trips made
    kincomplete

configVars == <<kfile, kdecl, kbound>>
stageVars  == <<access, service, pods, publication, kfacts>>
listVars   == <<acc, whole, served>>
k8sVars == <<configVars, kauth, kstage, kctx, stageVars, listVars, krequests, kincomplete>>

-----------------------------------------------------------------------------
(* The target and its authority.                                           *)

\* What the selected user may declare.
Declared == {"token", "tokenFile", "cert", "key"}

\* One selected context: its server, whether cluster or user declares something
\* prohibited, what the user declares, and whether each file it names is usable.
Contexts ==
    [server : {"A", "B", "plaintext"}, prohibited : BOOLEAN, user : SUBSET Declared,
     usable : BOOLEAN, present : BOOLEAN]

\* A kubeconfig that is not read, in-cluster or once connected, may be any.
Unread == CHOOSE c \in Contexts : TRUE
ContextsOf(decl) == IF decl.inCluster THEN {Unread} ELSE Contexts

Supplied == kdecl.supplied

\* resolveKubeconfigMode: exactly one credential, a certificate with its key.
Modes(user) ==
    (user \cap {"token", "tokenFile"}) \cup (IF user \cap {"cert", "key"} # {} THEN {"cert"} ELSE {})

modeResolves(c, supplied) ==
    LET declared == Cardinality(Modes(c.user)) + (IF supplied THEN 1 ELSE 0)
    IN /\ declared = 1
       /\ "cert" \in Modes(c.user) => {"cert", "key"} \subseteq c.user

\* loadKubeconfig, and the endpoint of its server.
loadKubeconfig(c, supplied) ==
    /\ c.present /\ ~c.prohibited /\ c.usable
    /\ c.server # "plaintext"
    /\ modeResolves(c, supplied)

\* Target.Validate leaves in-cluster, or a kubeconfig with a context.
Authorizes(c, supplied) ==
    IF kdecl.inCluster THEN ~supplied ELSE loadKubeconfig(c, supplied)

EndpointOf(c) == IF kdecl.inCluster THEN "kubernetes.default.svc" ELSE c.server

NothingRead == UNCHANGED <<kctx, stageVars, listVars, krequests, kincomplete>>

\* Inspect, before the run: a refusal is a configuration error. A supplied
\* credential is bound to the endpoint found here.
Inspect ==
    /\ kstage = "declared"
    /\ kstage' = IF Authorizes(kfile, Supplied) THEN "inspected" ELSE "refused"
    /\ kbound' = EndpointOf(kfile)
    /\ UNCHANGED <<kfile, kdecl, kauth>> /\ NothingRead

\* Somebody rewrites the kubeconfig before the run connects.
Rewrite(c) ==
    /\ kstage = "inspected"
    /\ kfile' = c
    /\ kstage' = "rewritten"
    /\ UNCHANGED <<kdecl, kbound, kauth>> /\ NothingRead

\* Mutant: a credential bound elsewhere is bound again.
bindCredentialAgain(c) == TRUE

\* bindCredential: a supplied credential is never pointed at another endpoint.
bindCredential(c) == Supplied => kbound = EndpointOf(c)

\* Connect. In-cluster, the projected token and the environment may be gone.
Connect(projected) ==
    /\ kstage \in {"inspected", "rewritten"}
    /\ IF Authorizes(kfile, Supplied) /\ bindCredential(kfile) /\ (kdecl.inCluster => projected)
       THEN /\ kstage' = "get"
            /\ kauth' = [server |-> EndpointOf(kfile), trusted |-> kdecl.inCluster \/ ~kfile.prohibited,
                         identities |-> IF kdecl.inCluster THEN {"serviceAccount"}
                                        ELSE Modes(kfile.user) \cup
                                             (IF Supplied THEN {"supplied"} ELSE {})]
       ELSE kstage' = "refused" /\ UNCHANGED kauth
    /\ kfile' = Unread
    /\ UNCHANGED <<kdecl, kbound>> /\ NothingRead

-----------------------------------------------------------------------------
(* One request.                                                            *)

\* classify: the run's own context first, then the peer. "transport" stands for
\* a failed dial and for each certificate failure, "error" for any other status;
\* client-go has time limits of its own, so an error may be a "timeout" or
\* "cancelled" while the run's context is live.
Failures == {"none", "unauthorized", "forbidden", "notFound", "expired", "error", "transport",
             "timeout", "cancelled"}
classifyAPI(r) ==
    CASE r = "none" -> "none"
      [] r # "none" /\ (r = "timeout" \/ kctx = "deadline") -> "timeout"
      [] r \notin {"none", "timeout"} /\ kctx = "cancelled" -> "cancelled"
      [] OTHER -> r

Tick(c) ==
    /\ kctx = "live"
    /\ kstage \notin {"done", "refused"}
    /\ kctx' = c
    /\ UNCHANGED <<configVars, kauth, kstage, stageVars, listVars, krequests, kincomplete>>

Skip(reason) == [attempted |-> FALSE, skip |-> reason, failure |-> "none", stop |-> "complete", pages |-> 0,
                 observed |-> 0]
Stage(failure) == [Skip("none") EXCEPT !.attempted = TRUE, !.failure = failure]
Enumeration == Stage("none")

SkipLists(reason) == pods' = Skip(reason) /\ publication' = Skip(reason)

Requesting == UNCHANGED <<configVars, kauth, kctx, kincomplete>>

-----------------------------------------------------------------------------
(* readService.                                                            *)

NotRead ==
    /\ kstage = "get" /\ kctx # "live"
    /\ kstage' = "record"
    /\ access' = Skip("cancelled") /\ service' = Skip("cancelled")
    /\ SkipLists("cancelled")
    /\ UNCHANGED <<kfacts, listVars, krequests>> /\ Requesting

SendGet ==
    /\ kstage = "get" /\ kctx = "live"
    /\ kstage' = "getting"
    /\ UNCHANGED <<stageVars, listVars, krequests>> /\ Requesting

AccessFailures == {"unauthorized", "transport", "timeout", "cancelled"}

\* A 401 and a request without an answer fail the access stage; any other
\* status is an answer about the Service from a server that accepted it.
ServiceRefused(r) ==
    LET f == classifyAPI(r) IN
    /\ kstage = "getting"
    /\ r # "none"
    /\ kstage' = "record"
    /\ krequests' = krequests + 1
    /\ IF f \in AccessFailures
       THEN /\ access' = Stage(f) /\ service' = Skip("apiAccessFailed")
            /\ SkipLists("apiAccessFailed")
       ELSE /\ access' = Stage("none") /\ service' = Stage(f)
            /\ SkipLists("serviceUnavailable")
    /\ UNCHANGED <<kfacts, listVars>> /\ Requesting

\* plannedReads: a supported type with a selector, or neither list is read.
ServiceRead(facts) ==
    /\ kstage = "getting"
    /\ krequests' = krequests + 1
    /\ access' = Stage("none") /\ service' = Stage("none")
    /\ kfacts' = facts
    /\ IF facts.supported /\ facts.selector
       THEN /\ kstage' = "pods" /\ pods' = Enumeration /\ UNCHANGED publication
       ELSE /\ kstage' = "record"
            /\ SkipLists(IF facts.supported THEN "selectorLess" ELSE "unsupportedType")
    /\ UNCHANGED listVars /\ Requesting

-----------------------------------------------------------------------------
(* paginate, for either list.                                              *)

ListsPods == kstage \in {"pods", "podsPage"}
List      == IF ListsPods THEN pods ELSE publication
Listed    == IF ListsPods THEN "pods" ELSE "publication"
Put(e)    == IF ListsPods THEN pods' = e /\ UNCHANGED publication
                          ELSE publication' = e /\ UNCHANGED pods
MaxObjects == IF ListsPods THEN MaxPods ELSE MaxSlices
EndList    == kstage' = IF ListsPods THEN "between" ELSE "record"

\* Mutant: one page more than the ceiling.
mayFetchAnother(e) == e.pages <= MaxPages

mayFetch(e) == e.pages < MaxPages

\* Mutant: the loop that ends at the page ceiling says nothing of it.
cutShortUnsaid(e) ==
    IF ~mayFetch(e) THEN e
    ELSE [e EXCEPT !.stop = "cancelled", !.failure = classifyAPI("error")]

\* What is said of a list the loop leaves with a token outstanding.
cutShort(e) ==
    IF ~mayFetch(e) THEN [e EXCEPT !.stop = "pageLimit"]
    ELSE [e EXCEPT !.stop = "cancelled", !.failure = classifyAPI("error")]

\* The loop's end, and the check before each request.
StopBefore ==
    /\ kstage \in {"pods", "publication"}
    /\ ~mayFetch(List) \/ kctx # "live"
    /\ Put(cutShort(List))
    /\ EndList
    /\ UNCHANGED <<access, service, kfacts, listVars, krequests>> /\ Requesting

Fetch ==
    /\ kstage \in {"pods", "publication"}
    /\ mayFetch(List) /\ kctx = "live"
    /\ kstage' = IF ListsPods THEN "podsPage" ELSE "publicationPage"
    /\ UNCHANGED <<stageVars, listVars, krequests>> /\ Requesting

\* There is no retry: a request that fails ends the list.
PageFails(r) ==
    LET f == classifyAPI(r) IN
    /\ kstage \in {"podsPage", "publicationPage"}
    /\ r # "none"
    /\ krequests' = krequests + 1
    /\ Put([List EXCEPT !.pages = @ + 1, !.failure = f,
              !.stop = CASE f = "expired" -> "expired"
                         [] f \in {"cancelled", "timeout"} -> "cancelled"
                         [] OTHER -> "requestFailed"])
    /\ EndList
    /\ UNCHANGED <<access, service, kfacts, listVars>> /\ Requesting

\* consumeEndpoints, one endpoint: counted under the key it is first seen with.
consumeEndpoint(a, e) ==
    IF a.stop # "complete" \/ e.key \in a.seen THEN a
    ELSE IF Cardinality(a.seen) >= MaxEndpoints THEN [a EXCEPT !.stop = "endpointLimit"]
    ELSE [a EXCEPT !.seen = @ \cup {e.key}, !.ready = @ + (IF e.ready THEN 1 ELSE 0)]

\* associated: a slice another generation of the Service owns is not counted.
associated(slice) == slice.owner # "other"

consumeSlice(a, slice) ==
    IF a.stop = "complete" /\ associated(slice)
    THEN FoldLeft(consumeEndpoint, a, slice.endpoints) ELSE a

\* consume: a page's slices are counted in the order of their names, whatever
\* order the API returned them in. Pods are only counted.
LastByName(slices) == CHOOSE x \in slices : \A y \in slices : y.name <= x.name
consume(a, items) ==
    IF ListsPods THEN a
    ELSE MapThenFoldSet(LAMBDA slice, b : consumeSlice(b, slice), a, LAMBDA slice : slice,
                        LastByName, items)

\* A page arrives: it is consumed, and the list ends, hits a ceiling with more
\* to come, or goes on from the token.
PageReturns(items, next) ==
    LET acc2 == consume(acc, items)
        e    == [List EXCEPT !.pages = @ + 1, !.observed = @ + Cardinality(items)]
        stop == CASE acc2.stop # "complete" -> acc2.stop
                  [] acc2.stop = "complete" /\ next /\ e.observed >= MaxObjects -> "objectLimit"
                  [] OTHER -> "complete"
        over == stop # "complete" \/ ~next
    IN /\ kstage \in {"podsPage", "publicationPage"}
       /\ krequests' = krequests + 1
       /\ acc' = acc2
       /\ whole' = IF next THEN whole ELSE whole \cup {Listed}
       /\ served' = IF ListsPods THEN [served EXCEPT !.pods = @ + Cardinality(items)]
                                 ELSE [served EXCEPT !.slices = @ \cup items]
       /\ Put([e EXCEPT !.stop = stop])
       /\ IF over THEN EndList ELSE kstage' = IF ListsPods THEN "pods" ELSE "publication"
       /\ UNCHANGED <<access, service, kfacts>> /\ Requesting

\* The second list does not begin once the run's context ended.
BeginPublication ==
    /\ kstage = "between"
    /\ IF kctx = "live" THEN publication' = Enumeration /\ kstage' = "publication"
       ELSE publication' = Skip("cancelled") /\ kstage' = "record"
    /\ UNCHANGED <<access, service, pods, kfacts, listVars, krequests>> /\ Requesting

-----------------------------------------------------------------------------
(* The five nodes, and what the run says of itself.                        *)

Complete(e) == e.attempted /\ e.stop = "complete"

unfinished(st) == st.attempted /\ st.failure \in {"timeout", "cancelled", "error", "expired"}

Incomplete ==
    \/ unfinished(access) \/ unfinished(service)
    \/ \E e \in {pods, publication} : e.attempted /\ ~Complete(e)
    \/ ~access.attempted

\* failureState, skipClass and enumerationState.
failureState(f) ==
    CASE f = "none" -> [state |-> "PASS", class |-> "NONE"]
      [] f = "unauthorized" -> [state |-> "FAIL", class |-> "REJECTED"]
      [] f = "forbidden" -> [state |-> "UNKNOWN", class |-> "AUTHZ_DENIED"]
      [] f = "notFound" -> [state |-> "FAIL", class |-> "NOT_FOUND"]
      [] f \in {"expired", "error"} -> [state |-> "UNKNOWN", class |-> "UNEXPECTED"]
      [] f = "transport" -> [state |-> "FAIL", class |-> "TARGET"]
      [] f = "timeout" -> [state |-> "UNKNOWN", class |-> "LOCAL_TIMEOUT"]
      [] f = "cancelled" -> [state |-> "UNKNOWN", class |-> "CANCELLED"]

skipClass(reason) ==
    CASE reason \in {"selectorLess", "unsupportedType"} -> "UNSUPPORTED"
      [] reason = "cancelled" -> "CANCELLED"
      [] OTHER -> "PREREQUISITE"

nodeState(e) ==
    CASE ~e.attempted -> [state |-> "SKIPPED", class |-> skipClass(e.skip)]
      [] e.attempted /\ (e.failure # "none" \/ e.stop = "complete") -> failureState(e.failure)
      [] OTHER -> [state |-> "UNKNOWN", class |-> "DEPTH_LIMIT"]

targetNode == Ev(0, 0, "kubernetes.target", Target, [state |-> "PASS", class |-> "NONE"])
accessNode == Ev(5, 1, "kubernetes.api_access", Target, nodeState(access))
serviceNode == Ev(6, 1, "kubernetes.service", Target, nodeState(service))
podsNode == Ev(6, 2, "kubernetes.pod_set", Target, nodeState(pods))
publicationNode == Ev(6, 3, "kubernetes.endpoint_publication", Target, nodeState(publication))
K8sEvidence == {targetNode, accessNode, serviceNode, podsNode, publicationNode}

\* blockerFor and link: which node kept a skipped one from running.
blockerOf(e) ==
    IF e = serviceNode THEN accessNode
    ELSE IF (IF e = podsNode THEN pods ELSE publication).skip = "apiAccessFailed"
         THEN accessNode ELSE serviceNode

Record ==
    /\ kstage = "record"
    /\ kstage' = "done"
    /\ kincomplete' = (Incomplete \/ kctx # "live")
    /\ UNCHANGED <<configVars, kauth, kctx, stageVars, listVars, krequests>>

-----------------------------------------------------------------------------
(* The rules.                                                              *)

\* Acquisition: serviceNotFound and accessDenied.
Acquisition ==
    {Finding("KUBERNETES_SERVICE_NOT_FOUND", "ERROR", 6, Target, {e}) :
        e \in {n \in {serviceNode} : n.state = "FAIL" /\ n.class = "NOT_FOUND"}}
    \cup
    {Finding("KUBERNETES_API_ACCESS_DENIED", "WARN", 6, Target, {e}) :
        e \in {n \in {serviceNode, podsNode, publicationNode} :
                 n.state = "UNKNOWN" /\ n.class = "AUTHZ_DENIED"}}

serviceGate == serviceNode.state = "PASS" /\ kfacts.supported /\ kfacts.selector

selectsNoPods ==
    serviceGate /\ podsNode.state = "PASS" /\ Complete(pods) /\ pods.observed = 0

noReadyEndpoint ==
    /\ serviceGate /\ ~selectsNoPods
    /\ publicationNode.state = "PASS" /\ Complete(publication) /\ acc.ready = 0

Backends ==
    (IF selectsNoPods
     THEN {Finding("KUBERNETES_SERVICE_SELECTS_NO_PODS", "ERROR", 6, Target,
                   {serviceNode, podsNode})} ELSE {})
    \cup
    (IF noReadyEndpoint
     THEN {Finding("KUBERNETES_SERVICE_NO_READY_ENDPOINT", "ERROR", 6, Target,
                   {serviceNode, publicationNode})} ELSE {})

K8sFindings == FailureBoundary(K8sEvidence) \cup Acquisition \cup Backends

-----------------------------------------------------------------------------
(* The specification.                                                      *)

NoAuthority == [server |-> "none", trusted |-> FALSE, identities |-> {}]
NoFacts == [supported |-> FALSE, selector |-> FALSE]

K8sIdle ==
    /\ kauth = NoAuthority /\ kbound = "none" /\ kctx = "live"
    /\ access = Skip("none") /\ service = Skip("none") /\ pods = Skip("none")
    /\ publication = Skip("none") /\ kfacts = NoFacts
    /\ acc = [seen |-> {}, ready |-> 0, stop |-> "complete"]
    /\ whole = {} /\ served = [pods |-> 0, slices |-> {}]
    /\ krequests = 0 /\ kincomplete = FALSE

K8sInit ==
    /\ K8sIdle
    /\ kstage = "declared"
    /\ kdecl \in [inCluster : BOOLEAN, supplied : BOOLEAN]
    /\ kfile \in ContextsOf(kdecl)

Connecting ==
    \/ Inspect
    \/ \E c \in ContextsOf(kdecl) : Rewrite(c)
    \/ \E projected \in BOOLEAN : Connect(projected)

Reading ==
    \/ SendGet \/ NotRead
    \/ \E r \in Failures : ServiceRefused(r)
    \/ \E facts \in [supported : BOOLEAN, selector : BOOLEAN] : ServiceRead(facts)

PodPages   == {1..n : n \in 0..PageSize}
SlicePages == {items \in SUBSET Slices : Cardinality(items) <= PageSize}

Listing ==
    \/ StopBefore \/ Fetch \/ BeginPublication
    \/ \E r \in Failures : PageFails(r)
    \/ \E next \in BOOLEAN :
         \/ ListsPods /\ \E items \in PodPages : PageReturns(items, next)
         \/ ~ListsPods /\ \E items \in SlicePages : PageReturns(items, next)

K8sOver == kstage \in {"done", "refused"} /\ UNCHANGED k8sVars

K8sNext ==
    \/ Connecting \/ Reading \/ Listing \/ Record \/ K8sOver
    \/ \E c \in {"deadline", "cancelled"} : Tick(c)

K8sSpec == K8sInit /\ [][K8sNext]_k8sVars

-----------------------------------------------------------------------------
(* Properties.                                                             *)

\* ADR 0094 and 0050: whatever was done to the kubeconfig after it was
\* inspected, a request is made as one identity and only one, over a verified
\* channel, and a credential the target supplied reaches no endpoint but the
\* one it was bound to.
K8sCredentialBound ==
    krequests > 0 =>
        /\ Cardinality(kauth.identities) = 1
        /\ kauth.trusted
        /\ Supplied => kauth.identities = {"supplied"} /\ kauth.server = kbound
        /\ kdecl.inCluster = (kauth.identities = {"serviceAccount"})

\* The endpoints the slices of this Service published.
Published == UNION {ToSet(slice.endpoints) : slice \in {x \in served.slices : associated(x)}}

\* An endpoint no slice calls unready.
PublishedReady(key) == \A e \in Published : e.key = key => e.ready

\* "None of them may become 'no Pods' or 'no ready endpoints'": an absence is
\* reported only of a list the API returned to its last page, with no token
\* left, whatever ceiling, failure or cancellation met the other list. No page
\* of it had a Pod; no endpoint was published ready by every slice it is in (see
\* OneReadySuppresses for one that is ready in a slice and not in another).
K8sAbsenceIsMeasured ==
    kstage = "done" =>
        \A f \in K8sFindings :
            /\ f.code = "KUBERNETES_SERVICE_SELECTS_NO_PODS" =>
                 "pods" \in whole /\ served.pods = 0
            /\ f.code = "KUBERNETES_SERVICE_NO_READY_ENDPOINT" =>
                 "publication" \in whole /\ \A e \in Published : ~PublishedReady(e.key)
            /\ Problem(f) => kfacts.selector \/ service.failure = "notFound"

\* "One ready endpoint suppresses the finding" (diagnosis/kubernetes/backends.go):
\* "no ready endpoint" is never reported when an endpoint of a slice of this
\* Service is ready.
OneReadySuppresses ==
    kstage = "done" =>
        \A f \in K8sFindings :
            f.code = "KUBERNETES_SERVICE_NO_READY_ENDPOINT" => \A e \in Published : ~e.ready

\* A run that calls itself complete has read each list to its end or says in a
\* finding what kept it from one, and made no more requests than the ceiling
\* of one GET and MaxPages for each list; one that is cut short says so.
K8sIncompleteIsExact ==
    kstage = "done" =>
        /\ krequests <= 1 + 2 * MaxPages
        /\ kctx # "live" => kincomplete
        /\ ~kincomplete =>
             /\ \A e \in K8sEvidence :
                  \/ e.state = "PASS"
                  \/ \E f \in K8sFindings : e \in f.refs
                  \/ e.class = "UNSUPPORTED"
                  \/ \E f \in K8sFindings : e.class = "PREREQUISITE" /\ blockerOf(e) \in f.refs
             /\ pods.attempted => "pods" \in whole
             /\ publication.attempted => "publication" \in whole
=============================================================================
