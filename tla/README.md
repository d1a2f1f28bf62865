# TLA+ models of svcdoctor

svcdoctor measures whether a service endpoint (Redis, PostgreSQL, Kafka,
RabbitMQ, a Kubernetes Service) can be used from where it runs, records what it
measured as an immutable evidence graph, and diagnoses from that graph. A report
that is wrong in a rare interleaving is worse than no report, and the parts that
could make it wrong are small and concurrent. This directory models those parts,
checks them with TLC on small instances and proves the most important results
with TLAPS for every value of the constants.

## 1. The system

| part | state it keeps | operations | talks to |
|---|---|---|---|
| process (`cmd/svcdoctor`, `internal/cli`) | exit code, stdout, two-slot signal channel, watcher goroutine | parse, preflight, execute, project, render, exit; cancel, abort | scheduler, through a context and `done` |
| fleet scheduler (`internal/fleet/run`) | index-addressed results, one unbuffered channel, worker goroutines, run and target contexts | dispatch, runOne, classify, fill, publish | one service runner per target; credential resolver |
| credential resolver (`internal/fleet/secret`) | none; the environment and the filesystem | preflight all, resolve one | scheduler |
| service journeys (`internal/app`, `internal/adapter/*`) | connections, sessions, one evidence builder | transport sweep, protocol steps on every path, select one path, authenticate, terminal probe | transport, wire packages, graph builder |
| transport sweep (`internal/probe/transport`) | connections in hand and kept, context | locate, dial, handshake, record | DNS, TCP, TLS probes |
| wire packages (`internal/adapter/*/wire`) | socket deadline, watcher goroutine per exchange | bindDeadline, write, read, release | the peer |
| evidence graph (`internal/domain`) | nodes, parent and blocked-by relations | AddEvidence, AddParent, AddBlockedBy, Freeze | every producer |
| Kubernetes client (`internal/adapter/kubernetes`) | declared authority, connection, three acquisition stages, page tokens | inspect, connect, get, list page by page, record | API server, the kubeconfig file |
| diagnosis (`internal/diagnosis`) | a registry of rules, the findings produced so far, the failures | add, freeze, evaluate, converge, order | journeys |
| redaction (`internal/security/redaction`) | one table of pseudonyms for a run, counters per report | collect, assign, rewrite, verify | process |
| renderers, configuration | none across calls | write, parse | process |

What is hard here:

- **Concurrency.** Workers write one slice without a lock; a dispatcher selects
  between a receiver and the end of the run; every wire exchange starts a
  goroutine that may act on the socket; a signal watcher may end the process at
  any moment.
- **Contexts that end at any moment.** Each step reads its context again after a
  blocking call returned, and what it reads decides whether a failure is blamed
  on the target or on svcdoctor's own budget.
- **Ownership of connections.** A socket moves from the TCP result to the TLS
  result, to the sweep, to a session. Each of them has a deferred `Close`.
- **Ordering.** A late answer on a connection that is used again; a watcher of an
  earlier exchange that runs during the next.
- **Failure half way.** A sweep that fails with connections kept, a target whose
  credential disappeared after preflight, a renderer whose writer fails, a list
  cut by a ceiling, a rule that panics.
- **Inputs that change under it.** A kubeconfig rewritten between inspection and
  connection, a Service recreated between two reads.
- **Claims about absence.** "No Pods", "not reached", "nobody accepted": each is
  true only if everything was looked at, and the rules that say it read nodes
  that the budget may have cut short.

What makes each part correct is listed with the module that models it below. The
hazards, each at its source line with the properties that would catch it, are in
`PROJECT.json`.

Four hazards of the code are known and no property covers them: the byte budget of
one RESP reply across nested arrays (`adapter/redis/wire/resp.go:178`) and the
fixed number of notices PostgreSQL's three read loops take
(`adapter/postgres/startup.go:205`), which the journeys abstract to a broken
exchange; a resolver whose own timeout fires just before the context's
(`probe/dns/lookup.go:287`), which needs real time; and the sessions that
`redis.Run` leaves open on an error return (`adapter/redis/hello.go:172`), which a
fresh builder and unique identifiers make unreachable.

## 2. Modules

| module | models | key state |
|---|---|---|
| `FleetRun` | `fleet/run/execute.go`, `domain/runreport.go` | `results`, `pc`/`cur`/`out` per worker, `next`, the contexts `root` and `runErr`, `touched` (history) |
| `RunContract` | what a run promises, without workers | a disposition per target, whether the run ended, the reason |
| `Process` | `cmd/svcdoctor/main.go`, `cli/run.go`, `cli/exit.go`, `cli/interrupt.go`; extends `FleetRun` | `phase`, `code`, `stdout`, `signals`, `watcher`, `exit` |
| `Digraph` | reachability and acyclicity, defined through closed sets | none |
| `EvidenceGraph` | `domain/graphbuilder.go`, the builder's calls | `node`, `parents`, `blockedBy`, `reply` |
| `GraphWalk` | `reachable`, statement by statement | `stack`, `seen`, `ahead`, `at` |
| `FindCycle` | `findCycle`, statement by statement | `mark`, `path` (the open recursive calls), `todo`, `verdict` |
| `Transport` | `probe/transport/*.go` and the outcome classification of the DNS, TCP and TLS probes | `ctx` and `step` (contexts), the evidence nodes, `conn`/`session`/`paths`/`held` (owners), `open` (sockets) |
| `ExchangeDeadline` | `bindDeadline` of the four wire packages and the exchange around it | `doing` (the main goroutine), `watcher` per exchange, `socket` (its deadline), `passed`, `ended`, `done` |
| `Journey` | what the journeys share: `app/select.go`, the common part of the adapters' `classify`, `incompleteRun`, the credential policy; extends `Transport` | none of its own |
| `RedisJourney` | `app/redis.go`, `adapter/redis/*.go`; extends `Journey` | `stage`, `said` per session, `hello`/`auth`/`identity`/`ping` nodes, `late`, `attempts`, `incomplete` |
| `PostgresJourney` | `app/postgres.go`, `adapter/postgres/*.go`: negotiation, startup, SCRAM, session; extends `Journey` | `stage`, `sslRequest`/`startup`/`auth`/`ready` nodes, `startupBlocker`, `method` per path, `proofs`, `verifiers` (external) |
| `KafkaJourney` | `app/kafka.go`, `app/kafkacompleteness.go`, `adapter/kafka/*.go`: capabilities, SASL, Metadata, the sweep of what was advertised; extends `Journey` | `stage`, `apiVersions`/`handshake`/`auth`/`metadata` nodes, `secrets`, `queue` and `advertised`, `swept` per endpoint, `kept`, `incomplete` |
| `RabbitMQJourney` | `app/rabbitmq.go`, `adapter/rabbitmq/*.go`, `wire/connection.go`: Connection.Start, Start-Ok, Tune, Open, the polite close; extends `Journey` | `stage`, `start`/`auth`/`opened` nodes, `offer`/`selected`/`ceiling` (the frame limits), `plain`, `attempts`, `parting` |
| `Kubernetes` | `app/kubernetes.go`, `adapter/kubernetes/**`, `diagnosis/kubernetes/*.go` | `kfile` (the kubeconfig on disk), `kauth`, `kbound`, the stages `access`/`service`/`pods`/`publication`, `whole` (the lists that were returned to their last page) and `served` (what the server returned), both history |
| `Convergence` | `diagnosis/registry.go`, `engine.go`, `converge.go`, `advice.go`, `domain/finding.go` | `registry`, `turn`, `produced`, `failures`, `findings` |
| `Diagnosis` | evidence nodes, the failure boundary, the summary, reference resolution | none: operators |
| `TransportRules`, `RedisRules`, `PostgresRules`, `KafkaRules`, `RabbitMQRules` | `diagnosis/*/*.go`: each rule as the set of findings it draws from the graph a journey left | none: each extends its journey |
| `Redaction` | `security/redaction/*.go` | `run` (what was measured), `table`, `used`, `shared`, `outcome` |
| `Ranking` | what `slices.SortFunc`, `SortStableFunc`, `cmp.Compare` over fields and a filtering loop do to a slice; `Convergence` and `Redaction` extend it | none: operators |

`MC*` modules give constants small values; `MCParts` and `MCBrokers` also put
several independent components into one specification, in which one is at work
and the others are at rest. `*Proofs` modules hold the theorems; `RankingProofs`
holds the lemmas about data that the others cite.

How actions correspond to code:

- One action is what a goroutine does between two points where another can
  interfere: a channel operation, a blocking call, a read of a context, a write
  to a shared slot. A blocking call is two actions, one in which it *returns*
  (`DialReturns`, `HelloReturns`) and one that *records* the outcome
  (`DialFailed`, `RecordHello`), because the context may end between the two and
  the code reads it only then.
- A deferred `Close` is part of the action that returns: `Abandon` is every way
  out of `transport.Run` with an error, `Leave` the deferred closes of
  `measureRedis` with the completeness verdict that follows.
- An error path that the code has is an action of its own, also where no caller
  reaches it today (`DialRefused`, `HandshakeUnusable`).
- Evidence is a state and a class. The classes keep the difference the code's
  contract is about, a target failure against svcdoctor's own budget, and merge
  the kinds of target failure that no rule tells apart.
- A finding is its code, severity, layer, subject and the nodes it cites. The
  rules of a service are operators over the variables of its journey, so that
  they are evaluated on exactly the graphs the journey can leave behind, and not
  on invented ones.
- A text that redaction rewrites is a sequence of parts, and a name, an address,
  a word of the schema and a pseudonym are parts or sequences of them: what
  matters is which text occurs in which.
- The peer, the resolver, the kernel and the filesystem are external: any
  outcome the code distinguishes may come back, at any time, except that a call
  is *interrupted* only after its context ended.

## 3. Runs

Bounds are constants in the `.cfg` files.

**`fleet`** (`FleetRun.cfg`): three targets (two with a credential reference) on
two workers, a run deadline and both ways the caller's context can end. Three
targets on two workers is the least in which a target waits for a worker, is
offered while the run ends, or is never offered, all in one run. It checks that
each slot has one owner (`SlotOwnership`), that NOT_STARTED means untouched
(`NeverStartedUntouched`), that a report disposes of every target with no worker
left (`EveryTargetDisposed`), and that the scheduler implements `RunContract`
(`ImplementsContract`), which settles each target once and publishes a reason
exactly when one was cut off. Workers are symmetric.

**`process`** (`Process.cfg`): the scheduler with one worker and two targets
inside the process, and up to three signals, one more than the two-stage contract
and the two-slot channel can hold. The exit code agrees with what is on stdout
and with what was measured (`ExitCodeTruthful`), one signal never aborts
(`OneSignalNeverAborts`), and every invocation ends: after two signals even when
a runner never returns, and without any when its goroutines are scheduled and its
timers fire (`EveryInvocationEnds`).

**`parts`** (`Parts.cfg`): the components every journey shares.

- *Evidence graph*: any sequence of builder calls over three identifiers, the
  least with a cycle no single pair of edges shows. Freeze finds nothing to refuse
  (`FreezeNeverRefuses`), and an edge is refused for a cycle exactly when it closes
  one (`CycleRefusalIsExact`). Beside it, one call of `reachable` or of `findCycle`
  on every relation over three nodes, self-loops and diamonds included, in every
  iteration order: the answers are the definitions of `Digraph`
  (`WalkIsReachability`, `SearchIsExact`) and both end (`SearchesTerminate`).
- *Engine*: up to three rules, added under good, bad and repeated identities, that
  panic, return nothing, a zero finding or one of eleven findings of one code
  differing in every field the merge reconciles or keeps apart. Three findings
  are the least in which a silent one meets two questions. No order of the
  findings changes the report (`OrderDecidesNothing`), each finding is told and
  nothing is told that was not found (`NothingLostOrInvented`), and a merged
  finding is one a rule could have built, with advice it could have carried
  (`MergedIsAdmissible`).
- *Redaction*: every pair of two reports whose values overlap as parts of each
  other, of the schema and of pseudonyms. Correlation survives within and across
  targets, sentences name what they named, and each report counts its own
  replacements (`SharedIsFaithful`).
- *Exchange deadlines*: four exchanges on one connection with the release that
  waits. A timeout is the exchange's own (`TimeoutIsOwn`), and a cancelled run
  unblocks a parked read (`CancelUnblocks`). A late watcher can only meet the
  next exchange or the one after it, so four exchanges repeat the pattern. An
  exchange that timed out may be the last, or be followed by another as Redis
  does after its identity HELLO.
- *Transport sweep*: up to three addresses of a name or a literal, with and
  without TLS and verification, a context that may be over before the sweep
  starts, answers with duplicate and unusable spellings, a builder that may
  refuse. Every open socket has exactly one owner (`OneOwner`), every way out
  leaves only what it should (`NothingLeaks`), every located address has one
  consistent account (`EveryAddressAccounted`), svcdoctor's own budget is never
  blamed on the target (`NoFalseBlame`), and the sweep comes back
  (`SweepReturns`). Three addresses give one kept, one in hand and one
  unattempted.

**`redis_journey`** (`RedisJourney.cfg`): a whole run against one or two
addresses, each a data endpoint or a Sentinel, with or without a credential. The
credential crosses at most one connection, once, and only a verified one
(`CredentialDiscipline`); no socket outlives the run (`NoSocketOutlivesRun`); and
the report is faithful (`RedisRunFaithful`): it is incomplete if anything was left
unmeasured, PING ran exactly when authentication left a usable connection, no
finding rests on svcdoctor's own budget, an ERROR rests on a failure, and a
complete run without a PING says why. Two addresses are enough for a path that is
selected and one that is given up, and for a path never asked.

**`postgres_journey`** (`PostgresJourney.cfg`): a whole PostgreSQL run against up
to two addresses, with TLS required or disabled, verified or not, a usable,
unusable or absent credential, and peers that may or may not hold the verifier of
its password. At most one client proof is written, over a channel that this
connection's own handshake verified, to an endpoint that asked for it
(`ProofDiscipline`); a session is begun only where nothing was asked or after the
peer proved itself (`SessionIsMutual`); no socket outlives the run, the error
returns of `discover` included (`SocketsClosed`); and the report is faithful
(`PostgresRunFaithful`): a skipped startup names the step that blocked it, a run
that calls itself complete is, findings rest on what was measured, and the
admission scope counts only startups the server decided. Two addresses give a
path that is selected, one that is given up, one that failed earlier and one the
budget never reached.

**`kafka_journey`** (`KafkaJourney.cfg`): a whole Kafka run against up to two
addresses per host, with PLAIN, SCRAM or a mechanism svcdoctor cannot perform, a
usable, unpreparable or absent credential, and Metadata responses of up to two
endpoints out of a name, an address, an unusable entry and one the probes refuse.
At most one message derived from the secret is written, over a channel the
connection's own handshake verified, and nothing is measured of the topology
without it (`SecretDiscipline`); the sockets of one advertised endpoint are gone
before the next is swept, and nothing is open at the end
(`AdvertisedSocketsClosed`); the completeness verdict is right both ways
(`CompletenessIsExact`); and the findings are faithful (`KafkaRunFaithful`): an
endpoint is called unreachable only if the network decided so of every path, and
in a complete run the per-endpoint findings, the verdict on the whole topology
and the completeness predicate agree. Two endpoints are enough for one that is
resolved and one the budget never reached, two addresses for one that works beside
one cut short. While an advertised endpoint is swept the variables of `Transport`
describe that sweep; `MetadataObtained` lets go of the bootstrap nodes, which
neither `incompleteKafkaRun` nor a rule of the topology reads once Metadata
passed, so the transport findings of the bootstrap endpoint are stated for runs
that stopped before it.

**`brokers`** (`Brokers.cfg`): two journeys.

- *RabbitMQ* against up to two addresses with any frame limit offered (none, below
  the floor, between it and svcdoctor's own, above): at most one Start-Ok, only
  where PLAIN was offered on a verified channel, and Open only after it
  (`RabbitCredentialDiscipline`); the reader accepts what the negotiation allows
  (`TuneIsHonoured`); sockets are closed and findings grounded and sufficient
  (`RabbitRunFaithful`).
- *Kubernetes* with two pages of two objects per list and a ceiling of two
  endpoints, so that each ceiling is met before, at and after the last page; a Pod
  published by two slices, a slice of another generation of the Service, one
  without an owner; a kubeconfig that is replaced by any other at any time. One
  identity, over a verified channel, and a supplied credential only to the server
  it was bound to (`K8sCredentialBound`); an absence, of Pods or of ready
  endpoints, is reported only of a list the API returned to its last page with no
  token left, and then no Pod was in it, or no endpoint that every slice naming it
  calls ready (`K8sAbsenceIsMeasured`; what the code's own comment promises beyond
  that is `k8s_ready_endpoint`); a run that calls itself complete read each list it
  began to the end and passed, cited or blocked every node, within its ceilings
  (`K8sIncompleteIsExact`). A denied LIST makes a run incomplete although nothing
  was cut short, so the converse is not claimed.

**`fleet_credential_failure`**, **`kafka_timeout`**, **`redis_ping_claim`**,
**`kafka_lost_report`**, **`k8s_ready_endpoint`** (violations): see section 6.
`k8s_ready_endpoint` runs `MCBrokers` with one address, since the Kubernetes run has
none.

Deadlock is checked in every run: each specification has an explicit step for
the states in which the system has nothing left to do.

### Fairness

- `Process`: the watcher goroutine and the exit are weakly fair. `EveryInvocationEnds`
  states its further assumptions as the antecedent `MainFairness`: goroutines
  that can run do, every target's timer fires, and a runner returns *once its
  context is done*. The Go scheduler is preemptive and
  `context.WithTimeout(e.runCtx, target.Timeout)` always has a positive timeout.
  A peer is never assumed to answer, and the part about two signals assumes
  nothing about the targets at all.
- `Transport`: the run's deadline passes (the command always sets `--timeout`), a
  blocking call returns once its context ended, the sweep's own steps are taken.
- `ExchangeDeadline`: goroutines that can run do, and context timers fire. That
  the peer answers is not assumed, nor that a deadline passes.
- `GraphWalk`, `FindCycle`: a loop that can take a step does.

## 4. Proofs

All theorems hold for every value of the constants, under the named assumptions
of the modules (`N` a positive natural, workers a non-empty set, `Exchanges` a
positive natural and so on). `InputsAssumption` and `RunsAssumption` give the
findings and the fields of a run the types `domain` gives them; the second adds
that no evidence identifier is empty, which `NewEvidence` sees to.

**`ProcessProofs`**, the scheduler alone. `SlotOwnership` is not inductive: that two workers never
hold one index needs that every index handed out lies below `next`, that an
unoffered slot is empty, and that a worker in the middle of a target has an empty
slot. `FleetInv` adds these, what `touched` contains at each stage, and that an
ended run stays ended. `TypeCorrect`, `SlotsHaveOneOwner`,
`NotStartedIsUntouched`, `ReportIsWhole`, `CutOffHasAReason` and `WrittenOnce`
follow. `SchedulerImplementsContract` proves step simulation: each scheduler step
maps to a step of `RunContract` or a stutter.

**`ProcessProofs`**, the process. The scheduler inside it keeps `FleetInv`, because the
process takes the scheduler's own steps or leaves its variables alone
(`ProcessRunsTheScheduler`). `ProcessInv` adds what the main goroutine knows at
each phase: that nothing ran before Execute, that a code held while rendering is
the run's, the four ways `runCommandEntry` returns, and that the status of an ended
process is the main goroutine's code or the abort's. `ExitIsTruthful` follows.
What the watcher has taken and what is still in the two-slot channel never exceed
what was sent, which gives `OneSignalIsNotAnAbort`; `SignalsAreNotLost` is the
converse, the safety half of "two signals end every invocation".

**`PartsProofs`**, the components every journey shares:

- *Evidence graph.* `GraphInv` says that both relations only join present nodes
  and are acyclic, and that only SKIPPED nodes are blocked. The key lemma: adding
  an edge to an acyclic relation keeps it acyclic unless its source is reachable
  from its target, and a refused edge does close a cycle. `Digraph` defines
  reachability and acyclicity through sets, so no induction is needed.
  `FreezeAlwaysAccepts` and `RefusedEdgeClosesCycle` follow.
- *Searches.* The loop invariants of the two: everything met is reachable and what
  has been seen is closed up to the stack and the successors still ahead; nodes on the
  path form a chain, and from a finished node only finished nodes are reached,
  among which no cycle is left. The searches decide what `EvidenceGraph` assumes of
  them (`WalkDecidesReachability`, `SearchDecidesAcyclicity`).
- *Exchange deadlines.* Under `Awaits`, `DeadlineInv` says that every watcher but
  the current exchange's has exited and that an expired socket is on the current
  exchange's account. `HandoverIsClean` and `TimeoutsAreOwn` follow for any number
  of exchanges.

- *Engine.* `EngineInv` says what a rule may have produced, findings `NewFinding`
  accepts or the zero one, and that the Outcome is what `Evaluate` makes of them
  (`OutcomeIsSettled`): the findings are `Converge(produced)`, or there are none
  and a failure says so. The rest is about that operator, read from the inside out.
  A bucket that asks nothing has one home at most and a home is its own
  (`HomeFacts`); so the groups cover what was produced, each within one identity,
  one claim and at most one question (`GroupsFacts`), no group conflicts, and only
  a finding nobody built fails the convergence (`OnlyAZeroFindingFailsConvergence`).
  Every field of a merged finding is one its members share, a bound over them or a
  union (`MergedFields`), which gives `MergesAreAdmissible` and
  `ConvergenceIsFaithful`.
- *No order decides* (`ConvergenceIgnoresOrder`). Two lists are *alike* when each
  finding stands in both equally often, and a rearrangement is alike to what it
  rearranges. Alike lists are split into alike groups in the same order, since both
  the identities and the merge keys are listed by their content; and sorted by
  content two alike groups are the *same* list, because within one group the
  content order tells any two different findings apart (`ContentTells`): evidence
  identifiers are not zero, so the zero that `ContentOrder` puts after them shows
  where they end. From there on everything is computed from equal lists, the stable
  `SortFindings` included, although it leaves out the detail and the discriminator.
- *Redaction.* `RedactionInv` says that the table is that of the whole run and
  that each report shared so far is its own, rebuilt against that table, in order.
  What remains is about one field: whatever was collected for it is what rewriting
  looks up (`LookupFacts`), in four namespaces and with a port or without, because
  a host that was collected has no port of its own (`EndpointFacts`,
  `AttrValueFacts`) and a pseudonym with the port put back gives the pseudonym as
  its host (`PseudonymIsTheHost`). With a table that numbers the values of each
  namespace apart (`AssignFacts`, `PseudonymsDiffer`), `OnePseudonymForOneValue`
  proves `PseudonymsAreOneToOne`, and `EachReportCountsItsOwn` proves
  `CountsAreOwn`, two of the three parts of `SharedIsFaithful`. References and host
  attributes that are a port alone name no peer and are left out of the first: as
  its last resort `attrValue` looks such a text up among the declared identities.

**`RankingProofs`**, lemmas about data. An order is a set of pairs and the list of a
finite set is told by counting, so that sorting, filtering and folding have
definitions the prover can expand. The induction is on sets of subsets rather than
on a predicate: a set of naturals has a least member (`LeastNatural`), so a set of
subsets of a finite set that is closed under putting one member back has them all
(`SubsetInduction`). With it the function a fold is defined by exists (`FoldExists`,
`FoldIsTyped`), in a total order of a finite set each place has one member
(`RankedLists`), a selection and a concatenation hold what they were made of, and
two lists that hold each value equally often sort to the same list by a key that
tells their values apart (`AlikeSortTheSame`).

**`TransportProofs`.** `OneOwner` counts owners and is not inductive. `OwnInv` adds
who can have a connection at which point of `Run` (`HolderInv`), that an address
still to come, the one in hand and those the caller took have no path
(`FreshInv`), and that the open sockets are exactly those somebody holds
(`OpenInv`). With it `SocketsHaveOneOwner` and `SweepLeaksNothing` follow for any
set of addresses. `BudgetIsNotBlamed` needs only that an interrupted call was
interrupted by a context that stays ended until the outcome is recorded
(`HeardInv`), and what `classify` answers then. `AddressesAreAccounted` needs what
has been recorded of an address at each point of its turn (`AccountInv`). The
conjunction, `SweepInv`, is what the journeys build on: while the sweep runs it is
kept by the sweep's own lemmas, and afterwards three lemmas say what a journey's
session, close and departure do to the sockets.

**`RedisProofs`, `PostgresProofs`, `KafkaProofs`, `BrokersProofs`**, the five
journeys. The properties speak of the run as a whole, and none is inductive. Each
inductive invariant follows the run stage by stage in three parts:

- *which connections it has*: at the stages of a step on every path, exactly those
  of the sessions so far and the one in hand, which no longer has a path; after the
  selection, the selected one (`SocketInv`). That nothing is open at the end
  follows with `OpenInv` (`RedisSocketsEndWithTheRun`,
  `PostgresSocketsEndWithTheRun`, `RabbitSocketsEndWithTheRun`,
  `KafkaAdvertisedSocketsClosed`);
- *what was decided before the secret is sent*: the gates of policy, mechanism and
  credential are passed by then and stay passed, and nothing is sent before
  (`SecretInv`, `ProofInv`). It gives `RedisCredentialCrossesOnce`,
  `PostgresProofIsDisciplined`, `KafkaSecretIsDisciplined` and
  `RabbitCredentialIsDisciplined`;
- *what the protocol adds*. PostgreSQL upgrades a channel in band, so a path may
  only be called verified once its own handshake passed (`VerifiedInv`), and how
  far the SCRAM exchange came says whether the peer holds the verifier
  (`PostgresSessionIsMutual`). In Kafka the sweep's invariant holds of the bootstrap
  sweep and again of each advertised endpoint's; what a finished sweep says of its
  endpoint is kept for the verdict (`KafkaCompletenessIsExact`). In RabbitMQ the
  frame limits are constant until the offer is one that can be met
  (`RabbitHonoursTune`).

*What a finished run says* (`RedisRunIsFaithful`, `PostgresRunIsFaithful`,
`RabbitRunIsFaithful`, `KafkaRunIsFaithful`). The rules read a graph, so a second
invariant says of each node what it means for the run: `RedisGraphInv`,
`PostgresGraphInv`, `RabbitGraphInv` and `KafkaGraphInv`, inductive relative to the
first. Their parts: how the node of each stage may end, and that UNKNOWN there is
the run's own budget or a named limit (`OutcomeInv`, `ReplyInv`); that each path the
sweep left was asked until the run ended or stopped at one (`AskedInv`, `PathInv`,
`DialledInv`); what is recorded once the run is past a stage (`PingInv`, `ResultInv`,
`RecordInv`), for Kafka of the sweep of each advertised endpoint too
(`TruthfulSweep`). From the graph the rules are read one at a time: a claim cites
nodes that are there and that say so, and each node that says something is wrong has
its claim. For the layers below the protocol this is done once, in `TransportProofs`
(`SweepClaims`, `SweepExplains`, `BoundaryFacts`, `BrokenLayerIsLeast`). A run that
calls itself complete has no node the budget cut short; following its stages to the
first one that did not pass then finds the claim that explains it. For Kafka that is
argued a second time of each advertised endpoint, where the completeness predicate,
the three counts and the rule about the one endpoint, three separate pieces of the
code, are shown to agree (`ResolvedIsClassified`, `UnreachedIsClaimed`).

The *Kubernetes* half of `BrokersProofs`: `K8sInv` says what Connect settled of the
authority and that nothing touches it later, although the file behind it may be
anything by then (`K8sCredentialIsBound`); that a list goes on without a failure,
or ended, and then was read to its last page or says in its stop why not; and
which of five ends the run came to. In each of them every node passed, is cited,
or is blocked by one that is; for a failed access stage that needs the lemma that
the failure boundary cites a failing node which no shallower one precedes.
`K8sCompletenessIsExact` follows for any ceilings and any slices.

That an absence is real (`K8sAbsenceIsReal`) needs what a page adds to the
accumulator, and `consume` folds over slices and over their endpoints. With the
lemmas of `RankingProofs` about such folds, what one endpoint adds
(`ConsumesOne`) carries over to a slice (`EndpointsConsumed`) and a page
(`SlicesConsumed`), in whatever order they are counted. `PublishedInv` keeps it
across pages: unless a ceiling was met every published key was counted, and while
nothing counted was ready each key was published unready by some slice. That the
list was returned to its last page is kept in `K8sInv`, for both lists: a list that
ended without a failure is one of `whole`, or its stop names the ceiling. The slices are assumed to
be finitely many, with natural numbers for names and keys (`SlicesAssumption`).

The theorems named `*Invariant`, type correctness (`TypeCorrect`,
`SweepTypeCorrect`), `CutOffHasAReason`, `WrittenOnce`, `HandoverIsClean`,
`SignalsAreNotLost`, `ProcessRunsTheScheduler`, `RabbitSocketsEndWithTheRun` and
`OnlyAZeroFindingFailsConvergence` are proved and need no run of their own.

Only model-checked:

- liveness (`EveryInvocationEnds`, `SearchesTerminate`, `SweepReturns`,
  `CancelUnblocks`), which needs fairness and ENABLED that the prover does not
  handle;
- what a rewritten sentence names (`SentencesCorrelate`, the third part of
  `SharedIsFaithful`). It is not a theorem about any runs: which pseudonym a
  sentence ends up with depends on how the values of the run, and pseudonyms that a
  target may have been named after, overlap in it. TLC checks it on runs built of
  such overlaps.

## 5. Not modelled

- Renderers and configuration parsing: pure functions of one immutable input,
  covered well by the repository's tests.
- The wording of findings and the text of advice; of advice the models keep its
  order and whether it remediates.
- The byte level of the four wire formats: the RESP reader's budget, frame sizes
  other than RabbitMQ's negotiated one, field decoding. A reader that refuses is
  one of the ways an exchange breaks.
- The cryptography of TLS and SCRAM, certificate parsing, DNS record types. Of
  SCRAM the model keeps who can produce a valid server signature (`verifiers`) and
  when the client proof is written.
- Messages that a read skips (PostgreSQL notices and parameter statuses): more
  than a step allows is one of the ways the peer breaks the exchange.
- Real time. Deadlines pass in any order that contexts allow; a resolver whose
  own timeout fires just before the context's timer is taken, as the code takes
  it, for the resolver's.
- The endpoint check of `SecretFor`: it refuses before anything is recorded and
  cannot fire for a credential that the composition root built.

## 6. Disagreements found

Each is a run that TLC refutes, against a quoted sentence of the repository
(`PROJECT.json`, "findings").

1. **`kafka_timeout`**: `release` in `adapter/kafka/wire/exchange.go` does not
   wait for its watcher. With the deferred cancel both channels of the watcher
   are ready, it may expire the socket after the deadline was cleared, and the
   next exchange on that connection fails with a timeout nobody imposed. A
   comment in the PostgreSQL package calls this unreachable because no Kafka path
   writes after a bounded read; the Kafka journey does three times. The waiting
   release is proved correct in `PartsProofs`.
2. **`redis_ping_claim`**: an identity HELLO that timed out leaves its answer on
   the connection, PING is sent on it all the same, and the HELLO answer fails
   the endpoint as an unexpected reply to PING.
3. **`fleet_credential_failure`**: a run that ends between two checks makes a
   target EXECUTION_FAILED with a credential that could not be obtained, although
   it could.
4. **`kafka_lost_report`**: an advertised host is usable to
   `normalizeAdvertisement` when it is not empty, but the probes refuse an IPv6
   zone or a space in a name. `transport.Run` then returns an error where every
   other outcome is evidence, `MeasureAdvertised` and `DiagnoseKafka` pass it on,
   and the report on the bootstrap endpoint and the other brokers is lost with it.
5. **`k8s_ready_endpoint`**: `consumeEndpoints` skips an endpoint it has seen
   before it looks at its readiness. A Pod that one slice publishes unready and
   another ready, so long as the two are not in step, counts with the
   readiness seen first, and "no ready endpoint" is reported although
   `diagnosis/kubernetes/backends.go:278` says "One ready endpoint suppresses the
   finding". `K8sAbsenceIsMeasured` states what does hold.

Smaller ones were met while modelling and are not kept as runs:

- A signal that arrives while the targets of a run stopped by `run.timeout` drain
  turns the stopped reason into CANCELLED (`stoppedReason` asks the caller's
  context first).
- A second signal after the last byte of the report still announces "no report
  was produced" (`interrupt.go`).
- `classifyAdvertised` counts an advertised endpoint whose address was skipped or
  timed out locally as not reached, where `diagnosis/kafka/topology.go:187` says
  "every selectable path was tried". Such a run is incomplete, and the finding is
  not given.
- `converge.go:154` calls the merge associative; converging two halves first may
  fold a silent finding into a question that the other half would have doubled.
  The engine converges once, over everything, and `OrderDecidesNothing` is about
  that.
- `pseudonym.go:113` sorts prose replacements "so the result does not depend on
  map order", but one value that is both a host and an identity has two
  replacements that compare equal, and the sort is not stable; `proseOrders` in
  `Redaction` therefore allows both.
- `client/result.go:433` says a denied read does not make a Kubernetes run
  incomplete; a denied LIST does (`docs/BACKLOG.md` acknowledges it).

## 7. Plan

1. Done: scheduler, process, evidence graph and its searches, transport sweep,
   exchange deadlines; the Redis, PostgreSQL, Kafka, RabbitMQ and Kubernetes
   journeys with the rules that read their graphs; the rule engine and
   convergence; redaction. Proofs of the scheduler, the process, the graph, the
   searches, the deadlines, the sweep, of credentials, sockets, completeness and
   findings in the five journeys, of convergence, and of redaction but for its
   sentences.
2. Readers at their limits: the RESP reader's byte budget and Kafka's frame size,
   as algorithms over bounded inputs.
