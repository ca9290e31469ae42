# A verification project for subdomainabber

subdomainabber looks for subdomains whose DNS records point at resources nobody
owns any more. This directory holds TLA+ models of the parts of it whose
correctness depends on order, failure and concurrency, the TLC runs that check
them on small instances, and proofs, checked by TLAPS, of the properties that
matter most for instances of any size. Paths below are relative to `src/`.

## 1. The system

| Component | Where | State it keeps | Operations |
|---|---|---|---|
| claim engine | `internal/claim`, audits in `internal/storage/store.go` | `operationMu`, `haltedErr`, `attempted`; rows of `claim_audits`; buckets and zones at the providers | `Execute`, `Reconcile`, the adapters' `Claim`, `RecoverClaim`, `Release` |
| scan run | `cmd/scan.go`, `cmd/scan_input.go`, `internal/storage/runs.go` | `scan_runs`, `run_targets`, `observations`; the batch's queues, seen set, pivot counter, semaphore, first fatal error | `runScan`, `processDomain`, `queueSANs`, `MarkTarget`, `FinishRun`, `--resume` |
| notification dispatcher | `pkg/notify` | bounded queue, `seen`, `closed` | `BeginBatch`, `Dispatch`, `Flush`, workers |
| DNS resolver | `internal/dns/resolver.go` | query, wildcard, zone, health and DNSSEC caches; singleflight groups | `exchange`, `DiscoverProfile`, `IsWildcard`, `ClearCache` |
| DNS consensus, authoritative queries | `internal/dns/consensus.go`, `authoritative.go` | none | votes and comparisons |
| verification run | `internal/verify`, `cmd/verify.go` | `snapshots`, `verification_history`; host and result channels | `Run`, `determineStateChange`, persistence, dispatch |
| recon | `internal/discovery/recon.go`, `cmd/recon.go`, `internal/storage/recon.go` | `recon_runs` with its checkpoint, `recon_run_names`, `recon_names`; the engine's candidates, frontier and tested names | `runRecon`, `Discover`, `SaveReconProgress`, `SaveReconCandidates`, `FinishRecon`, `--resume` |
| enumeration, provider mining | the rest of `internal/discovery` | none | passive enumeration, guesses, mining of providers |
| platform synchronisation | `internal/platform`, `cmd/sync.go`, `internal/storage/platform.go` | programs, assets, stage runs, requirements | `syncPrograms`, `expandPlatformAssets`, `runPlatformScan` |
| analysis store | `internal/storage/store.go` | `hosts`, unknown providers, snapshots | `SaveAnalysis`, `SaveSnapshot` |
| classification, confidence, finding | `internal/classification`, `confidence`, `finding` | none | rules over collected evidence |
| evidence collectors, inference | `internal/evidence`, `internal/inference` | per-host collection state | the registry's phases, correlators |
| verifiers | `internal/verifiers` | none | routing, one HTTP exchange each |
| rate limiter, network client | `pkg/ratelimit`, `internal/netclient` | token buckets | `Wait` |
| signatures, fingerprints, learning | `pkg/signatures`, `internal/fingerprint`, `internal/learning` | loaded tables | precedence, review |
| passive sources | `pkg/passive` | none | HTTP queries |
| export, report, statistics | `internal/export`, `report`, `presentation`, `stats` | none | formatting, signed bundles |
| benchmark corpus | `internal/benchmark` | none | generators |
| configuration, command line, plain types | `pkg/config`, `cmd`, `internal/domainutil`, `internal/core` | none | parsing and precedence |

How they interact. `cmd/scan.go` drives a scan. It registers the targets of a
batch in the run tables, starts a goroutine per host behind a semaphore, and in
each goroutine calls the resolver, the evidence registry, the verifiers, the
classifier, and, in an aggressive scan, the claim engine, then writes the
analysis, the observation and the target's outcome in separate statements and
hands the analysis to the dispatcher. The claim engine reconciles what an
earlier process left before the first host starts, and afterwards serialises all
hosts under one mutex. `cmd/verify.go` re-examines stored hosts with a producer,
workers and one consumer, and uses the same store and dispatcher. `cmd/sync.go`
runs recon and scans per platform program and records stages. All processes share
one SQLite database and nothing else.

What is hard, and what makes each component correct:

* *claim engine*: a resource made at a provider must be known to the database
  whatever fails between the two; a failed release must stop every other host;
  reconciliation must not adopt a stranger's bucket; every attempt is settled in
  the end.
* *scan run*: a target recorded as done has its results stored; a closed run
  leaves nothing behind; the pivot's limit holds across goroutines and rounds; a
  cancelled batch starts nothing; the semaphore is always given back; whatever was
  registered is settled by resuming.
* *dispatcher*: one notification per identity and batch, none lost while there is
  room, nothing sent on a closed queue, `Flush` delivers what was accepted.
* *resolver*: a follower of a shared query must not inherit a leader's
  cancellation as an answer; only definitive answers are cached; nothing cached
  survives into the next batch.
* *verification*: a snapshot, the stored analysis and the notification of one
  host must agree although cancellation can come between them.
* *recon*: a run that calls itself complete has looked at every name it was
  given, since it deactivates all others; anything less leaves the previous
  catalogue active; an interrupted run goes on where it stopped and tests no name
  twice.
* *synchronisation*: a change of scope is expanded by the run that stored it or
  by its resumption, since no later incremental run sees it; failures and partial
  results lose no link; a run that scans tests every target, and every run ends.
* *analysis of a host*: a verdict that accuses is true of the world although
  lookups fail; it does not depend on the order in which collectors finish, nor on
  a context that ends half-way; a replay of what is stored repeats it.

The full list of hazards, each at its line, is in `PROJECT.json`.

## 2. The plan

Order, the most consequential behaviour first:

1. `ClaimLedger` (abstract), `ClaimEngine` (detailed, refines it), proofs: **done**.
2. `ScanRun`, proofs: **done**.
3. `Dispatcher`: queue, batches, workers and `Flush`, proofs: **done**.
4. `VerifyRun`: producer, workers, consumer and the analysis store, composed with
   `Dispatcher`: **done**.
5. `Recon`: the stages of `Discover`, checkpoints, resumption and the catalogue,
   proofs: **done**.
6. `DnsAnswers`, what replies amount to, and `DnsResolver`, the cache, shared
   flights, retries, consensus and cycles, proofs: **done**.
7. `Observations`, `Classification`, `DnsEvidence`, `WebEvidence`, `HttpMutator`,
   `Verifiers`: the collectors, rules and verifiers as operators, composed in
   `HostAnalysis`, the life of one host: **done**.
8. `PlatformSync`: catalogue, queue, links and stages of `sync`, composed with the
   promise of a scan run (a target is tested or pending), proofs: **done**.
9. Proofs of the refinement `Spec => Ledger!Spec` and of what else the engine
   promises: **done**. Of the verification run, with the dispatcher
   inside it: **done**.
10. Proofs of `AccusationsAreTrue` for any worlds, through every collector and
    rule: **done**.
11. Proofs of `NamedIsKept` and `RowsAreTrue` of recon, with an account of the rounds
    an interrupted process repeats: **done**.
12. Proofs of `TypeOK` and `ReplayAgrees` of one host: **done**.
13. Proof of `SequentialVerdict`, the verdict under another order of the collectors: **done**.
    Every invariant and action property of the passing runs now has its theorem; liveness is left to TLC.

## 3. The models and the code

### ClaimEngine

One actor per host (the goroutine that calls `Execute`), one for `Reconcile`.
Both take `operationMu` (`lock`). Every call to a provider and every UPDATE or
INSERT of `claim_audits` is an action, so that a crash can fall between any two.

| Variable | Code |
|---|---|
| `audits` | table `claim_audits`: status, resource, and what `receipt_json` holds: nothing, the provisional receipt of `beginAttempt`, or the adapter's |
| `live` | what exists at S3 and Route 53, who made it, whether the ownership proof (`.well-known/subdomainabber-...` object, the zone's caller reference) is there, and whether its creator was told that the create had failed |
| `lock`, `halted`, `attempted` | `operationMu`, `haltedErr`, the set of resources tried |
| `pc`, `cur` | where each call of `Execute` or `Reconcile` stands and the row it works on |
| `todo`, `failures` | the list `PendingClaimAudits` returned and the errors `Reconcile` joins |

`Execute` is the head of the function up to the provisional row (four disjuncts:
halted, unsupported, already attempted, attempt). `ClaimHead`, `ClaimCreate`,
`ClaimPut`, `ClaimUndo` are the S3 adapter call by call, `ClaimCreate` and
`ClaimCompare` the Route 53 one. `VerifyControl` fetches the
control evidence; the `Release...` actions are shared by `Execute` and
`Reconcile` as `Release` is. `Crash`, `Occupy` (somebody else makes a bucket of
the name) and `ManualCleanup` (what `docs/claim-engine.md` asks of the operator)
are the environment. Every call that creates, puts or deletes may take effect and still
report an error. Of a create that does, the engine never learns what it made: the
resource is `disowned`, a history field that no action reads.

### ScanRun

One actor per host (the goroutine of the batch loop), the loop, the operator.

| Variable | Code |
|---|---|
| `status`, `tally`, `aggressive` | `scan_runs.status`, `completed_count`, the profile's flag |
| `target` | `run_targets.status`; `"none"` is a host without a row, as pivot hosts are |
| `saved`, `observed` | rows of the hosts table and of `observations` for this run |
| `phase`, `session`, `unread` | whether the process is reading the stream or in a batch; a streamed input's `scanSession` and its rest |
| `pending`, `next`, `seen`, `pivoted` | the loop variables of `runScan` |
| `interrupted`, `fatal` | the command's context, `firstFatal` with `cancelBatch` |
| `pc`, `outcome`, `unsafe`, `reported` | a goroutine in `processDomain`, `domainResult.Outcome`, `ErrUnsafeClaimState` and whether it is in `FatalErr` |
| `unmarked` | history: hosts a `MarkTarget` of which failed, an error the code ignores |

What DNS, HTTP and the claim find is a choice among the results `processDomain`
can return; the order of its writes, its looks at the context and its error
paths are kept. A goroutine's steps are `CheckContext`, `Probe`, `Claim`,
`SaveAnalysis`, `SaveObservation`, `MarkTarget` (two statements, either can
fail), `Report` (queue certificate names, cancel on a fatal error, give the
slot back). `Resume` re-reads the pending targets.

### Dispatcher and Transitions

`Transitions` has the tables: `RiskRank`, the state change and severity of a
transition, the severity of an alert. `Dispatcher` is the queue and its users.
`Dispatch` is two critical sections in the code, under `mu` and under `queueMu`,
and two actions in the model (`Dispatch`, `Enqueue`) with any step of others in
between; `caller` holds the event meanwhile. `queue` and `closed` are the
channel, `hand` and `left` what a worker still has to send; the order of the
queue and of the notifiers is left open. An event is a batch and a result;
`accepted`, `dropped` and `offered` are history. A notifier that fails is logged and changes
nothing, so `Send` has one outcome.

### VerifyRun

The producer (`Feed`, `FeedEnds`), the workers (`TakeHost`, `Examine`,
`SaveSnapshot`, `SendResult`), the main goroutine (`Consume`, `Announce`,
`Enqueue`, `EndRun`, `Exit`) and an instance of `Dispatcher` with main as its one
caller, made anew by each `Start`. `stored` and `timeline` are the tables
`hosts` and `host_snapshots`; the rest dies with the process (`Crash`). The
goroutine that closes `resultsChan` is the guard of `EndRun`. `current` is the
change between `persistVerifiedAnalysis` and `Dispatch`; `saved` is history.

### Recon

One process at a time, its database, and a network that does not change.

| Variable | Code |
|---|---|
| `run` | the latest row of `recon_runs`: status, mode, partial |
| `saved` | its `checkpoint_json` (round, frontier, attempted) and, of `sources_json`, the sources with an error or a cut |
| `linked`, `row`, `active` | `recon_run_names` of that run; what `recon_names` stores of a name, and whether it is active |
| `stage` | the call `Discover` or `runRecon` is about to make |
| `catalogue`, `frontier`, `attempted`, `round`, `spoiled` | `candidates`, `frontier`, `attempted`, `result.Rounds`, `result.Sources` |
| `named`, `made`, `doubted`, `kept` | history: the names this run was given; those it generated and tested; whether a look-up failed, was cut or was never made; the names of the last complete run |

A step is one stage: `Collect` (the passive sources, any of which can fail after
giving a part), `Initial`, `AddDNSSeeds`, `AddZoneSeeds`, `AddPTRSeeds`,
`ReportProgress`, `Round` (pages, then generated names, within one budget),
`AddCNAMESeeds`, and the two writes at the end. `LookUp` is `resolveSeeds` with
`mergeCandidates`; the concurrency inside it is a choice of which names were handed
to a worker and which of them were answered. Where the code cuts a list, `Cut`
takes any subset of the right size, so nothing depends on an order. What a page, a
zone, a record or a word gives is a constant, and the frontier holds copies of
candidates as the code's does. `Interrupt` ends the context, which the code looks at
only where `Stop` and the guards of `Collect`, `NextRound` and `LoopEnds` say.

### DnsAnswers and DnsResolver

`DnsAnswers` has the functions of replies: `ResponseStatus`, `AddressStatus`,
`AddressConsensus`, the parent's views of a delegation, wildcards, DNSSEC, the
health of a server. `DnsResolver` is what surrounds them. A question is an address
family or the health of the zone.

| Variable | Code |
|---|---|
| `mode`, `held` | DoH, single queries or consensus; what each server holds, which its owner may change |
| `cache` | `queryCache`, `nsHealthCache` |
| `stage`, `leader`, `attempt`, `reply` | the flight of a question in its singleflight group: where it stands, whose context it uses, failed attempts, its result |
| `pc`, `operation`, `asking`, `got`, `views`, `said` | a caller: where it is, what it resolves, the question it is at, the replies and views it has, what it concludes |
| `over`, `batch` | contexts that ended, cycles of the scan |
| `shown`, `asked`, `torn` | history of this cycle: what each server held, answers stored, whether a cut reply was taken for an answer |

The first read of the cache (`Look`), the entry to the group (`Join`), the second read
inside the flight (`Recheck`), the exchange (`Answer`, `Refusal`, `Truncated`,
`Lost`, `CutShort`) and its delivery to all that wait (`Land`) are separate
actions. With consensus a caller asks every server past the cache (`Views`,
`LostViews`, `Tally`). `BeginBatch` is `ClearCache` between two cycles.

### The analysis of a host

`Observations` has the records that collectors exchange; `DnsEvidence`, `WebEvidence`
and `HttpMutator` have one operator per collector, a function of the world `w` and
of the analysis so far; `Classification` has inference, scores, rules, decision and
confidence; `Verifiers` the choice of verifiers, their race and the cloud layer.
`HostAnalysis` runs them as `processDomain` does.

| Variable | Code |
|---|---|
| `world`, `first` | what DNS and hosts would answer; whether this host is the first of its base domain in the batch, which is asked for common services |
| `order`, `step` | the order in which the ten collectors of the independent phase add their evidence, and the next one |
| `lost`, `faults` | profile queries that failed, all lookups that failed |
| `analysis` | `core.Analysis` |
| `saved`, `observed`, `announced`, `outcome` | rows of hosts and observations, the notification, the result |
| `interrupted` | the context has ended |

A fault is a lookup that fails where the world would answer (`Trouble`); after an
interruption all fail (`Blackout`). The independent collectors append to the
evidence under the lock of the analysis and read nothing of each other's (section 5 proves it), so a
concurrent run of them is one of its orders. A world names classes of texts: a body or certificate is a string that no
rule looks into further than the model does. `WorldAssumption` says what every world is:
its records are lists, each scheme and probe has a reply, each name server that is named
has something to tell, and a parent that denies the name of a zone lists no server for it,
as the DNS protocol has it (an NXDOMAIN reply carries no delegation).

### PlatformSync

| Variable | Code |
|---|---|
| `offered` | what the platforms list now |
| `scope`, `active`, `links` | `platform_assets`, `platform_target_links` |
| `workRoot`, `workDone` | `platform_sync_queue` of the latest run: the root of a row, and whether it is COMPLETED |
| `status`, `stage`, `chosen`, `full`, `note`, `scanRun` | the latest row of `platform_sync_runs` |
| `pending` | `run_targets` of its scan |
| `pc`, `wantScan`, `resumed`, `replies`, `saved`, `reasons`, `work`, `root`, `names`, `partial`, `todo` | the process |
| `known`, `expanded`, `astray`, `tested` | history: what a complete recon found, the root an asset was expanded with since its scope changed, rows left behind, hosts tested |

`Command` begins a run or takes up the one that is RUNNING. `Fetch`,
`SavePrograms` (a transaction per platform), `Plan`, `Recon`, `Complete` (the
transaction of an asset's links and the update of its row, with `StopLinked` between
the two), `WriteNote`, `EnterScan`, `StartScan`, `OnStart`, `Test` and `Finish`
follow. `Stop` is everything that leaves the row RUNNING: a crash, an interruption, a
failed statement, client or recon. `Test` stands for a host of `ScanRun`.

Some operators carry the name of a mapped one and a word more or less
(`SaveObservationLogged`, `FinishAlways`): each is the same step with a
plausible slip, used to test that the properties would notice it. Nothing else
refers to them.

## 4. The runs

| Run | What it shows |
|---|---|
| `claim_safety` | four hosts (two on one bucket, one on a zone, one unsupported), four rows, three faults, homonyms of both kinds, lost replies of create, put and delete. Nothing made is forgotten (`Recoverable`) and between claims of a scan that goes on nothing is left (`QuietMeansClean`), but for what a create made and reported as failed (below); recovery adopts only its own (`AdoptsOnlyItsOwn`); after a halt nothing is created (`HaltedCreatesNothing`); table and providers implement `ClaimLedger` (`ImplementsLedger`) |
| `claim_settles` | two hosts on one bucket and one on a zone, three faults, an operator who cleans up by hand: every pending row is settled in the end (`EveryAttemptSettles`), except that of a zone which is gone (below) |
| `scan_run` | two inputs, two hosts only certificates name, a pivot limit of one, two goroutines, streamed batches of one, two faults: what the tables say is true (`DoneIsSaved`, `CompletedIsSettled`), bounds and cancellation hold (`PivotBounded`, `UnsafeStopsRun`), the scan ends (`ScanEnds`), every registered target is settled (`EveryTargetSettles`) |
| `scan_unsafe_dropped` | *violation*: a failed `SaveObservation` drops the unsafe state of a claim and the run is recorded as `COMPLETED`, against `docs/claim-engine.md:43` |
| `dispatcher` | two callers, five results of which two share an identity, two workers, two notifiers, a queue of one, two batches: one event per identity and batch (`OnePerIdentity`), suppression has a reason (`SeenIsAccounted`), `Flush` delivers what was accepted (`FlushDelivers`) and is final (`QuietAfterFlush`) |
| `verify_run` | two runs over two hosts, two workers, a queue of one, one fault: what is announced is stored (`AlertIsStored`), what is stored is announced or met a full queue even after an interruption (`ChangeIsAnnounced`), a run that reports no error leaves timeline and store in agreement and everything sent (`CleanRunAgrees`), the pipeline ends (`RunEnds`) |
| `recon` | three launches over a root and seven names, three modes, two faults, an interruption: until a run is complete the last complete one's names stay active, and a complete one leaves its own (`KeptStaysActive`); a complete run whose look-ups were answered has every name it was given, but for names it had generated and set aside before (`NamedIsKept`), as the network has it (`RowsAreTrue`) |
| `recon_name_lost` | *violation*: one interruption inside a round and the same command again, and the run is complete without a name it was given, against `README.md:191` |
| `dns_resolver` | two callers, two servers in four initial states, DoH, single queries or consensus, two cycles, one lost, refused, cut or cancelled query or one change of a zone: a cycle stores one answer to a question (`AskedOnce`), an absence was shown by a server, or a quorum of them, in this cycle (`AbsenceIsSeen`), every caller is answered (`EveryCallReturns`) |
| `host_analysis` | 52 worlds, two orders of the independent collectors, two failing lookups, an interruption anywhere: an accusation is true of the world (`AccusationsAreTrue`), without faults the verdict is that of an undisturbed examination (`SequentialVerdict`), a replay repeats it (`ReplayAgrees`), scores and percentages keep their bounds (`TypeOK`) |
| `cloud_exposure` | *violation*: a bucket anyone can list is found by the cloud verifiers after the rules have judged, and the host is stored with the level it had, against `internal/classification/rules.go:114` |
| `platform_sync` | two platforms, a wildcard that can move between two roots or be withdrawn, an exact host or a second wildcard, two runs full or incremental, two faults, one change: past recon every wildcard in scope was expanded with its present root (`ChangeIsExpanded`), what a complete recon found stays linked (`KnownIsKept`), a run that scans has tested every target (`EveryTargetIsScanned`), every run ends (`EveryRunEnds`) |

Bounds. `MaxAudits` is one attempt per host: enough for both orders of two hosts
on one resource, and for a retry after a restart. Three faults reach every pair
of failures (a failed clean-up after a failed put, and a crash after it) and a
crash during the reconciliation that follows. In a scan, two faults are a crash
or an interruption followed by a failed write of the resumed run, or two failed
writes of different hosts; a pivot limit of one with two certificates that offer
two names each makes goroutines compete for the last place, and `x`, a
certificate name with a certificate of its own, makes a third round possible.
A queue of one stands for one of 1000: it is full after one event, and an event
can be in the queue, in a hand and on its way at once. In `verify_run` two changes
and a queue of one already drop an alert, one fault reaches a failed snapshot, a
failed store, an interruption or a crash at every step, and the second run starts
from what the first left. In `dns_resolver` two callers are a leader and a follower, and two
servers make a quorum that both must belong to; one trouble is a change of the zone, a lost, cut
or refused reply, or a context that ends, at every point of both flights, with two attempts
each; two cycles are what a stale answer needs. In `host_analysis` a world has one thing to find
or several that compete, each rule and each collector has a world that triggers it, the
two orders put every pair of collectors both ways round, and two faults can make two servers
of a delegation silent. In `platform_sync` two faults interrupt a run and its resumption, a
change falls between them, and the second run begins from what the first left. In `recon` the passive mode ends without rounds and reaches no
limit, the standard one has one round, which takes it to the limit of tested names before the aliases are followed, the
exhaustive one has two rounds and room for everything; three launches are a complete
run, an interrupted or crashed one and its resumption, and with two faults the
resumed process can fail as well. The theorems of section 5 remove these bounds for the safety properties they name.

Deadlock is checked in the two recon runs, where `Rest` is the state in which every
launch has been made and has ended: a process can always go on. It is not checked in the others: when the faults and rows are used up the
operator may stop, and a finished run that has nothing to resume is a legitimate
last state. `ScanEnds`, `RunEnds`, `EveryCallReturns` and `EveryRunEnds` state what must not get stuck.

Two behaviours of the claim engine disagree with its documentation; the passing runs
have both, and the properties except them by name. A create whose reply is lost ends as
`CLAIM_FAILED` with an empty receipt while the resource exists (`engine.go:174`;
`docs/claim-engine.md:41` keeps `CLAIM_FAILED` for failures that created nothing):
`Recoverable` says that this is the one way in which a resource is forgotten,
`QuietMeansClean` that nothing else is left behind, and the resources of `ClaimLedger`
are those whose creation was reported (`Known`). After a crash between
`DeleteHostedZone` and the last write the row can never be settled, because `GetHostedZone`
of a zone that is gone is an error for the reconciliation (`aws_route53.go:202`), and
aggressive runs are refused until somebody edits the table (`docs/claim-engine.md:41`,
`:43`): `ZoneIsGone` is the exception in `EveryAttemptSettles`, which is violated without
it.

Fairness. Each goroutine's next step is weakly fair: its calls have timeouts or
the context's end, and Go's scheduler runs it. The steps of the loop, of
`Reconcile` and the start of the next scan (or `Resume`) are weakly fair: the
liveness properties are about an operator who keeps running the tool. In
`ClaimEngine`, `operationMu` is weakly fair only as a whole: a host whose `Execute` is
enabled continuously takes it. `ManualCleanup` is strongly fair because it is possible
only between two runs and the documentation asks for it. In
`Dispatcher` and `VerifyRun` workers are weakly fair because `Send` has a timeout of
ten seconds and an examination has the timeouts of its queries; `Flush` itself
needs no fairness to be called. In `DnsResolver` each caller and each flight is weakly
fair: an exchange ends with its timeout. In `PlatformSync` the process is weakly fair, and so is
the operator's repetition of the command, with `--resume` as by default, while a run is
RUNNING. Faults have no
fairness and are finitely many; homonyms are left out of the liveness run, since
somebody could take the name for ever.

## 5. The proofs

`SharedServiceProofs` holds the proofs of the two services that all goroutines of a scan share,
the claim engine and the dispatcher; they do not use each other.

The claim engine. From `EngineAssumption` alone, for any hosts, resources, homonyms,
rows and faults, and whatever replies are lost: `TypeCorrect`, `NothingForgotten`
(`Recoverable`) and `CleanBetweenClaims` (`QuietMeansClean`). `Recoverable` is not inductive: a step
of the release needs to know that the row in hand is still one that is read, and
where in the function a resource can exist. The invariant adds: the lock belongs
to whoever is at work (`LockInv`), the row in hand is pending (`RowInv`), there is
no resource at the steps where the code assumes there is none, or only one its create
disowned (`GoneInv`), a resource belongs to the resource name of its row (`LiveInv`),
and what exists and is not disowned is in hand, still listed or already a failure
(`CleanInv`). There is one lemma per action.

Its second part, on the refinement. From the same assumption: `EngineImplementsLedger`
(`ImplementsLedger`), `AdoptionIsRight` (`AdoptsOnlyItsOwn`) and `HaltIsRespected`
(`HaltedCreatesNothing`). The mapping of initial states is immediate; a step maps to a
ledger step only in states where the engine knows of at most one resource
(`AtMostOne`), where a host inside `Execute` knows that the engine is not halted
(`InsideIsLive`: `haltedErr` is read under the mutex and nobody else sets it
meanwhile), and where recovery has its own resource in hand (`AdoptsOnlyItsOwn`).
These three join the invariant. The lemmas say of each kind of step
what the ledger sees of it: one action creates (`CreateStep`), all others only take away
(`OthersOnlyTake`), and each write of a row is an opening, a settling or neither.

`ScanRunProofs`. From `ScanAssumption` alone, for any hosts, certificates, limits
and faults: `TypesHold`, `ResultsAreKept` (`DoneIsSaved`), `PivotStaysBounded`,
`CompletedRunsAreSettled`, `UnsafeRunsAreNotCompleted`, and the action properties
`StopIsFinal` and `OnceIsEnough`. The invariant has a part per question, with a
lemma each: what a goroutine at a place has written (`SaveInv`), the counter
counts and stays in its limit (`PivotInv`), the queues are disjoint from each
other and from hosts that had a goroutine (`QueueInv`), a fatal error needs an
unsafe claim and claims need an unstreamed aggressive run (`FatalInv`), what is
pending is still in the loop's hands and the tally is that of the last outcome
written (`LoopInv` inside `SettledInv`), and an unsafe claim is on its way to stop
the batch (`UnsafeInv`). The tally needs an argument: `MarkTarget` recounts all
rows, so after the last outcome of a batch the count is right although a failed
count in between was not, provided the batch was not empty; that is why
`BatchNotEmpty` is proved of the streamed batches.

The dispatcher, also in `SharedServiceProofs`. From `DispatcherAssumption`, for any callers, results,
workers, notifiers, capacity and number of batches: `DispatcherTypesHold`,
`OneAlertPerIdentity`, `SuppressionIsAccounted`, `NothingTwice`, `FlushIsComplete`
and the action property `FlushIsFinal`. The invariant says that every event with
a batch and an identity is noted in `seen` (`SeenInv`), that an identity has one
event and the event one place (`UniqueInv`), that an accepted event is queued, in
a hand, or was offered to everybody (`AccountInv`), and that a worker returns only
from a closed and drained queue (`ClosingInv`). `FlushIsComplete` needs a worker to
exist, which `NewDispatcherWithOptions` sees to.

`ReconProofs`. From `ReconAssumption`, for any names, network, sources, limits,
modes and bounds: `TypesHold`, `CatalogueIsKept` (`KeptStaysActive`), the action
property `TestedOnce` (`NothingTestedTwice`), `RowsHold` (`RowsAreTrue`) and
`NamesAreKept` (`NamedIsKept`). None is inductive alone. The
first invariant (`IInv`) adds that a process works on a run whose row is RUNNING, or it would
activate names of a run that is already complete (`RunIsOpen`), that before its first
save the run has no names (`EarlyIsEmpty`), and that what the
checkpoint lists as tested is among the names the process holds as tested
(`TestedIsHeld`); a run without names starts over, whatever its checkpoint lists,
which is why the property speaks of runs with names.

The other two say what a *complete* run has, after any number of processes worked on
it. The invariant `RunInv` says at every stage how four things agree: what the run was given
(`named`), what the process holds, what is stored, and what a process that resumed the
run now would do. It has three parts. `Shape`: what is found was tested, what is
stored is found, and where the loop asks whether to go on, the process holds exactly what one that
resumes would. `Rows`: the catalogue has the verdicts of the network once the zone was
asked; it needs that a run below its limits has tested the whole zone (`ZoneTested`), so that no later
name is one the zone would have cleared. `Naming`: a name that was given is tested
or excused, or the stage at hand, or the round after the last checkpoint (`Ideal`), asks for
it next. The argument for a crash inside a round is monotony (`RoundCovers`): a round that
nobody doubts and that reaches no limit gives whatever the same round gave before, in
part or from the same frontier. `FollowUpAll`, `PivotAll`, `RoundAll` and `CollectAll` say
what such a stage does with the budget: it leaves a name out only when it takes
the run to a limit, which makes the run partial (`BudgetSpent`).

The attempt showed three things that the property now says. A round's generated
names may be cut by the budget with no limit reached, as references may (`Dropped`). A
generated name that did not resolve counts as tested, so that the same name given
later, by a page or an alias, is passed over (`SetAside`; `recon.go:335`). And in an exhaustive run the
process that stored the first checkpoint has a frontier with the verdicts from before
the zone transfer (`recon.go:325`, `:362` correct the catalogue only): it generates
fewer names than a process that reads the same frontier back, and may ask for the
reverse name of one that the other sets aside (`BehindSetAside`).

No run checks `TypeOK` of `Recon` and `NothingTestedTwice`, nor the dispatcher's
`OfferedOnce`: they are proved only.

`DnsResolverProofs`. From `ResolverAssumption`, for any callers, any finite set of
servers, and any contents, retries, cycles and troubles: `TypesHold`, `OneAnswerACycle` (`AskedOnce`)
and `AbsenceIsWitnessed` (`AbsenceIsSeen`). `AskedOnce` needs that a flight asks
only while the cache has no answer (`CountInv`), which the second read inside the
flight gives. `AbsenceIsSeen` speaks of what a caller concludes; the invariant follows
an absence from there back to the reply in the caller's hand (`GotInv`), in the
flight and in the cache (`FlightsInv`), each of which stands on a server that showed
it in this cycle or on a cut reply. With consensus it is an argument about quorums:
the servers that back a view are among those that showed what it says, and a set
with a subset of a quorum's size has a quorum.

`PlatformSyncProofs`. From `SyncAssumption`, for any platforms, assets, roots, results
of recon, scopes and bounds: `TypesHold`, `ChangesAreExpanded` (`ChangeIsExpanded`),
`LinksAreKept` (`KnownIsKept`) and `TargetsAreScanned` (`EveryTargetIsScanned`).
`ChangeIsExpanded` speaks of runs past recon; before that, what holds is that a wildcard which
is not expanded has a row which is not done (`ExpandedOrQueued`), that all answers were
there before the first was saved (`RepliesAreComplete`), and that the rows a process holds
are all the run has left (`QueueIsHeld`), so that nothing is left when it goes on.
`StageIsReached` ties the process to the stage in the table, on which the resumption
relies. `EveryTargetIsScanned` needs its counterpart for a scan in progress: each
target is tested, pending in the tables, or in the hands of the process (`TargetsAreHeld`).

`VerifyRunProofs`. From `VerifyAssumption`, for any hosts, levels, subjects, verifiers,
senders, notifiers, capacity, runs and faults: `TypesHold`, `AnnouncedIsStored`
(`AlertIsStored`), `StoredIsAnnounced` (`ChangeIsAnnounced`) and `CleanRunsAgree`
(`CleanRunAgrees`), of the verification run together with the dispatcher it uses. The
steps of the dispatcher are used by their definitions and not by the theorems about
it alone: here they are taken by a run that starts the dispatcher anew. No property is
inductive alone. That what is announced is what is stored needs that a host is at one
place (`PlaceInv`: with the producer, in the channel, with one worker, among the
results, or stored), or a second result of a host could replace the one its
notification speaks of. That what is stored is announced needs that its identity is
noted and that what is noted has an alert (`NotedInv`). The agreement of timeline and
store needs that the last snapshot of this run was stored or is on its way to main
(`TimeInv`), which an interruption or an error gives up, and the delivery that a sender
only returns from a closed and drained queue (`DeliverInv`).

`HostAnalysisProofs`. From `HostAssumption` and `WorldAssumption`, for any set of
worlds, any orders of the independent collectors and any number of lookups that fail:
`AccusationsHold` (`AccusationsAreTrue`), from the invariant `TruthInv`
(`TruthInvariance`). The property speaks of the stored level alone and says nothing of how
it came about. The invariant follows the accusation back to the look at the world it
rests on, in four stages:

* A world and a number of failed lookups exclude some types of evidence, those that are
  false of it (`Untrue`). `Sound(a, F)` says that an analysis gives none of the types `F`.
  Every collector keeps an analysis sound for what is false of the world it looks at
  (`CollectorSound`); five of the 27 can accuse, and these are the lemmas with an argument:
  an alias that is absent for sure (`CNAMESound`), a specific fingerprint the page shows
  (`HTTPSound`), one that only the altered requests reveal, in replies that were read to
  their end (`MutatorSound`), a delegation whose servers all failed for good,
  of one provider and without DS (`NSSound`).
* What a collector looks at is not the world: queries of the profile failed, and one lookup
  of its own may fail. `Follows(w, W, misses)` says that such a look shows no more than the
  world has, but for the views of `misses` parents. It holds of every look without a
  failure (`CalmLook`) and with one (`TroubleLook`), and an accusation that is true of
  the look is then true of the world (`HonestWhenItFollows`).
* The rules infer nothing of the types in question (`InferSound`), and a level claims no
  more than its evidence says (`Grounded`, `LevelIsGrounded`): each rule asks for the evidence
  its level needs, and the first that holds decides. The same for a verification that
  judges again (`VerifiedSound`).
* After the context has ended the collectors look at the blackout, and what they
  find may be false (no server of a delegation answers). `TruthInv` claims nothing of such an analysis; that
  none is stored is the check of `Decide`, which a context that ends later no longer matters to.

With more failures less is excluded (`UntrueShrinks`): the property allows a delegation
to be judged without the parents that did not answer, as many as there were failures.
The attempt showed that the altered requests count as shown only when all four replies of an
experiment were read to their end, which `ShowsMissingResource` now demands; the weaker form would not
have told an experiment with a lost control reply from a whole one.

`TypesHold` (`TypeOK`) says for the same worlds that levels, states and scores are in range and
that the stored percentage never exceeds the coverage. Its invariant `Shaped`
(`ShapeInvariance`) is proved beside `TruthInv`, and needs every collector again, with no type
excluded: also one that looks at the blackout adds only evidence whose type and source the rules
know. The scores are capped sums over a sequence of evidence; that such a sum is a number is an
induction over the sequence, done here by the least length at which it would
fail (`Least`), since the library's induction theorems take an operator as a parameter. The same argument
carries an invariant of one collector through the fold of a whole pipeline. The percentage is counted
in tenths of a percent; what bounds it is that `Calculate` caps it by the coverage for every level but
the claimed ones, which `TruthInv` excludes (`PercentIsCovered`). Two folds of the model
had to become `FoldLeft` for this: `FoldSeq` leaves the order of an operator that does not
commute to `CHOOSE`, and an examination has an order.

`ReplayHolds` (`ReplayAgrees`) says that `db replay` of an observation gives the verdict that
was stored with it, whichever of the two redirect chains it walks first. Between the first judgement and the
observation lie the verifiers, a second judgement of the level and the confidence; the invariant
`ReplayInv` (`ReplayInvariance`) says at each of these places that the rules, run once more, would write what
the analysis already has (`Settled`), unless a cloud verifier added evidence in between, which is
the exception the property makes and `ExposureIsClassified` shows to matter. Its parts:

* What the rules draw has a source of its own (`DrawsPlainly`), so that `Infer` takes its own entries away
  before it adds them again, and gets back what the collectors gave (`InferredAgain`).
* What they draw is read off the observed pages, the chains and one tested vector, which
  no later step changes (`DrawsRead`, `CloudAlike`).
* The two walks draw the same evidence, because each chain concludes one and the same entry or
  none, but the inferences in another order (`DrawsAgree`). The order does not show in the
  state: it is that of the best inference, and no two states have the same rank
  (`RanksDiffer`, `SameState`).
* `Process` does not clear the unknown provider, so a second judgement could keep one that is no longer
  deduced. `db replay` clears it first, and no collector sets it (`CollectorUnjudged`).
* A verification that judges again settles too (`VerifiedSettles`), and nothing reads the
  percentage (`PercentSettles`).

`SequentialProofs` goes on from `HostAnalysisProofs`. `SequentialHolds` (`SequentialVerdict`) says
that a verdict stored without a failed lookup is that of one undisturbed examination. This compares two examinations, and no invariant of one analysis
gives it: evidence is a list, and two orders of the collectors leave it permuted. The heart is a
theorem about the operators, `NoOrderShows`: in any world with the lists a world has, the verdicts under two
orders are equal, whichever redirect chain the rules walk first. Its argument, along the pipeline:

* An independent collector reads of the analysis only the pages and the delegation, which
  no independent collector writes, and adds the same evidence, links and vectors whoever went
  before it (`Gives`, one lemma for each of the ten). Each type of evidence has one author
  among them (`Author`), so none hides or repeats an entry of another.
* Hence after any order of them the analysis has gathered the same (`Gathered`), and two
  such analyses are `Even`: equal in every other field, their evidence equal as a set, with the
  same weights counted once and the same multiplier (`SameWeight`). The multiplier depends on which of two types
  came last, and no independent collector says one of them.
* The collectors that come later see no difference (`LaterEven`, one lemma for each), and neither do
  the rules (`ProcessEven`), the verifiers (`AgreeAfterVerifiers`) and the percentage (`AgreeVerdict`):
  they ask for sets and sums. `Agree` is what remains equal after the rules, which draw the
  same inferences from the two chains in another order.

`SequentialInv` (`SequentialInvariance`) then says, as long as no lookup failed, how far the
undisturbed examination has come at each place of `processDomain`: as long as nobody interrupts, the
analysis is the fold of the first `step - 1` collectors, then what the rules make of it, then what the
verifiers do. An interruption breaks the description until `Decide`, which returns when the
context has ended, so what is stored was `Finished`. For this proof `Examine` became a
recursive function over the pipeline (a walk whose step can be named), and the first
evidence of each kind a set with the index of its last multiplier, instead of folds that hide the order.

Only model-checked: the liveness properties. Liveness under fairness and ENABLED are outside
what the prover handles.

## 6. What is not modelled

* An adapter that returns an invalid receipt (`claim/engine.go:185`): neither
  adapter can.
* In us-east-1 `CreateBucket` succeeds on a bucket that the account already owns
  (`claim/aws_s3.go:108`). The model has the answer of the other regions, a refusal; a bucket
  of the account that appeared after `HeadBucket` would be taken for the attempt's.
* Eligibility and the allow-list of claims: the hosts of `ClaimEngine` are those
  that pass.
* A second process on the same database: `operationMu` belongs to a process and
  the documentation describes one.
* Two processes on one database: a scan that stores a host while `verify` examines
  it. `verify` would store its own analysis over the newer one.
* Across a crash between storing a change and delivering its notification, `verify`
  announces at most once: the stored level is the next run's reference. The model
  has the behaviour; no property asks for more.
* The timeline can repeat a level: a worker writes a snapshot before main stores the
  analysis, and an interruption in between makes the next run write it again. The
  comment at `internal/verify/engine.go:134` ("Registra somente a descoberta inicial
  ou uma transição de estado") describes runs that end cleanly, which is what
  `CleanRunAgrees` states.
* Of a streamed input that is interrupted, hosts that were not registered yet are not
  resumed (`README.md:262`, `:327` promise registration of every target). `ScanRun` has the behaviour;
  `EveryTargetSettles` speaks of registered targets.
* The daemon mode's intervals, the WHOIS pivot, flags and output of a scan. A WHOIS
  pivot adds hosts as the input does.
* Recon: options that change between a run and its resumption (words and
  depth; the mode is compared and is modelled), errors of the reads at launch, the
  migration of an old catalogue, output, and `recon` without a database. The engine
  ignores errors of its MX, NS, SRV, zone, PTR and page queries, so the model's
  network stands for what they showed; only address look-ups fail visibly.
* `scrapeSeeds` cuts the references to the budget before the known ones are set
  aside (`recon.go:1120`), and `generateSeeds` what it makes, so a run can drop a new name with no
  limit reached, and is complete. The model does this and sets `doubted`; `NamedIsKept` says
  nothing of such a run, since `README.md:193` speaks of limits that are reached.
* The resolver's DNSSEC validation, the transfer of a zone and the parsing of
  messages: a world says what they come to. The wire exchange of
  `authoritative.go` likewise.
* The page each of some thirty providers shows for a name nobody holds
  (`internal/verifiers`): one predicate per provider, of which three are named.
* The provider of an SPF include that is NXDOMAIN (`email_security.go:244`): it counts
  only for the note on a TXT token whose provider nothing else names, which carries no
  weight; no verifier is of a service with an SPF pattern.
* Two paths of errors that no property could see: a `context.Canceled` while the context
  of the batch lives (`scan.go:1431`; every context of a host descends from it), and a
  failed wildcard probe that lists a name as resolved (`recon.go:653`; such a run is
  `doubted`).
* Scans with a part of the vectors: the profile of `HostAnalysis` tests all of them.
* HTML, certificates and raw responses are not parsed: the worlds give what their
  evidence tells apart. Weights that only order a report, reasons and texts are left
  out.
* `sync`: the platforms' HTTP clients and the reading of an asset into host and root; headers and
  rate limits that a program asks for (`README.md:220`). Two behaviours of the model are
  not asked for by a property: the row of an asset that was withdrawn or moved between
  an interruption and the resumption stays in the queue and is expanded with its old root (`README.md:220`;
  `Misled` excepts it), and the reasons of roots that were partial before an interruption are
  not carried over, so that the resumed run ends COMPLETED (`README.md:222`).
* Enumeration and provider mining: a bounded worker pool over a word list, a ranking
  of unknown providers, one WHOIS exchange. Nothing is kept between calls.
* The analysis store beyond `SaveAnalysis`, `SaveSnapshot` and `SaveObservation`, which are steps
  of the models that call them: queries and JSON columns.
* Rate limiter and network client: they decide when a request leaves, on which no
  property here depends.
* Signatures, fingerprints, learning: tables and their matching by name. What a
  signature matches is part of a world; learned signatures are one file rewritten by
  one process.
* Passive sources, export, report, statistics, the benchmark corpus, configuration and
  command line: I/O, formatting, parsing, test data.
