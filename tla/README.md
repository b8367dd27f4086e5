# Sigstore Probers: a verification project

TLA+ models of the programs of this repository, TLC configurations that check
them on small instances, and proofs, checked by TLAPS, that hold for every
instance. The probers exist to raise an alarm exactly when Sigstore is ill, so
the questions are: can a prober report success although something it probes
failed, can it report failure although nothing did, can it hang, and does an
alarm reach the oncall once?

## The system

| Part | Source | State | Operations | What makes it correct |
|---|---|---|---|---|
| prober | `prober/prober/prober.go`, `write.go`, `endpoints.go` | trust material and selected services; a round's `hasErr`, key and certificate; `lastErr` of a write endpoint; deferred increments; `verificationCounter` | startup, read checks, a gRPC check, seven write probes, exit or sleep; a metrics server beside it | the exit status and the counters tell the truth about the round; rounds end |
| shard coverage | `prober.go` `determineRekorShardCoverage` | loop offset, chosen indices | ask a Rekor v1 log for its shards, choose an entry of each | an existing entry of every shard is read, as far as the arithmetic covers it |
| shard script | step "Read entries from all Rekor v1 shards" of `reusable-prober.yml` | the same, in shell arithmetic | the same | the same |
| metrics | `prober/prober/prometheus.go` and its callers | `verificationCounter`; latency summaries and histograms | count a verification; observe an answer | the counter follows the visits to services; latencies: not modelled |
| rate limiter | `prober/rate-limiting.go` | job queue, WaitGroups, workers, an atomic flag and counter, connections, an error channel | fan out over four URLs; for each, queue requests to three workers until one is refused for its rate | the verdict is right, after all workers, and comes; no error is lost |
| CT log prober | `prober/ctlog/ctlog-sth.go` | retries of two requests, against the two minutes of the job | fetch and verify a tree head or checkpoint, ask the write service for its roots | a panic is founded, an exit status of 0 too, and neither is cut short |
| tiles-fsck | `prober/tiles-fsck/main.go` | an errgroup and its context | check every Rekor v2 log concurrently | no failed log goes unreported |
| pager | `pager-duty/main.go` | one event, the client's retries | validate, post, retry, report by exit status | a page is made, once for each key |
| workflows | `.github/workflows/*.yml` | results and outputs of jobs and matrix legs | run the probers, again if they fail, combine results, call the pager | a failed prober pages; what is over soon does not |
| build and release | Makefile, Dockerfile, scripts | none | build | not modelled |

A workflow runs a prober in a container, at most three times, each for at most a
minute. The prober talks HTTP to Fulcio, Rekor (v1, v2, identity) and the
timestamp authorities through a retrying client. Its exit status becomes the
job's result, jobs' results and outputs decide whether the pager is called, and
the pager talks HTTP to PagerDuty. The same binary runs as a daemon whose
counters Prometheus scrapes; there `hasErr` is forgotten after each round. The
rate limiter and the CT log prober have workflows of their own, with one leg of
a matrix job for each environment or log.

What is hard here: closures deferred in loops (`write.go`, `rate-limiting.go`),
errors that are overwritten, dropped or nil (`write.go:249`, `write.go:784`,
`prober.go:308`), one service of several failing, a goroutine that `main` may
kill at any step, three workers and a producer sharing a flag, a pool of
connections, retries of requests whose answer was lost and which were served all
the same, index arithmetic, an errgroup whose first error makes the others fail,
retry pauses against a job's timeout, and matrix legs that write to one set of
outputs in any order. PROJECT.json lists each hazard at its line, with the
properties that cover it.

## Modules

| Module | Models | Extends or instantiates |
|---|---|---|
| `Prober` | `main()` and `runProbers()` with all read checks and write probes | |
| `RekorWrite` | one call of `rekorV1WriteEndpoint`, its retries, and the logs it writes to | implements `Prober`'s write steps |
| `ShardLog` | a Rekor v1 log's shards | |
| `ShardReads` | what reading a log's shards promises (abstract) | `ShardLog` |
| `ShardCoverage` | `determineRekorShardCoverage` | `ShardLog`; implements `ShardReads` |
| `ShardScript` | the workflow's shell arithmetic | `ShardLog` |
| `RateLimit` | `rateLimit()`: producer, workers, connections | |
| `RateLimitMain` | `main()` of the rate limiter and its goroutines | |
| `CTLog`, `MCCTLog` | the CT log prober, in one leg of its workflow; the legs for TLC | implements `CTLogAlert` |
| `TilesFsck` | `main()` of tiles-fsck and its goroutines | |
| `Pager` | `execute()` of the pager, PagerDuty, the network | |
| `GitHubActions` | the rules of GitHub the workflows rest on (external) | |
| `ProberAlert` | `prober-prod.yml`, `prober-staging.yml`, `reusable-prober.yml` | `GitHubActions` |
| `RateLimitAlert` | `rate-limiting.yml` | `GitHubActions` |
| `CTLogAlert` | `ctlog-sth.yml` and the prober's table of logs | `GitHubActions` |
| `ProberProofs` | theorems about `Prober` | `Prober` |
| `RateLimitProofs` | theorems about both halves of the rate limiter | `RateLimit`, `RateLimitMain` |
| `ShardProofs` | theorems about both readers of the shards | `ShardCoverage`, `ShardScript` |
| `RekorWriteProofs`, `PagerProofs`, `TilesFsckProofs`, `CTLogProofs`, `ProberAlertProofs` | theorems about the module each is named for | that module |

Where a proof module extends two components, the definitions of the second carry
its name (`MainNext`, `ScriptSpec`).

Definitions marked `mutant` are not part of a model: each is a wrong version of
the definition after it, which breaks a property (PROJECT.json, "mutants").

### Prober

`stage` is the place in the code: one value for each loop or probe of
`runProbers`, in the order of the function, plus startup, the pause between
rounds and the end. Whether the prober runs once (`runOnce`) is chosen in
`Init`. The services of a kind are a number; `svc` counts the ones a
loop has not visited, `left` the read checks left for one of them. One request,
with its retries and the verification of its answer, is one step whose outcome
is a choice:

* a read check succeeds or fails (`ReadEndpoint`, `Report`);
* a Fulcio write yields a certificate, an error, or the nil error of
  `write.go:249` without a certificate (`FulcioWrite`, `FulcioLegacyWrite`);
* a service of a write endpoint verifies (`ServiceVerifies`), does not
  (`ServiceFails`), answers 409 (`Conflict`), or makes the code dereference nil
  (`Panic`). `LocalFailure` is an error before the loop over the services.

`lastErr`, the deferred increments and `verificationCounter` follow the code:
increments wait in `deferred` until the endpoint returns (`RunDeferred`), and the
TSA loop may set `lastErr` to nil (`write.go:784`). `cert` names the round whose
key is certified; a healthy log accepts only an entry signed by it (`Accepts`).
The history variables `faults` and `proven` record which classes of fault the
environment injected in the round and which write probes verified an answer;
they guard no action. `MetricsServerFails` is `main()`'s own goroutine, possible
at every step of a round.

Abstracted: what requests and answers contain, latencies, the additional
requests of `--rekor-requests` and `--fulcio-requests` (the endpoint counts are
those of `endpoints.go`), and the retries inside the HTTP client, which end in
one of the outcomes above.

### RekorWrite

Opens what is one step in `Prober` for the endpoint where it matters most: the
client repeats a POST whose answer was lost, the log has the entry by then and
answers 409, and the endpoint posts a fresh body, at most nine of them. The
client is `Send`, `Retry`, `FreshBody`, `ServiceFails`, `ServiceVerifies` and
`LoopExhausted`. A log is healthy or answers anything (`FaultyAnswer`), and keeps
what it takes (`stored`, `entries`). The network may lose a request, lose an
answer, deliver a request after the client has given up on it (`ArrivesLate`), or
break off the body of an answer (`AnswerCut`), which the client no longer
retries, because `write.go` reads it. `ProberView` maps a call to the variables of
`Prober`: `ImplementsProber` says that each of its steps is a step of `Prober`'s
write endpoint or none, so that the outcomes `Prober` chooses from are those that
retries leave.

### ShardLog, ShardReads, ShardCoverage, ShardScript

Entries are indices over all shards, inactive ones first; `ShardLog` describes a
log by the index with which each shard begins, followed by the size of the whole,
so that sums of shard sizes are differences of two indices. loginfo's `treeSize`
is the size of the active shard alone (`TreeSize`): the comment at
`reusable-prober.yml:237` says so, and `prober.go:410` asks for a consistency
proof up to it. Both readers compute with it as if it counted the whole log, so
that the size they take the active shard to have may be negative; the models
follow them.

`ShardReads` says what is promised: only existing entries, at most one of each
shard, and at the end one of every shard that has entries and is covered. An
inactive shard is `Covered` if the active one is not empty, the active shard if it
is larger than all the others together. `ShardCoverage` is the Go code's loop; its
property `ImplementsShardReads` is that specification under a refinement mapping.
`ShardScript` is the workflow's arithmetic, with bash's truncating remainder and
its division by zero; `Reached` says which shards its random index may miss, and
an index past the log's `Entries` fails the step.

### RateLimit, RateLimitMain, RateLimitAlert

`RateLimit` has one action for each step of the producer (`Loop`, `Send`,
`CloseJobs`, `WaitReturns`, `Report`) and of a worker (`Take`, `Connect`,
`RequestFails`, `OtherAnswer`, `Answer429`, `Read429`, `Return`). `Done` of the
WaitGroup is deferred in the worker's loop, so it runs when the worker returns:
`deferred` holds it until then. The protocol is chosen in `Init`: over HTTP/1.1 a
response whose body is neither read nor closed keeps its connection (`leaked`),
and `Connect` waits for one of `MaxConns`; an HTTP/2 stream ends with the
response (`multiplexed`).

`RateLimitMain` starts a goroutine for each of the four URLs, of which only the
verdict counts (`Verdict`), and reads their errors from the channel when all have
ended. The job's timeout may end the process at any step (`Killed`), and so may
the panic (`Panics`) of a worker whose URL makes no request, an error that
`rate-limiting.go:146` drops; `RateLimit` has URLs that make one.

`RateLimitAlert` is the workflow: two legs run the binary, `process-results` makes
one result of theirs, and `Pages` is the pager's condition, which has no status
function and hence an implied success(): of all jobs it depends on, directly or
not, so of the legs too.

### CTLog, CTLogAlert

`CTLogAlert` is the workflow: a leg ends with a probe that went well or failed
(`Probed`), without one (`NotExtracted`) or cancelled, and `Pager` evaluates the
condition of the page over the matrix's outputs. `Shards` is the prober's table
of logs and `Matrix` the workflow's; a theorem says that they are the same. In
`CTLog` one leg, any of them, goes by the prober's own steps: the image, the
head and its verification, the write service for the logs that have one, each
request with up to five retries and growing pauses, all on a `clock` that GitHub
stops at `TimeoutSeconds`. A leg that could take no step in time is cancelled,
which is not a failure. `ImplementsAlert` is the refinement.

### TilesFsck

`main()` ranges over the trusted root's logs in any order and starts a goroutine
for each that is not of v1; a goroutine makes a verifier, then checks the tree.
`KeepsError` and `Cancels` are the errgroup's rule: the first error is kept and
cancels the context, which makes the checks under way fail as well. A silent log
answers nothing, and no request has a timeout.

### Pager

One run of the pager for each member of `Alerts`; those in `Keyed` carry the
same `dedup_key`. A request is accepted, declined with a status that is retried
(`busy`) or is not (`refused`, which stands also for an error of the connection that the client
does not repeat), or its connection breaks: before PagerDuty saw
the event, after it (the answer is lost), or with the request still under way
(`late`), to be accepted at any later time, even after the run has ended.
PagerDuty, the network and the retry policy are external; the limit, the key,
the order of validation and the exit status are the code's.

### GitHubActions, ProberAlert

`GitHubActions` states what is assumed of GitHub, as the workflows use it:
`failure()` is true of failed jobs only, not of those cancelled by a timeout; a
condition without a status function also asks for `success()` of all jobs it
depends on, directly or not (`Success`); the outputs of a matrix job are one
record, to which each leg that ends writes what it set (`Merge`); and
`needs.<job>.*.<field>` over the object of one job finds the field only in its
outputs (`Star`).

`ProberAlert` has the services, the TUF repository and GitHub's OIDC server go
down and come back at any step (`Change`), while the jobs run: the prober with its
three attempts, the root probe, two legs of the end to end test, and the two jobs
that sum them up (`Summarise`), of which only the runner can fail. Runners fail and
jobs hang. `Alert` evaluates the conditions of the page, of the issue and of the
second run; `ProbeAgain` is that run, with alerts, and `Schedule` the next
execution.

## Runs

| Run | Bounds | States | Shows |
|---|---|---|---|
| `prober` | up to 2 services of a kind, 1 shard to read, once or 2 rounds | 549,000 | exit status, log and counters are sound, no round raises an error by itself, each ends, and the one-time prober exits |
| `rekor_write` | 2 logs, 9 bodies, 1 retry | 474,000 | a healthy log is found at fault only after the disturbances it should take; no entry is left behind without one; the call is one of `Prober`'s |
| `shards` | up to 3 inactive shards, up to 7 entries | 5,300 | the prober's arithmetic implements `ShardReads` |
| `script` | the same, RANDOM up to 7 | 28,500 | which shards the shell arithmetic reads, and on which sizes it fails |
| `ratelimit` | 5 requests, 3 connections, both protocols | 87,000 | right verdict, after all workers, unless HTTP/1.1 connections run out |
| `ratelimit_main` | 4 URLs, any of them malformed | 45,800 | no error is lost, none blocks, exit status and output agree |
| `ctlog` | 3 legs, one log of them with a write service; image after 0 or 45 s, connections that take 0 or 30 s | 187,000 | exit status and panic are founded, a log that answers or refuses at once is never cut short, a sick log is paged |
| `fsck` | 3 logs of every kind | 8,400 | exit status and reported error; sound logs end in 0, and a fault ends the process even if others are silent |
| `pager` | 2 alerts with one key, 1 without, 1 retry | 299,000 | pages are made, once for a key; duplicates only after a lost answer; runs end |
| `alert_prober` | 3 attempts, 2 outages or recoveries, 2 faults of runners in an execution | 1,750,000 | what is over before the second run is quiet; what lasts is paged and filed, by one execution after the other |
| `alert_oidc` | 1 attempt, no change, 1 fault | | finding: an outage of the OIDC server alone is paged |
| `alert_ratelimit` | 2 legs | | finding: the rate limiter's failure is not paged |

The first ten pass. `alert_oidc` and `alert_ratelimit` each violate one property,
which states what the repository says. A type invariant that is proved for every
instance is not repeated in a run.

Why the bounds suffice. Two services of a kind give every order of a failing and
a verifying one; a third repeats the second. Two rounds are needed for state
that outlives a round, and the certificate, the only such state besides the
counters, is overwritten in each. In `rekor_write` the nine bodies are the
code's; one retry suffices for an entry to be stored and its answer lost before
the retry finds it, and two logs for a call that goes on to the next. Three
inactive shards with sizes from 0 give empty shards in all positions, and an
active one that is larger or smaller than the others together; random numbers up
to 7 give every remainder of every divisor that occurs. Five requests
for three workers give a worker several jobs and leave the queue both empty and
full; 3 connections over HTTP/1.1 stand for the 10 of the code: the hang needs
one response for each, and the default limit is 1000. Four URLs are the code's.
In `ctlog` the retry count, the pauses and the job's two minutes are those of
the code; three legs give a leg one that ends
before and one that ends after it, of both kinds. Three logs give `fsck` a first
fault, a cancelled check and a sound one. Two keyed alerts exercise a key shared
by concurrent runs, and one retry suffices for an event to be accepted twice by
one run. In `alert_prober` two changes are an outage and its end, or two
outages, and two faults can make both runs of a workflow fail for different
reasons.

Fairness. `Prober`: the runtime schedules `runProbers`, and every request ends,
with an answer or with an error when its retries are spent. The code sets no
timeouts; a service that keeps a connection open for ever is outside the model.
`RekorWrite`: the same, `WF` of the client and of the network; that a late
request arrives is not assumed. `RateLimit`: goroutines are scheduled, and a
request that has a connection ends. A request waiting for a connection is not
assumed to get one. `Pager`: the process runs and its requests end; late requests
need never arrive. `TilesFsck`: main and each goroutine are scheduled and what
answers, answers; a silent log's request is only ever ended by the cancellation.
`ProberAlert`: GitHub starts every job and ends it, at the latest by its timeout,
and the schedule does not stop; that outages end is not assumed.
`MetricsServerFails`, `AcceptLate`, `ArrivesLate` and `Change` have no fairness.
The other specifications have safety properties only.

`CHECK_DEADLOCK FALSE` appears only in `ratelimit`: over HTTP/1.1 all workers may
really wait for a connection for ever. Everywhere else an ended program stutters
by an action `Done`.

## Where the code does not do what the repository says

Two disagreements have a run of their own.

* `reusable-prober.yml:139` says that an outage of the OIDC server is not paged.
  The step has `continue-on-error`, so that the condition `failure()` of the step
  after it is false, `skip_pagerduty` is not set, and the test fails later, when it
  signs (`alert_oidc`). Line 288 would not read the output either.
* The repository's README says that the oncall is notified if a prober fails
  (line 5). The pager of `rate-limiting.yml:64` has a condition without a status
  function: GitHub adds success(), which a failed leg, further up the chain of
  needs, makes false. The rate limiter fails for both environments and no page is
  made (`alert_ratelimit`).

The others are part of the models, and the properties say exactly what holds in
their place:

* `write.go:249` logs an error and returns nil, so that a wrong answer of Fulcio
  may leave exit status 0: the exception in `LoggedErrorFails`.
* `prober.go:308` drops an error, and a prober without any Rekor service
  succeeds: `ExitZeroSound` speaks of endpoints with a service.
* `write.go:327` verifies the entry of the answer without comparing it with the
  one it posted: `ServiceVerifies` accepts `another`.
* `prober.go:622` subtracts the inactive shards from loginfo's `treeSize`, as if
  that were the size of the whole log. It is the active shard's own, so that the
  shard is not read until it is larger than all the others together; and nothing is
  read of a log whose active shard is empty (`prober.go:605`). The comment at 569
  wants "coverage across all backing logs": the promise of `ShardReads` is what is
  `Covered`.
* `reusable-prober.yml:246` and `256` compute the upper bound of a shard without its
  offset, so that later shards may be missed, an index may be past the log's end
  and a shard may divide by zero: `Reached` and `FailsOnlyOnSize`.
* `rate-limiting.go:166` neither reads nor closes the body of most answers. Over
  HTTP/1.1 the connections run out and `rateLimit()` hangs: the second disjunct of
  `Returns`.
* `rate-limiting.yml:57` and `reusable-prober.yml:286` treat a matrix job as a
  list of legs. It is one object: the last leg to end decides the output `result`
  (`Merge`). No page that is made depends on it, but an issue for one leg's failure
  may be missing.
* `ctlog-sth.go:200` ignores the status of the write service's answer:
  `ExitZeroMeansServed` lets any answer do.
* `ctlog-sth.yml:22` takes the page's environment and shard from the leg that
  ended last, which may be one that went well: `PageSound` speaks of a page,
  not of its text. A leg that is cancelled for a log that does not answer
  (`ctlog-sth.yml:71`) is not paged at all, which `PromptLogJudged` bounds.

## Proofs

Each proof module extends its component and assumes only the named assumption on
its constants (flags are Booleans, bounds are numbers). In each one an inductive
invariant holds initially and is kept by every step, with one proof step for each
action and under it one for each part the action can disturb.

* `ProberProofs`: `TypeCorrect`, `StatusIsSound` (with `ExitZeroIsSound` and
  `LoggedErrorsFail`) and `NoAlarmWithoutFault`. What exit status 0 says of a
  write endpoint is settled when its loop is left, several stages before the
  end. `IInv` therefore says, for the stages later than a loop (`Later`), that
  either `hasErr` is set or the loop verified an answer (`LoopsSettled`). That a
  loop left without verification sets `hasErr` needs `LoopBlamed`: a loop that
  has visited a service has a `lastErr`, but for the TSAs', whose return is an
  error in any case. That `hasErr` is no false alarm needs `ErrorsTraced` and
  `EvidenceFits`: a service that refuses an entry carrying this round's
  certificate is itself at fault, so that a failed Fulcio write, which leaves
  none, blames no log. `LoopBounds` and `RoundBounds` keep the loops within
  their lists and exclude an empty list of TSAs.
  The second part is about the counters, for any number of rounds:
  `MaskedFailureIsCounted`, `TrueIsVerified` and `VisitsAreCounted`. Increments
  are deferred; `LoopBounds` says that as many are pending as services were visited
  since the loop began, so that a step which leaves the loop, and no other, adds
  their number. `CInv` adds to `IInv` that a failed Rekor service is counted or
  about to be, and that only loops that were left have verified.
* `RateLimitProofs`, for any limit and both protocols: `TypeCorrect` (the
  WaitGroup never goes negative), `ReturnIsSound`, `WorkersAreQuiet`. The
  invariant balances the WaitGroup's counter against queued jobs and deferred
  Dones (`WgBalance`), and jobs sent against jobs that are queued, held or over
  (`JobBalance`); so a counter of zero after the queue was closed means that
  every worker has returned. For `main`: `SendsDoNotBlock`, `ExitCodeIsSound`,
  `MainTypeCorrect`. There the counter is the number of goroutines that go on, and
  the errors in the channel and in the output are those of the goroutines that are
  over (`Goroutines`): a goroutine with an error to send finds the others' at most,
  one less than the channel holds.
* `ShardProofs`, for logs of any number of shards and entries:
  `CoverageImplementsReads`, the refinement of `ShardReads`, and
  `ScriptReadsReached` and `ScriptFailsOnSize` for the shell's arithmetic, whether
  or not the active shard is larger than the others. Their loop invariants
  (`LoopInv`, `ScriptInv`) say that the offset is the index at which the shard to
  be visited begins, and that the shards visited so far have been read as promised.
* `RekorWriteProofs`, for any number of logs, bodies and retries: `TypeCorrect`,
  `HealthyLogIsVerified`, `OrphansNeedLoss`, and `CallImplementsProber`, the
  refinement step by step (for at most nine bodies, `Prober`'s limit). A healthy
  log conflicts only with an entry it has, for which a request of this body must
  have failed (`Explained`); so each body that was given up cost a disturbance
  and left at most one entry (`Accounted`).
* `PagerProofs`, for any runs, keys and retries: `TypeCorrect`,
  `ExitZeroIsPaged`, `GivesUpOnlyLast`, `DuplicatesNeedLoss`, `KeysAreKept`,
  `SettledStays`. Each incident, and each late request that may open one, is
  owed to the accepted answer or to a broken connection (`Owed`).
* `TilesFsckProofs`, for any set of logs: `TypeCorrect`, `ExitZeroIsSound`,
  `ReportIsSound`, `NothingLeftBehind`. What is cancelled has an error already
  (`FirstError`), a goroutine done without one found its log consistent
  (`Judged`), and the loop passed over no log (`Covered`).
* `CTLogProofs`, for any legs and times: `VerdictIsSound`, `PageIsSound`,
  `ImplementsWorkflow` (the refinement) and `EveryLogProbed`. A leg's invariant
  (`LegInv`) says that retries are failed attempts and that what is found
  wanting makes the probe panic at once; the workflow's (`FlowInv`) that a probe
  which failed has failed its leg and left a status that no other leg takes
  back. `PromptIsJudged` adds up the pauses (`PausesOK`): as long as no connection
  took its time, the clock shows the image and the pauses so far. Its hypothesis
  `TimeEnough` asks that the image leave the time for all pauses of both requests,
  62 of the 120 seconds; without it the property is false. `TypeCorrect` also
  bounds the clock and the retries.
* `ProberAlertProofs`, for any number of attempts, outages, recoveries and faulty
  jobs: `TransientIsQuiet`, `LastingIsPaged`, `AlertTypeCorrect`. The invariant
  relates the results of the present run to what was down in it: a job or an output
  that failed had a reason which is recorded, a job that needs what is down
  throughout has not succeeded (`JobsOK`, `OutputsOK`), and a second run or an
  alarm has its place in the execution (`RunsOK`). `LastingOutagePaged` is a part
  of it: an alarm is decided from results that the next execution discards.

Every safety invariant, action property and refinement that a passing run checks is
proved.
Two conventions of the modules serve the proofs: `GitHubActions` names the empty
string `Unset`, and `CTLog` has the pauses of the HTTP client in a table, because
the provers handle neither that literal nor powers.

Only model-checked: liveness (`RoundEnds`, `Returns`, `PagerExits`,
`SoundLogsExitZero`, `FaultEnds`, `OutagePagedAgain`), which TLAPS does not handle
under fairness. Assumed, by proofs and runs alike, are the rules of GitHub, the
network and the HTTP clients, as the modules state them.

## Plan

In order of importance; all are done.

1. `Prober`, its properties and `ProberProofs`: the verdict of a round.
2. `RateLimit` and `RateLimitProofs`: the one program with shared memory.
3. `ShardReads`, `ShardCoverage`, `ShardScript`: the index arithmetic.
4. `Pager`: retries against a network that loses and delays.
5. `RekorWrite`: one Rekor v1 write with the log's own state, shown to be one of
   `Prober`'s.
6. `ProberAlert`, `RateLimitAlert`, `CTLogAlert`: from results of jobs to a page;
   the last one composed with the program of a leg (`CTLog`), which implements it.
7. `TilesFsck`: errgroup cancellation. `RateLimitMain`: goroutines and a channel.
8. Proofs: the counters of `Prober`, the safety properties of every module, and
   the refinements of `ShardCoverage`, `RekorWrite` and `CTLog`.

## Not modelled

* The observation of latencies (`exportDataToPrometheus`), a straight-line call
  beside each request on which no state of the program depends. Whether a return
  comes before it can be read off each function: Fulcio's failed writes
  (`write.go:206`, `138`) and requests whose retries are spent (`prober.go:524`)
  are not observed. Prometheus' formatting, quantiles and buckets, and the version
  gauge, a constant.
* The contents of requests, certificates and entries; signatures verify or not.
* The lengths that PagerDuty allows for a key, a string that `main.go` hands on.
* Timeouts of requests, which the code does not set.
* The additional requests of `--rekor-requests` and `--fulcio-requests`, which
  are more read checks.
* The texts of messages, summaries and pages, and `reusable-pager.yml`, which hands
  its inputs to the pager.
* In `rate-limiting.yml`, a failure of `process-results`, which only says a word;
  and that a job without `timeout-minutes` hangs.
* Build and release: scripts without state of their own.
