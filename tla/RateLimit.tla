------------------------------ MODULE RateLimit ------------------------------
(***************************************************************************)
(* rateLimit() of prober/rate-limiting.go: one producer queues requests    *)
(* until a worker has seen the service refuse one, then closes the queue   *)
(* and waits for the workers; the verdict is an error when no request was  *)
(* refused for its rate.                                                   *)
(*                                                                         *)
(* A worker defers wg.Done() inside its loop, so the Dones of all its jobs *)
(* run when it returns, not when each job is over.  The URL is one that    *)
(* NewRequest accepts: RateLimitMain has the panic that follows if not.    *)
(***************************************************************************)
EXTENDS Integers, FiniteSets

CONSTANTS Limit,        \* flag --limit, the most requests to make
          MaxConns      \* MaxConnsPerHost of the transport (10 in the code)

ASSUME RateLimitAssumption == Limit \in Nat /\ MaxConns \in Nat \ {0}

VARIABLES
  producer,    \* where rateLimit() itself is
  i,           \* its loop variable: jobs sent so far
  jobs,        \* jobs in the channel
  wg,          \* the WaitGroup's counter
  worker,      \* where each worker is
  deferred,    \* each worker's deferred wg.Done() calls
  rateLimited, \* the atomic flag
  errCount,    \* the atomic counter
  multiplexed, \* whether the service speaks HTTP/2
  leaked,      \* connections held by a response body nobody closes
  result,      \* what rateLimit() returned
  refused,     \* history: a refusal for rate was read
  answered     \* history: jobs that are over

queueVars    == <<i, jobs, wg>>
workerVars   == <<worker, deferred, multiplexed, leaked>>
verdictVars  == <<rateLimited, errCount, refused>>
vars         == <<producer, queueVars, workerVars, verdictVars, result, answered>>

Workers == 1..3                             \* for w := 1; w <= 3; w++
Busy(w) == worker[w] \in {"dial", "request", "body"}

InUse == Cardinality({w \in Workers : worker[w] \in {"request", "body"}}) + leaked

Init ==
  /\ producer = "loop" /\ i = 0 /\ jobs = 0 /\ wg = 0
  /\ worker = [w \in Workers |-> "idle"] /\ deferred = [w \in Workers |-> 0]
  /\ rateLimited = FALSE /\ errCount = 0
  /\ multiplexed \in BOOLEAN /\ leaked = 0
  /\ result = "none" /\ refused = FALSE /\ answered = 0

-----------------------------------------------------------------------------
(* The producer *)

LoopEnds == i = Limit \/ rateLimited

\* wg.Add(1) comes before the job is sent.
Loop ==
  /\ producer = "loop"
  /\ ~LoopEnds
  /\ wg' = wg + 1
  /\ producer' = "send"
  /\ UNCHANGED <<i, jobs, workerVars, verdictVars, result, answered>>

CloseJobs ==
  /\ producer = "loop"
  /\ LoopEnds
  /\ producer' = "wait"
  /\ UNCHANGED <<queueVars, workerVars, verdictVars, result, answered>>

JobsNotClosed == FALSE    \* mutant
JobsClosed == producer \in {"wait", "report", "done"}

\* The channel holds Limit jobs, so that sending never blocks.
Send ==
  /\ producer = "send"
  /\ jobs < Limit
  /\ jobs' = jobs + 1 /\ i' = i + 1
  /\ producer' = "loop"
  /\ UNCHANGED <<wg, workerVars, verdictVars, result, answered>>

NoWait ==   \* mutant
  /\ producer = "wait"
  /\ producer' = "report"
  /\ UNCHANGED <<queueVars, workerVars, verdictVars, result, answered>>

\* wg.Wait() returns.
WaitReturns ==
  /\ producer = "wait"
  /\ wg = 0
  /\ producer' = "report"
  /\ UNCHANGED <<queueVars, workerVars, verdictVars, result, answered>>

Report ==
  /\ producer = "report"
  /\ producer' = "done"
  /\ result' = IF rateLimited THEN "nil" ELSE "error"
  /\ UNCHANGED <<queueVars, workerVars, verdictVars, answered>>

-----------------------------------------------------------------------------
(* The workers.  The connection, and the answer to a request, are external: *)
(* net/http's transport and the service under test.                        *)

DoneAtOnce(w) == wg' = wg - 1 /\ UNCHANGED deferred     \* mutant: no defer
DeferDone(w)  == deferred' = [deferred EXCEPT ![w] = @ + 1] /\ UNCHANGED wg

\* for range jobs, and the deferred wg.Done() of the job.
Take(w) ==
  /\ worker[w] = "idle"
  /\ jobs > 0
  /\ jobs' = jobs - 1
  /\ worker' = [worker EXCEPT ![w] = "dial"]
  /\ DeferDone(w)
  /\ UNCHANGED <<producer, i, multiplexed, leaked, verdictVars, result, answered>>

\* Over HTTP/1.1 the transport waits for one of MaxConns connections.
Connect(w) ==
  /\ worker[w] = "dial"
  /\ multiplexed \/ InUse < MaxConns
  /\ worker' = [worker EXCEPT ![w] = "request"]
  /\ UNCHANGED <<producer, queueVars, deferred, multiplexed, leaked, verdictVars, result, answered>>

JobOver(w) == worker' = [worker EXCEPT ![w] = "idle"] /\ answered' = answered + 1

RequestFails(w) ==
  /\ worker[w] = "request"
  /\ JobOver(w)
  /\ errCount' = errCount + 1
  /\ UNCHANGED <<producer, queueVars, deferred, multiplexed, leaked, rateLimited, refused, result>>

\* Any status but 429: the body is not read, and not closed.  Unless it is empty it
\* keeps an HTTP/1.1 connection; an HTTP/2 stream ends when the service ends it.
OtherAnswer(w) ==
  /\ worker[w] = "request"
  /\ JobOver(w)
  /\ leaked' \in (IF multiplexed THEN {leaked} ELSE {leaked, leaked + 1})
  /\ UNCHANGED <<producer, queueVars, deferred, multiplexed, verdictVars, result>>

Answer429(w) ==
  /\ worker[w] = "request"
  /\ worker' = [worker EXCEPT ![w] = "body"]
  /\ UNCHANGED <<producer, queueVars, deferred, multiplexed, leaked, verdictVars, result, answered>>

\* The body says "Too Many Requests", says something else, or cannot be read.
Read429(w) ==
  /\ worker[w] = "body"
  /\ JobOver(w)
  /\ \/ rateLimited' = TRUE /\ refused' = TRUE /\ UNCHANGED errCount
     \/ UNCHANGED verdictVars
     \/ errCount' = errCount + 1 /\ UNCHANGED <<rateLimited, refused>>
  /\ UNCHANGED <<producer, queueVars, deferred, multiplexed, leaked, result>>

\* jobs is closed and empty: the worker returns and its deferred Dones run.
Return(w) ==
  /\ worker[w] = "idle"
  /\ jobs = 0 /\ JobsClosed
  /\ worker' = [worker EXCEPT ![w] = "returned"]
  /\ wg' = wg - deferred[w]
  /\ deferred' = [deferred EXCEPT ![w] = 0]
  /\ UNCHANGED <<producer, i, jobs, multiplexed, leaked, verdictVars, result, answered>>

-----------------------------------------------------------------------------

Producer == Loop \/ Send \/ CloseJobs \/ WaitReturns \/ Report

Worker(w) == Take(w) \/ Connect(w) \/ RequestFails(w) \/ OtherAnswer(w)
             \/ Answer429(w) \/ Read429(w) \/ Return(w)

\* rateLimit() returned and so did its workers.
Done == producer = "done" /\ (\A w \in Workers : worker[w] = "returned") /\ UNCHANGED vars

Next == Producer \/ (\E w \in Workers : Worker(w)) \/ Done

Spec == Init /\ [][Next]_vars

\* Goroutines are scheduled; a request that has its connection is answered or
\* fails (the client sets no timeout of its own).
FairSpec == Spec /\ WF_vars(Producer) /\ \A w \in Workers : WF_vars(Worker(w))

-----------------------------------------------------------------------------
(* Properties *)

\* The type invariant; the counter of the WaitGroup is never negative, for which
\* Done() would panic.
TypeOK ==
  /\ producer \in {"loop", "send", "wait", "report", "done"}
  /\ i \in 0..Limit /\ jobs \in 0..Limit /\ answered \in 0..Limit
  /\ wg \in 0..Limit
  /\ worker \in [Workers -> {"idle", "dial", "request", "body", "returned"}]
  /\ deferred \in [Workers -> 0..Limit]
  /\ rateLimited \in BOOLEAN /\ refused \in BOOLEAN
  /\ errCount \in Nat /\ multiplexed \in BOOLEAN /\ leaked \in Nat
  /\ result \in {"none", "nil", "error"}

\* Once wg.Wait() has returned no worker touches the flag or the counter, which
\* rateLimit() then reads, the counter without atomic.Load.
QuietAfterWait ==
  [][(producer \in {"report", "done"}) => UNCHANGED <<rateLimited, errCount>>]_vars

\* The verdict is nil exactly if some worker read a refusal for rate: a 429 with
\* another text, or cut off, does not count, and no refusal is overlooked.
VerdictSound == producer = "done" => (result = "nil" <=> refused)

\* No rate limit is reported missing before all Limit requests are over, and a
\* verdict never leaves a request behind.
ErrorOnlyAfterAll ==
  producer = "done" => /\ answered = i
                       /\ result = "error" => answered = Limit

\* What rateLimit() returns: the right verdict, and not before it is due.
ReturnSound == VerdictSound /\ ErrorOnlyAfterAll

\* rateLimit() returns, unless a service that speaks HTTP/1.1 holds all connections of
\* the transport with answers that nobody reads.
Returns == <>(producer = "done" \/ leaked = MaxConns)
=============================================================================
