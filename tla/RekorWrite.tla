------------------------------ MODULE RekorWrite ------------------------------
(***************************************************************************)
(* rekorV1WriteEndpoint (write.go) against Rekor v1 logs that keep what    *)
(* they are sent.  Prober makes one step of a request and all its retries; *)
(* this module opens the step: retryablehttp repeats a POST whose answer   *)
(* was lost, the log then holds the entry and answers 409, and the loop of *)
(* the endpoint posts a fresh body.                                        *)
(*                                                                         *)
(* Log, network and the client's retry policy are external.  A log is      *)
(* healthy or may answer anything.  The entry can always be built: its key *)
(* is the round's.                                                         *)
(***************************************************************************)
EXTENDS Naturals

CONSTANTS NumLogs,    \* the selected Rekor v1 services
          MaxBodies,  \* bodies posted to one of them: 9 in for i := 1; i < 10; i++
          RetryMax    \* flag --retry

ASSUME RekorWriteAssumption ==
  NumLogs \in Nat \ {0} /\ MaxBodies \in Nat \ {0} /\ RetryMax \in Nat

VARIABLES
  pc,         \* where the endpoint is
  log,        \* the service being visited
  body,       \* i: the body being posted to it
  attempt,    \* requests sent for this body
  reply,      \* what came back for the last one
  verdict,    \* what the endpoint returned: nil or lastErr
  healthy,    \* the logs that work
  stored,     \* the log holds the entry of this body
  late,       \* a request for it that the client gave up on may still arrive
  entries,    \* entries the log took from this call
  disturbed,  \* history: requests to each log that got no answer
  cut         \* history: logs of which the body of an answer broke off

clientVars == <<pc, log, body, attempt, verdict>>
vars       == <<clientVars, reply, healthy, stored, late, entries, disturbed, cut>>

Logs == 1..NumLogs

Init ==
  /\ pc = "ready" /\ log = 1 /\ body = 1 /\ attempt = 0
  /\ reply = "none" /\ verdict = "none"
  /\ healthy \in SUBSET Logs
  /\ stored = FALSE /\ late = FALSE /\ entries = 0
  /\ disturbed = [s \in Logs |-> 0] /\ cut = {}

-----------------------------------------------------------------------------
(* The client *)

Send ==
  /\ pc = "ready" /\ log \in Logs
  /\ pc' = "sent" /\ attempt' = attempt + 1 /\ reply' = "none"
  /\ UNCHANGED <<log, body, verdict, healthy, stored, late, entries, disturbed, cut>>

\* Broken connections, 429 and 5xx are retried with the same body.
MayRetry == attempt <= RetryMax

Retry ==
  /\ pc = "sent" /\ reply = "failed" /\ MayRetry
  /\ pc' = "ready"
  /\ UNCHANGED <<log, body, attempt, verdict, reply, healthy, stored, late,
                 entries, disturbed, cut>>

\* The answers for which the loop posts another body.
PostsAgainSwapped == {"created"}        \* mutant: == for != in the loop's test
PostsAgain        == {"conflict"}
MoreBodiesNever   == FALSE              \* mutant: no loop
MoreBodiesAlways  == TRUE               \* mutant: no limit
MoreBodies        == body < MaxBodies

FreshBodyUncounted ==                   \* mutant: i does not grow
  /\ pc = "sent" /\ reply \in PostsAgain /\ MoreBodies
  /\ pc' = "ready" /\ attempt' = 0 /\ reply' = "none"
  /\ stored' = FALSE /\ late' = FALSE
  /\ UNCHANGED <<log, body, verdict, healthy, entries, disturbed, cut>>

FreshBody ==
  /\ pc = "sent" /\ reply \in PostsAgain /\ MoreBodies
  /\ pc' = "ready" /\ body' = body + 1 /\ attempt' = 0 /\ reply' = "none"
  /\ stored' = FALSE /\ late' = FALSE
  /\ UNCHANGED <<log, verdict, healthy, entries, disturbed, cut>>

\* The client gave up, the bodies are used up, or the answer is not a 201 whose
\* entry verifies: lastErr is set, the loop continues with the next service.  What
\* may still arrive at a log that was left is no longer followed.
ServiceFails ==
  /\ pc = "sent"
  /\ \/ reply = "failed" /\ ~MayRetry
     \/ reply \in PostsAgain /\ ~MoreBodies
     \/ reply \in {"refused", "unverifiable"}
  /\ pc' = "ready" /\ log' = log + 1 /\ body' = 1 /\ attempt' = 0 /\ reply' = "none"
  /\ stored' = FALSE /\ late' = FALSE /\ entries' = 0
  /\ UNCHANGED <<verdict, healthy, disturbed, cut>>

Return(v) == pc' = "returned" /\ verdict' = v

\* The entry of the answer verifies.  It is not compared with the one posted, so
\* another entry of the log would do as well.
ServiceVerifies ==
  /\ pc = "sent" /\ reply \in {"created", "another"} \ PostsAgain
  /\ Return("nil")
  /\ UNCHANGED <<log, body, attempt, reply, healthy, stored, late, entries, disturbed, cut>>

LoopExhausted ==
  /\ pc = "ready" /\ log \notin Logs
  /\ Return("lastErr")
  /\ UNCHANGED <<log, body, attempt, reply, healthy, stored, late, entries, disturbed, cut>>

-----------------------------------------------------------------------------
(* The log and the network (external) *)

Waiting == pc = "sent" /\ reply = "none"

Store ==
  /\ stored' = TRUE
  /\ entries' = IF stored THEN entries ELSE entries + 1

\* A healthy log takes an entry once.
Answer ==
  /\ Waiting /\ log \in healthy
  /\ Store
  /\ reply' = IF stored THEN "conflict" ELSE "created"
  /\ UNCHANGED <<clientVars, healthy, late, disturbed, cut>>

Disturb == /\ reply' = "failed"
           /\ disturbed' = [disturbed EXCEPT ![log] = @ + 1]

AnswerLost ==
  /\ Waiting /\ log \in healthy
  /\ Store
  /\ Disturb
  /\ UNCHANGED <<clientVars, healthy, late, cut>>

\* The connection breaks while the body is read, which is no more the client's: it is
\* not retried.
AnswerCut ==
  /\ Waiting /\ log \in healthy /\ ~stored
  /\ Store
  /\ reply' = "unverifiable" /\ cut' = cut \cup {log}
  /\ UNCHANGED <<clientVars, healthy, late, disturbed>>

\* The log did not see the request, is overloaded, or will see it later.
Break ==
  /\ Waiting
  /\ Disturb
  /\ \E arrives \in BOOLEAN : late' = (late \/ arrives)
  /\ UNCHANGED <<clientVars, healthy, stored, entries, cut>>

ArrivesLate ==
  /\ late /\ late' = FALSE
  /\ Store
  /\ UNCHANGED <<clientVars, reply, healthy, disturbed, cut>>

\* A faulty log answers anything, whether or not it takes the entry.
FaultyAnswer ==
  /\ Waiting /\ log \notin healthy
  /\ \/ Store /\ reply' = "created"
     \/ /\ Store \/ UNCHANGED <<stored, entries>>
        /\ reply' \in {"conflict", "refused", "unverifiable", "another"}
  /\ UNCHANGED <<clientVars, healthy, late, disturbed, cut>>

-----------------------------------------------------------------------------

Client  == Send \/ Retry \/ FreshBody \/ ServiceFails \/ ServiceVerifies \/ LoopExhausted
Network == Answer \/ AnswerLost \/ AnswerCut \/ Break \/ FaultyAnswer
Done    == pc = "returned" /\ UNCHANGED vars

Next == Client \/ Network \/ ArrivesLate \/ Done

Spec == Init /\ [][Next]_vars

\* The goroutine runs, and every request ends.
FairSpec == Spec /\ WF_vars(Client) /\ WF_vars(Network)

-----------------------------------------------------------------------------
(* Properties *)

\* Types; no more than MaxBodies bodies, each with at most RetryMax retries.
TypeOK ==
  /\ pc \in {"ready", "sent", "returned"}
  /\ log \in 1..(NumLogs + 1)
  /\ pc = "sent" => log \in Logs
  /\ body \in 1..MaxBodies
  /\ attempt \in 0..(RetryMax + 1)
  /\ reply \in {"none", "failed", "created", "conflict", "refused", "unverifiable", "another"}
  /\ verdict \in {"none", "nil", "lastErr"}
  /\ healthy \subseteq Logs
  /\ {stored, late} \subseteq BOOLEAN
  /\ entries \in Nat /\ disturbed \in [Logs -> Nat] /\ cut \subseteq Logs

\* A healthy log is found at fault only after the client's retries were spent on
\* one body, an answer was lost for each body, or the body of an answer broke off:
\* retries and fresh bodies together absorb every shorter disturbance, the conflicts
\* included that retries cause, but for the one that comes while the answer is read.
HealthyLogVerified ==
  \A s \in healthy : s < log => \/ disturbed[s] >= RetryMax + 1
                                \/ disturbed[s] >= MaxBodies
                                \/ s \in cut

\* Each entry this call leaves behind in a healthy log besides the one it verifies
\* is due to a request whose answer was lost or broke off.
OrphansOnlyAfterLoss ==
  log \in healthy =>
    entries <= disturbed[log] + (IF reply = "created" \/ log \in cut THEN 1 ELSE 0)

\* The endpoint returns, whatever the logs answer.
Returns == <>(pc = "returned")

-----------------------------------------------------------------------------
(* Prober's view of the same call: one step for each settled answer. *)

returned == pc = "returned"

ProberView == INSTANCE Prober WITH
  runOnce <- TRUE, RunWriteProber <- TRUE, DisableGrpc <- TRUE,
  MaxServices <- NumLogs, MaxShards <- 1, MaxRounds <- 1,
  stage          <- IF returned THEN "tsaWriteEndpoint" ELSE "rekorV1WriteEndpoint",
  services       <- [rekorV1 |-> NumLogs, rekorV2 |-> 0, identity |-> 0,
                     fulcio |-> 1, tsa |-> 1],
  pqcTrustedRoot <- FALSE,
  round          <- 1,
  hasErr         <- verdict = "lastErr",
  logged         <- verdict = "lastErr",
  svc            <- IF returned THEN 1 ELSE NumLogs + 1 - log,
  left           <- 0,
  lastErr        <- ~returned /\ log > 1,
  cert           <- 1,
  conflicts      <- IF returned THEN 0 ELSE body - 1,
  deferred       <- IF returned THEN 0 ELSE log - 1,
  verification   <- [v \in {"true", "false"} |->
                       IF v = "true" THEN (IF verdict = "nil" THEN 1 ELSE 0)
                       ELSE IF returned THEN log - 1 ELSE 0],
  exit           <- "none",
  faults         <- IF log > 1 THEN {"log"} ELSE {},
  proven         <- IF verdict = "nil" THEN {"rekorV1WriteEndpoint"} ELSE {}

\* Every step of the call is, for Prober, a step of its write endpoint or none: its
\* outcomes for a request are those that retries, conflicts and lost answers leave.
ImplementsProber == [][ProberView!WriteStep]_(ProberView!vars)
=============================================================================
