-------------------------------- MODULE Pager --------------------------------
(***************************************************************************)
(* The pager (pager-duty/main.go), run once for each alert, and PagerDuty's *)
(* Events API.  execute() validates its input, posts one event through a   *)
(* retrying HTTP client and reports by its exit status whether PagerDuty   *)
(* accepted it.  Connections break before or after PagerDuty has seen the  *)
(* event, which it may also accept after the client gave up on the answer. *)
(*                                                                         *)
(* PagerDuty, the network and the retry policy of go-retryablehttp are     *)
(* external.                                                               *)
(***************************************************************************)
EXTENDS Naturals

CONSTANTS Alerts,      \* runs of the pager
          Keyed,       \* the alerts whose input has a dedup_key, one for all
          RetryCount   \* flag --retry-count

ASSUME PagerAssumption == Keyed \subseteq Alerts /\ RetryCount \in Nat

VARIABLES
  pager,      \* where the run of each alert is
  attempts,   \* requests it has sent
  answer,     \* PagerDuty's answer to the last one
  late,       \* requests given up on, which PagerDuty may still accept
  incidents,  \* incidents PagerDuty opened on the events of each run
  seen,       \* history: alerts of which PagerDuty accepted an event
  lost        \* history: connections that broke under each run

vars == <<pager, attempts, answer, late, incidents, seen, lost>>

Init ==
  /\ pager = [a \in Alerts |-> "start"]
  /\ attempts = [a \in Alerts |-> 0] /\ answer = [a \in Alerts |-> "none"]
  /\ late = [a \in Alerts |-> 0] /\ incidents = [a \in Alerts |-> 0]
  /\ seen = {} /\ lost = [a \in Alerts |-> 0]

Move(a, to) == pager' = [pager EXCEPT ![a] = to]

-----------------------------------------------------------------------------
(* execute() *)

\* No integration key, input that does not parse, or a field that is missing,
\* too long or not one of the values allowed.
RejectInput(a) ==
  /\ pager[a] = "start"
  /\ Move(a, "exit 1")
  /\ UNCHANGED <<attempts, answer, late, incidents, seen, lost>>

AcceptInput(a) ==
  /\ pager[a] = "start"
  /\ Move(a, "ready")
  /\ UNCHANGED <<attempts, answer, late, incidents, seen, lost>>

Send(a) ==
  /\ pager[a] = "ready"
  /\ Move(a, "sent")
  /\ attempts' = [attempts EXCEPT ![a] = @ + 1]
  /\ answer' = [answer EXCEPT ![a] = "none"]
  /\ UNCHANGED <<late, incidents, seen, lost>>

\* Broken connections, 429 and 5xx are retried, up to RetryCount times.
RetryableAccepted == {"broken", "busy", "accepted"}    \* mutant
Retryable         == {"broken", "busy"}
MayRetryShort(a)  == attempts[a] < RetryCount          \* mutant
MayRetry(a)       == attempts[a] <= RetryCount

\* Mutant: a wait that Retry-After asks for is not counted as a retry.
RetryUncounted(a) ==
  /\ pager[a] = "sent" /\ answer[a] \in Retryable
  /\ MayRetry(a)
  /\ Move(a, "ready")
  /\ attempts' = [attempts EXCEPT ![a] = IF answer[a] = "busy" THEN @ - 1 ELSE @]
  /\ UNCHANGED <<answer, late, incidents, seen, lost>>

Retry(a) ==
  /\ pager[a] = "sent" /\ answer[a] \in Retryable
  /\ MayRetry(a)
  /\ Move(a, "ready")
  /\ UNCHANGED <<attempts, answer, late, incidents, seen, lost>>

\* ManageEventWithContext returns nil only for a 202, and an error for a 202
\* whose body it cannot decode.
MayExitZeroAnswered(a) == answer[a] \in {"accepted", "refused"}   \* mutant
MayExitZero(a)         == answer[a] = "accepted"

Finish(a) ==
  /\ pager[a] = "sent"
  /\ \/ MayExitZero(a) /\ Move(a, "exit 0")
     \/ answer[a] \in {"accepted", "refused"} /\ Move(a, "exit 1")
     \/ answer[a] \in Retryable /\ ~MayRetry(a) /\ Move(a, "exit 1")
  /\ UNCHANGED <<attempts, answer, late, incidents, seen, lost>>

-----------------------------------------------------------------------------
(* PagerDuty and the network (external) *)

\* main.go sets the event's key if the input has one.
NoKeySent(a) == FALSE        \* mutant
KeySent(a)   == a \in Keyed

\* PagerDuty adds an event to the open incident with its key, if there is one.
Deduplicated(a) == KeySent(a) /\ \E b \in Keyed : incidents[b] > 0

AcceptEvent(a) ==
  /\ incidents' = [incidents EXCEPT ![a] = IF Deduplicated(a) THEN @ ELSE @ + 1]
  /\ seen' = seen \cup {a}

Waiting(a) == pager[a] = "sent" /\ answer[a] = "none"

Accept(a) ==
  /\ Waiting(a)
  /\ AcceptEvent(a)
  /\ \/ answer' = [answer EXCEPT ![a] = "accepted"] /\ UNCHANGED lost
     \/ answer' = [answer EXCEPT ![a] = "broken"] /\ lost' = [lost EXCEPT ![a] = @ + 1]
  /\ UNCHANGED <<pager, attempts, late>>

\* 429 or 5xx; or "refused": a status that tells the pager not to try again, or an
\* error of the connection, before it carries a request, that the client does not repeat
\* (a certificate nobody vouches for, a scheme it does not know).
Decline(a) ==
  /\ Waiting(a)
  /\ \E status \in {"busy", "refused"} : answer' = [answer EXCEPT ![a] = status]
  /\ UNCHANGED <<pager, attempts, late, incidents, seen, lost>>

\* The connection breaks while the request is under way; it may still arrive.
Break(a) ==
  /\ Waiting(a)
  /\ answer' = [answer EXCEPT ![a] = "broken"]
  /\ lost' = [lost EXCEPT ![a] = @ + 1]
  /\ \E arrives \in {0, 1} : late' = [late EXCEPT ![a] = @ + arrives]
  /\ UNCHANGED <<pager, attempts, incidents, seen>>

AcceptLate(a) ==
  /\ late[a] > 0
  /\ late' = [late EXCEPT ![a] = @ - 1]
  /\ AcceptEvent(a)
  /\ UNCHANGED <<pager, attempts, answer, lost>>

-----------------------------------------------------------------------------

Exited(a) == pager[a] \in {"exit 0", "exit 1"}

Execute(a) == RejectInput(a) \/ AcceptInput(a) \/ Send(a) \/ Retry(a) \/ Finish(a)

Respond(a) == Accept(a) \/ Decline(a) \/ Break(a)

Done == (\A a \in Alerts : Exited(a)) /\ UNCHANGED vars

Next == (\E a \in Alerts : Execute(a) \/ Respond(a) \/ AcceptLate(a)) \/ Done

Spec == Init /\ [][Next]_vars

\* The process runs, and every request ends with an answer or a broken connection.
FairSpec == Spec /\ \A a \in Alerts : WF_vars(Execute(a)) /\ WF_vars(Respond(a))

-----------------------------------------------------------------------------
(* Properties *)

\* Types; no run sends more than one request and RetryCount retries.
TypeOK ==
  /\ pager \in [Alerts -> {"start", "ready", "sent", "exit 0", "exit 1"}]
  /\ attempts \in [Alerts -> 0..(RetryCount + 1)]
  /\ answer \in [Alerts -> {"none", "accepted", "busy", "refused", "broken"}]
  /\ late \in [Alerts -> Nat] /\ incidents \in [Alerts -> Nat] /\ lost \in [Alerts -> Nat]
  /\ seen \subseteq Alerts

\* Exit status 0 means that PagerDuty accepted the event: the page was made.
ExitZeroMeansPaged == \A a \in Alerts : pager[a] = "exit 0" => a \in seen

\* The pager gives up an alert that PagerDuty has not seen only on bad input, on a
\* refusal or an error that the client does not repeat, or when all retries are spent.
GivesUpLast ==
  \A a \in Alerts :
    pager[a] = "exit 1" /\ attempts[a] > 0 /\ a \notin seen =>
      answer[a] = "refused" \/ attempts[a] = RetryCount + 1

\* Retries open a second incident for an alert without key only if a connection
\* broke: an answer that arrived is never followed by another accepted request.
DuplicatesOnlyAfterLoss ==
  \A a \in Alerts : incidents[a] <= 1 + lost[a]

\* However many runs, retries and late requests, a key has one incident.
OneIncidentPerKey ==
  \A a, b \in Keyed : /\ incidents[a] <= 1
                      /\ incidents[a] > 0 /\ incidents[b] > 0 => a = b

\* No request follows an answer that settles the alert.
SettledIsFinal ==
  [][\A a \in Alerts : answer[a] \in {"accepted", "refused"}
                         => attempts'[a] = attempts[a]]_vars

\* Every run of the pager ends.
PagerExits == \A a \in Alerts : <>Exited(a)
=============================================================================
