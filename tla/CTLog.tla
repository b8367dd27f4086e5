--------------------------------- MODULE CTLog ---------------------------------
(***************************************************************************)
(* ctlog-sth: the probe of one CT log, run as a leg of ctlog-sth.yml.  It  *)
(* fetches and verifies the log's head, an STH or a checkpoint, asks the   *)
(* write service for its roots where the log has one, and panics when      *)
(* something is wrong.  retryablehttp repeats requests, with growing       *)
(* pauses; GitHub cancels a job that takes more than TimeoutSeconds.       *)
(* One leg goes by these steps, among others that CTLogAlert describes;    *)
(* together they implement CTLogAlert.                                     *)
(***************************************************************************)
EXTENDS Integers

CONSTANTS Legs,            \* the legs that run: pairs of an environment and a shard
          TimeoutSeconds,  \* timeout-minutes of the job: 120 s
          PullSeconds,     \* bound: times in which the image arrives
          SlowSeconds      \* what a connection takes that is not accepted: 30 s

VARIABLES
  test, result, outputs, failed, over, page,   \* the workflow's, see CTLogAlert
  leg,        \* the leg that goes by the steps below
  pc,         \* "pull", "head", "write", or how the leg ended
  retries,    \* of the request under way
  clock,      \* seconds since the job began
  answers,    \* history: the answer each service gave at last
  disturbed,  \* history: attempts of the request that failed
  slow        \* history: something took its time, or for ever

flowVars == <<test, result, outputs, failed, over, page>>
runVars  == <<retries, clock, answers, disturbed, slow>>
vars     == <<flowVars, leg, pc, runVars>>

Alert == INSTANCE CTLogAlert

ASSUME CTLogAssumption ==
  /\ Legs \subseteq Alert!Matrix
  /\ TimeoutSeconds \in Nat /\ PullSeconds \subseteq Nat /\ SlowSeconds \in Nat \ {0}

\* How a leg ended, for GitHub.
LegStatusNoExit(p) ==                            \* mutant: no exit 1 after a panic
  CASE p \in {"ok", "panic"} -> "success" [] p = "no image" -> "failure"
    [] p = "cancelled" -> p [] OTHER -> "running"
LegStatus(p) ==
  CASE p = "ok" -> "success" [] p \in {"panic", "no image"} -> "failure"
    [] p = "cancelled" -> p [] OTHER -> "running"

-----------------------------------------------------------------------------
(* retryablehttp (external), with the prober's --retry-count *)

RetryMoreTimes == 7              \* mutant: a retry count that the job has no time for
RetryMax       == 5

\* Seconds before a request is repeated for the time n + 1: doubled, but for 30 at most.
Backoff(n) == <<1, 2, 4, 8, 16, 30, 30>>[n + 1]

RetryOnce == retries <= RetryMax      \* mutant: one retry too many
MayRetry  == retries < RetryMax

\* An attempt to connect may be refused at once, or time out.
Latencies == {0, SlowSeconds}

-----------------------------------------------------------------------------

Init ==
  /\ Alert!Init
  /\ leg \in Legs
  /\ pc = "pull" /\ retries = 0 /\ clock = 0
  /\ answers = [s \in {"head", "write"} |-> "none"] /\ disturbed = 0 /\ slow = FALSE

\* d seconds pass, in the time the job has.
Takes(d) == clock + d <= TimeoutSeconds /\ clock' = clock + d

LegEnds(how) == pc' = how /\ result' = [result EXCEPT ![leg] = LegStatus(how)]

\* The prober exits or panics, and the step writes its outputs.
Exits(how) ==
  /\ LegEnds(how)
  /\ outputs' = Alert!Merge(outputs, Alert!LegOutputs(leg, how = "ok"))
  /\ failed' = IF how = "panic" THEN failed \cup {leg} ELSE failed
  /\ UNCHANGED <<test, over, page>>

Ask(service) == pc' = service /\ retries' = 0 /\ disturbed' = 0 /\ UNCHANGED flowVars

Pull ==
  /\ pc = "pull"
  /\ \E d \in PullSeconds : Takes(d)
  /\ Ask("head")
  /\ UNCHANGED <<leg, answers, slow>>

PullFails ==
  /\ pc = "pull"
  /\ LegEnds("no image")
  /\ UNCHANGED <<test, outputs, failed, over, page, leg, runVars>>

\* Connection refused or lost, 429 or 5xx; the last attempt's is an error.
Disturb ==
  /\ pc \in {"head", "write"}
  /\ \E latency \in Latencies :
       /\ Takes(latency + IF MayRetry THEN Backoff(retries) ELSE 0)
       /\ slow' = (slow \/ latency > 0)
  /\ disturbed' = disturbed + 1
  /\ IF MayRetry THEN retries' = retries + 1 /\ UNCHANGED <<pc, flowVars>>
     ELSE Exits("panic") /\ UNCHANGED retries
  /\ UNCHANGED <<leg, answers>>

Answered(a) == answers' = [answers EXCEPT ![pc] = a]

\* The head: "good" has a timestamp, or the origin, and a valid signature; "bad" is
\* any other body, one of a 4xx included; "cut" is an error that is not retried: the
\* body, read outside the client, breaks off, or there is no trust in the connection.
VerifiesAll(a) == a # "cut"      \* mutant: the verification's error is ignored
Verifies(a)    == a = "good"

Head ==
  /\ pc = "head"
  /\ \E a \in {"good", "bad", "cut"} :
       /\ Answered(a)
       /\ \/ ~Verifies(a) /\ Exits("panic") /\ UNCHANGED <<retries, disturbed>>
          \/ Verifies(a) /\ Alert!StaticCT(leg) /\ Ask("write")
          \/ /\ Verifies(a) /\ ~Alert!StaticCT(leg)
             /\ Exits("ok") /\ UNCHANGED <<retries, disturbed>>
  /\ UNCHANGED <<leg, clock, slow>>

\* The write service: whatever it answers will do, if it is read to its end.
Write ==
  /\ pc = "write"
  /\ \E a \in {"good", "bad", "cut"} :
       /\ Answered(a)
       /\ Exits(IF a = "cut" THEN "panic" ELSE "ok")
  /\ UNCHANGED <<leg, retries, clock, disturbed, slow>>

\* The job's time is up: in a pause or an attempt to connect that the job has no time
\* for, for an image or an answer that does not come, or comes with a long Retry-After.
TimesOut ==
  /\ \/ /\ pc \in {"head", "write"}
        /\ \E latency \in Latencies :
             /\ clock + latency + (IF MayRetry THEN Backoff(retries) ELSE 0) > TimeoutSeconds
             /\ slow' = (slow \/ latency > 0)
     \/ pc \in {"pull", "head", "write"} /\ slow' = TRUE
  /\ LegEnds("cancelled") /\ clock' = TimeoutSeconds
  /\ \/ UNCHANGED outputs
     \/ pc # "pull" /\ outputs' = Alert!Merge(outputs, Alert!LegOutputs(leg, TRUE))
  /\ UNCHANGED <<test, failed, over, page, leg, retries, answers, disturbed>>

-----------------------------------------------------------------------------
(* The rest of the workflow *)

Elsewhere ==
  /\ (\E l \in Legs \ {leg} : Alert!EndLeg(l)) \/ Alert!Pager
  /\ UNCHANGED <<leg, pc, runVars>>

Done == over /\ UNCHANGED vars

Next == Pull \/ PullFails \/ Disturb \/ Head \/ Write \/ TimesOut \/ Elsewhere \/ Done

Spec == Init /\ [][Next]_vars

-----------------------------------------------------------------------------
(* Properties *)

\* Types; a request is repeated at most RetryMax times, in the time of the job, and
\* the leg's result is that of its run.
TypeOK ==
  /\ Alert!TypeOK
  /\ leg \in Legs
  /\ pc \in {"pull", "head", "write", "ok", "panic", "no image", "cancelled"}
  /\ result[leg] = LegStatus(pc)
  /\ retries \in 0..RetryMax /\ disturbed \in 0..(RetryMax + 1)
  /\ clock \in 0..TimeoutSeconds
  /\ answers \in [{"head", "write"} -> {"none", "good", "bad", "cut"}]
  /\ slow \in BOOLEAN

\* The head does not verify, an answer broke off, or a request and all retries failed.
Sick == \/ answers["head"] \in {"bad", "cut"} \/ answers["write"] = "cut"
        \/ disturbed = RetryMax + 1

\* A probe that panics has reason to: every shorter hiccup is passed over.
NoPanicForHiccup == pc = "panic" => Sick

\* A probe that exits with 0 has verified the log's head, and where the log has one
\* has had an answer from its write service, though any answer will do.
ExitZeroMeansServed ==
  pc = "ok" => /\ answers["head"] = "good"
               /\ Alert!StaticCT(leg) => answers["write"] \in {"good", "bad"}

\* Success and panic are both founded, whatever the network does to the requests.
VerdictSound == NoPanicForHiccup /\ ExitZeroMeansServed

\* The pauses between the retries of both requests fit into the job's time: a log
\* whose services answer or refuse at once is judged by the probe, not cut short.
PromptLogJudged == pc = "cancelled" => slow

\* A log that was given its chance and found wanting is paged, whatever the runs of
\* the other legs put out, before or after.
SickLogPaged == over /\ Sick => page # {}

\* A probe that failed is paged, whichever leg ends last and whatever befalls the
\* others: a leg that goes well does not take back what another has put out.
FailedProbePaged == Alert!FailedProbePaged

\* Only a failed probe, or the test, is paged: no runner that could not pull the
\* image, and no leg that is cancelled, however long its log did not answer.
PagedOnlyForProbe == Alert!PagedOnlyForProbe

\* The page is for a log found wanting, in whatever order the legs end.
PageSound == SickLogPaged /\ FailedProbePaged /\ PagedOnlyForProbe

\* The legs, one of them with all its requests, are the workflow of CTLogAlert.
ImplementsAlert == Alert!Spec
=============================================================================
