---------------------------- MODULE RateLimitAlert ----------------------------
(***************************************************************************)
(* rate-limiting.yml: a leg of a matrix job for each environment runs the  *)
(* binary of RateLimitMain; process-results makes one result of them, on   *)
(* which the page depends.  What process-results does cannot fail here.    *)
(***************************************************************************)
EXTENDS GitHubActions

Legs == {"production", "staging"}

VARIABLES
  test,       \* input triggerPagerDutyTest
  step,       \* of each leg: "extract", "run", or its result
  outputs,    \* of the matrix job
  phase,      \* "legs", "page", "over"
  paged,      \* a page was made
  failed      \* history: legs whose binary ended with an exit status that is not 0

vars == <<test, step, outputs, phase, paged, failed>>

Init ==
  /\ test \in BOOLEAN
  /\ step = [leg \in Legs |-> "extract"]
  /\ outputs = [result |-> Unset, summary |-> Unset]
  /\ phase = "legs" /\ paged = FALSE /\ failed = {}

\* summary is the output of the binary, and told apart by its leg only.
LegOutputs(status, summary) == [result |-> status, summary |-> summary]

Extract(leg) ==
  /\ step[leg] = "extract"
  /\ step' = [step EXCEPT ![leg] = "run"]
  /\ UNCHANGED <<test, outputs, phase, paged, failed>>

ExtractFails(leg) ==
  /\ step[leg] = "extract"
  /\ step' = [step EXCEPT ![leg] = "failure"]
  /\ outputs' = Merge(outputs, LegOutputs("failure", Unset))
  /\ UNCHANGED <<test, phase, paged, failed>>

\* The exit code of rate-limiting is that of the step.
Run(leg, status) ==
  /\ step[leg] = "run"
  /\ step' = [step EXCEPT ![leg] = status]
  /\ outputs' = Merge(outputs, LegOutputs(status, leg))
  /\ failed' = IF status = "failure" THEN failed \cup {leg} ELSE failed
  /\ UNCHANGED <<test, phase, paged>>

\* timeout-minutes; the outputs may get lost.
TimesOut(leg) ==
  /\ step[leg] \in {"extract", "run"}
  /\ step' = [step EXCEPT ![leg] = "cancelled"]
  /\ outputs' \in {outputs, Merge(outputs, LegOutputs("cancelled", Unset))}
  /\ UNCHANGED <<test, phase, paged, failed>>

-----------------------------------------------------------------------------

\* overall_result: the outputs of the matrix job stand in for the list of its legs.
OverallResult ==
  IF Star(outputs, "result") \cap {"failure", "cancelled"} # {} THEN "failure" ELSE "success"

AllEnded == \A leg \in Legs : step[leg] \in Ended

ProcessResults ==
  /\ phase = "legs" /\ AllEnded
  /\ phase' = "page"
  /\ UNCHANGED <<test, step, outputs, paged, failed>>

\* The condition has no status function, so that success() is implied.
Pages == /\ Success({step[leg] : leg \in Legs})
         /\ test \/ OverallResult = "failure"

Page ==
  /\ phase = "page" /\ phase' = "over"
  /\ paged' = Pages
  /\ UNCHANGED <<test, step, outputs, failed>>

Done == phase = "over" /\ UNCHANGED vars

Next == \/ \E leg \in Legs : \/ Extract(leg) \/ ExtractFails(leg) \/ TimesOut(leg)
                             \/ \E status \in {"success", "failure"} : Run(leg, status)
        \/ ProcessResults \/ Page \/ Done

Spec == Init /\ [][Next]_vars

-----------------------------------------------------------------------------
(* What the README says and rate-limiting.yml does not do. *)

\* "If a prober fails, the oncall on duty will be notified": not even when the binary
\* fails for both environments.
FailurePaged == phase = "over" /\ failed = Legs => paged
=============================================================================
