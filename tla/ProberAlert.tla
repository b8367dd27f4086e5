------------------------------ MODULE ProberAlert ------------------------------
(***************************************************************************)
(* From the prober's exit status to the oncall: prober-prod.yml and        *)
(* prober-staging.yml run the jobs of reusable-prober.yml once without     *)
(* alerts, wait if they failed, and run them again with alerts.            *)
(*                                                                         *)
(* The services under test, the TUF repository and GitHub's OIDC server go *)
(* down and come back at any time.  A job is one step, but for the three   *)
(* attempts of the prober, which see the outage of their own moment.       *)
(***************************************************************************)
EXTENDS Naturals, GitHubActions

CONSTANTS MaxAttempts,  \* max_attempts of the step Run prober: 3
          MaxChanges,   \* bound: outages and recoveries
          MaxFaults     \* bound: jobs that their runner fails, in an execution

ASSUME ProberAlertAssumption ==
  MaxAttempts \in Nat \ {0} /\ MaxChanges \in Nat /\ MaxFaults \in Nat

VARIABLES
  down,       \* what is down at the moment
  changes,    \* outages and recoveries so far
  test,       \* input trigger_pager_duty_test
  run,        \* 1: prober, 2: prober-with-alerts
  phase,      \* of the workflow
  attempts,   \* failed attempts of the step Run prober
  result,     \* results of the jobs
  outputs,    \* outputs of the matrix job rekor-fulcio-e2e
  paged, issued,          \* runs that called the pager, or filed an issue
  faults,                 \* jobs of this execution that failed or hung on their own
  lasting, suffered       \* history of this execution: what was down throughout; what
                          \* was down in each run, or went wrong on its runners

world   == <<down, changes, lasting>>
job     == <<attempts, result, outputs>>
alarms  == <<paged, issued>>
vars    == <<world, test, run, phase, job, alarms, suffered, faults>>

Legs == {"v1", "v2"}
\* The jobs whose results only the alerts need do nothing that fails by itself.
Probes == {"sigstore-probe", "root-probe"} \cup Legs
Summaries == {"compute-summary-msg", "process-e2e-results"}
Jobs == Probes \cup Summaries
Parts == {"services", "tuf", "oidc"}

NoOutputs == [result |-> Unset, skip_pagerduty |-> Unset]

FreshJobs == /\ attempts' = 0
             /\ result' = [j \in Jobs |-> "running"]
             /\ outputs' = NoOutputs

Init ==
  /\ down \in SUBSET Parts /\ changes = 0 /\ test \in BOOLEAN
  /\ run = 1 /\ phase = "jobs" /\ attempts = 0
  /\ result = [j \in Jobs |-> "running"] /\ outputs = NoOutputs
  /\ paged = {} /\ issued = {}
  /\ lasting = down /\ suffered = [r \in {1, 2} |-> IF r = 1 THEN down ELSE {}]
  /\ faults = 0

Suffer(what) == suffered' = [suffered EXCEPT ![run] = @ \cup what]

-----------------------------------------------------------------------------
(* The world (external) *)

Change(part) ==
  /\ changes < MaxChanges /\ phase # "over"
  /\ changes' = changes + 1
  /\ down' = IF part \in down THEN down \ {part} ELSE down \cup {part}
  /\ lasting' = lasting \ {part}
  /\ IF phase = "jobs" THEN Suffer(down') ELSE UNCHANGED suffered
  /\ UNCHANGED <<test, run, phase, job, alarms, faults>>

-----------------------------------------------------------------------------
(* The jobs of reusable-prober.yml *)

\* Nothing depends on when a summary is made, if the legs have ended.
Running(j) == /\ phase = "jobs" /\ result[j] = "running"
              /\ j \in Summaries => \A probe \in Probes : result[probe] \in Ended

End(j, status) == result' = [result EXCEPT ![j] = status]

\* Attempts of the prober that fail, or that do not end within a minute, are
\* repeated; it needs the TUF repository, a token, and the services.
GiveUpLate == attempts = MaxAttempts       \* mutant
GiveUp     == attempts + 1 = MaxAttempts

Probe ==
  /\ Running("sigstore-probe")
  /\ \/ /\ down = {}
        /\ End("sigstore-probe", "success") /\ UNCHANGED attempts
     \/ /\ down # {}
        /\ attempts' = attempts + 1
        /\ IF GiveUp THEN End("sigstore-probe", "failure") ELSE UNCHANGED result
  /\ UNCHANGED <<world, test, run, phase, outputs, alarms, suffered, faults>>

RootProbe ==
  /\ Running("root-probe")
  /\ End("root-probe", IF "tuf" \in down THEN "failure" ELSE "success")
  /\ UNCHANGED <<world, test, run, phase, attempts, outputs, alarms, suffered, faults>>

\* What a leg of the end to end test leaves in the outputs of the matrix job.
LegOutputs(status, skip) == [result |-> status, skip_pagerduty |-> skip]

\* The step that confirms the OIDC server has continue-on-error: its failure is no
\* failure(), so that the next step does not set skip_pagerduty.  Without a token
\* the leg fails when it signs.
EndToEnd(leg) ==
  /\ Running(leg)
  /\ LET status == IF down = {} THEN "success" ELSE "failure"
     IN  /\ End(leg, status)
         /\ outputs' = Merge(outputs, LegOutputs(status, Unset))
  /\ UNCHANGED <<world, test, run, phase, attempts, alarms, suffered, faults>>

Summarise(j) ==
  /\ Running(j)
  /\ End(j, "success")
  /\ UNCHANGED <<world, test, run, phase, attempts, outputs, alarms, suffered, faults>>

\* The runner fails: no image, no checkout.  A leg whose checkout fails has a
\* failure() when it comes to set skip_pagerduty.
Faulty(j) == /\ Running(j) /\ faults < MaxFaults
             /\ faults' = faults + 1

RunnerFails(j) ==
  /\ Faulty(j)
  /\ End(j, "failure")
  /\ Suffer({"runner"})
  /\ IF j \in Legs
     THEN \E skip \in {Unset, "true"} :
            outputs' = Merge(outputs, LegOutputs("failure", skip))
     ELSE UNCHANGED outputs
  /\ UNCHANGED <<world, test, run, phase, attempts, alarms>>

\* timeout-minutes, which the summaries have not: GitHub cancels the job, whose outputs
\* may get lost.
TimesOut(j) ==
  /\ Faulty(j)
  /\ End(j, "cancelled")
  /\ Suffer({"hang"})
  /\ outputs' \in {outputs} \cup
       (IF j \in Legs THEN {Merge(outputs, LegOutputs("cancelled", Unset))} ELSE {})
  /\ UNCHANGED <<world, test, run, phase, attempts, alarms>>

-----------------------------------------------------------------------------
(* process-e2e-results and the alerts *)

Results == {result[j] : j \in Jobs}

\* The output result of process-e2e-results is failure, which that job comes to say.
E2EFailed == /\ result["process-e2e-results"] = "success"
             /\ Star(outputs, "result") \cap {"failure", "cancelled"} # {}

\* needs.rekor-fulcio-e2e.*.outputs.skip_pagerduty: the outputs have no outputs.
SkipPagerduty == "true" \in Star(outputs, "outputs")

AlertAlways    == TRUE          \* mutant: alert_on_failure's default
AlertOnFailure == run = 2

\* Mutant: without failure() a condition has an implied success().
PagesOnSuccess == \/ test /\ run = 1
                  \/ AlertOnFailure /\ ~Failure(Results) /\ ~SkipPagerduty
Pages          == \/ test /\ run = 1
                  \/ AlertOnFailure /\ Failure(Results) /\ ~SkipPagerduty

Files == AlertOnFailure /\ \/ result["sigstore-probe"] = "failure"
                           \/ result["root-probe"] = "failure"
                           \/ E2EFailed

\* wait-on-failure and prober-with-alerts have the condition failure(), which a
\* test notification that could not be sent fulfils as well.
RunAgainOnCancel(pager) == run = 1 /\ Combined(Results) = "cancelled"   \* mutant
RunAgain(pager)         == run = 1 /\ Failure({Combined(Results \cup {pager})})

Alert ==
  /\ phase = "jobs" /\ \A j \in Jobs : result[j] \in Ended
  /\ paged' = paged \cup (IF Pages THEN {run} ELSE {})
  /\ issued' = issued \cup (IF Files THEN {run} ELSE {})
  /\ \E pager \in {"success"} \cup (IF Pages THEN {"failure"} ELSE {}) :
       phase' = IF RunAgain(pager) THEN "waiting" ELSE "over"
  /\ UNCHANGED <<world, test, run, job, suffered, faults>>

\* prober-with-alerts has no input trigger_pager_duty_test.
ProbeAgain ==
  /\ phase = "waiting"
  /\ phase' = "jobs" /\ run' = 2
  /\ suffered' = [suffered EXCEPT ![2] = down]
  /\ FreshJobs
  /\ UNCHANGED <<world, test, alarms, faults>>

\* The schedule starts the workflow again, without input.
Schedule ==
  /\ phase = "over"
  /\ phase' = "jobs" /\ run' = 1 /\ test' = FALSE
  /\ FreshJobs
  /\ paged' = {} /\ issued' = {} /\ faults' = 0
  /\ lasting' = down /\ suffered' = [r \in {1, 2} |-> IF r = 1 THEN down ELSE {}]
  /\ UNCHANGED <<down, changes>>

Workflow == \/ Probe \/ RootProbe \/ (\E leg \in Legs : EndToEnd(leg))
            \/ (\E j \in Summaries : Summarise(j))
            \/ (\E j \in Jobs : RunnerFails(j)) \/ (\E j \in Probes : TimesOut(j))
            \/ Alert \/ ProbeAgain \/ Schedule

Next == Workflow \/ (\E part \in Parts : Change(part))

Spec == Init /\ [][Next]_vars

\* GitHub starts every job and ends it, at the latest by its timeout, and the
\* schedule does not stop.
FairSpec == Spec /\ WF_vars(Workflow)

-----------------------------------------------------------------------------
(* Properties *)

\* Types; the prober is tried at most MaxAttempts times in a run.
TypeOK ==
  /\ {down, lasting} \subseteq SUBSET Parts
  /\ changes \in 0..MaxChanges /\ test \in BOOLEAN
  /\ run \in {1, 2} /\ phase \in {"jobs", "waiting", "over"}
  /\ attempts \in 0..MaxAttempts
  /\ result \in [Jobs -> Ended \cup {"running"}]
  /\ outputs \in [result : Ended \cup {Unset}, skip_pagerduty : {Unset, "true"}]
  /\ {paged, issued} \subseteq SUBSET {1, 2}
  /\ suffered \in [{1, 2} -> SUBSET (Parts \cup {"runner", "hang"})]
  /\ faults \in 0..MaxFaults

\* An outage that is over before the second run raises no alarm: a page, other than
\* the test's, and an issue need a fault in the first run and one in the second.
TransientOutageQuiet ==
  \A r \in issued \cup (IF test THEN paged \ {1} ELSE paged) :
    r = 2 /\ suffered[2] # {} /\ (suffered[1] # {} \/ test)

NoHang == "hang" \notin suffered[1] \cup suffered[2]

\* An outage that lasts through an execution of the workflow is paged and filed,
\* whatever fails on the runners besides; and although the conditions of the page and
\* of the issue are written differently, no issue is filed without a page.  Unless a
\* job hangs.
LastingOutagePaged ==
  NoHang => /\ phase = "over" /\ lasting # {} => 2 \in paged /\ 2 \in issued
            /\ 2 \in issued => 2 \in paged

\* An outage that does not end is paged by one execution after the other, whenever
\* it began, if only jobs stop hanging.
OutagePagedAgain ==
  <>[](down # {} /\ NoHang) => []<>(2 \in paged)

-----------------------------------------------------------------------------
(* What reusable-prober.yml says and does not do. *)

\* "If the server is down, and this step fails, we don't alert PagerDuty."
OidcOutageNotPaged ==
  suffered[1] \cup suffered[2] \subseteq {"oidc"} => 2 \notin paged
=============================================================================
