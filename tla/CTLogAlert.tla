------------------------------ MODULE CTLogAlert ------------------------------
(***************************************************************************)
(* ctlog-sth.yml: one leg of a matrix job for each CT log, and a page when *)
(* a probe failed.  What a leg does is told apart only as far as the page  *)
(* depends on it; CTLog has the steps of a leg and implements this module. *)
(***************************************************************************)
EXTENDS GitHubActions

CONSTANT Legs      \* the legs that run: pairs of an environment and a shard

-----------------------------------------------------------------------------
(* The logs *)

\* envToShardInfo: the shards of an environment; and what is served by a shard.
Shards == [production |-> {"test", "2022"},
           staging    |-> {"test", "2022", "2022-2", "log2026-1", "log2026-1-us-east4"}]

Logs == UNION {{env} \X Shards[env] : env \in DOMAIN Shards}

StaticCT(log) == log[2] \in {"log2026-1", "log2026-1-us-east4"}

\* The matrix of the workflow, without what it excludes.
Excluded     == {"production"} \X {"2022-2", "log2026-1", "log2026-1-us-east4"}
Matrix ==
  ({"production", "staging"} \X {"test", "2022", "2022-2", "log2026-1", "log2026-1-us-east4"})
    \ Excluded

-----------------------------------------------------------------------------

VARIABLES
  test,       \* input triggerPagerDutyTest
  result,     \* results of the legs
  outputs,    \* outputs of the matrix job
  failed,     \* history: legs whose probe failed
  over,       \* the pager's condition has been evaluated
  page        \* the page, if there is one: the set of what it says

vars == <<test, result, outputs, failed, over, page>>

NoOutputs == [summary |-> Unset, probe_status |-> Unset, env |-> Unset, shard |-> Unset]

Init ==
  /\ test \in BOOLEAN
  /\ result = [l \in Legs |-> "running"]
  /\ outputs = NoOutputs /\ failed = {} /\ over = FALSE /\ page = {}

\* What the step ctlog_sth_probe writes to its outputs, by the probe's status.
LegOutputs(l, ok) ==
  [summary |-> "text", probe_status |-> IF ok THEN Unset ELSE "failed",
   env |-> l[1], shard |-> l[2]]

End(l, status) ==
  /\ result[l] = "running"
  /\ result' = [result EXCEPT ![l] = status]

\* The probe ran and exited; it panics when its table does not have the leg's log.
Probed(l, ok) ==
  /\ ok => l \in Logs
  /\ End(l, IF ok THEN "success" ELSE "failure")
  /\ outputs' = Merge(outputs, LegOutputs(l, ok))
  /\ failed' = IF ok THEN failed ELSE failed \cup {l}
  /\ UNCHANGED <<test, over, page>>

\* The image could not be pulled: no probe, no outputs.
NotExtracted(l) ==
  /\ End(l, "failure")
  /\ UNCHANGED <<test, outputs, failed, over, page>>

\* timeout-minutes, in either step; outputs of a cancelled leg may get lost.
TimesOut(l) ==
  /\ End(l, "cancelled")
  /\ outputs' \in {outputs, Merge(outputs, LegOutputs(l, TRUE))}
  /\ UNCHANGED <<test, failed, over, page>>

Pages ==
  test \/ /\ Failure({result[l] : l \in Legs})
          /\ outputs.probe_status = "failed"

Pager ==
  /\ ~over /\ \A l \in Legs : result[l] \in Ended
  /\ over' = TRUE
  /\ page' = IF Pages THEN {outputs} ELSE {}
  /\ UNCHANGED <<test, result, outputs, failed>>

Done == over /\ UNCHANGED vars

EndLeg(l) == (\E ok \in BOOLEAN : Probed(l, ok)) \/ NotExtracted(l) \/ TimesOut(l)

Next == (\E l \in Legs : EndLeg(l)) \/ Pager \/ Done

Spec == Init /\ [][Next]_vars

-----------------------------------------------------------------------------
(* Properties *)

\* Types; the legs are those of the matrix.
TypeOK ==
  /\ test \in BOOLEAN /\ failed \subseteq Legs
  /\ result \in [Legs -> Ended \cup {"running"}]
  /\ outputs \in [summary : {Unset, "text"}, probe_status : {Unset, "failed"},
                  env : {Unset} \cup {l[1] : l \in Legs}, shard : {Unset} \cup {l[2] : l \in Legs}]
  /\ over \in BOOLEAN /\ page \subseteq {outputs}

\* A probe that failed is paged, whichever leg ends last and whatever befalls the
\* others: a leg that goes well does not take back what another has put out.
FailedProbePaged == over /\ failed # {} => page # {}

\* Only a failed probe, or the test, is paged: no runner that could not pull the image.
PagedOnlyForProbe == page # {} => test \/ failed # {}
=============================================================================
