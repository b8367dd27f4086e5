----------------------------- MODULE GitHubActions -----------------------------
(***************************************************************************)
(* The rules of GitHub Actions that the workflows rest on; all external.   *)
(* The outputs of a job are a record, with Unset for one that was not set; *)
(* a matrix job has one such record for all its legs.                      *)
(***************************************************************************)

Ended == {"success", "failure", "cancelled"}

\* An output that a job has not set is empty.
Unset == ""

\* failure(): a job that the condition depends on, directly or not, has failed.  A
\* job that its timeout stopped is cancelled and does not count.
Failure(results) == "failure" \in results

\* success(), which a condition without a status function has implied: all jobs that
\* the condition depends on, directly or not, have succeeded.
Success(results) == results = {"success"}

\* The result of a matrix job, or of a called workflow, from those of its parts.
Combined(results) == IF "failure" \in results THEN "failure"
                     ELSE IF "cancelled" \in results THEN "cancelled" ELSE "success"

\* needs.<matrix job>.*.<field>.  A matrix job is not a list of legs but the object
\* with the members result, a string, and outputs: only the latter has fields.
Star(outputs, field) == IF field \in DOMAIN outputs THEN {outputs[field]} ELSE {}

\* The outputs of a matrix job after one more of its legs ended: whatever the leg
\* set replaces what others had set.
Merge(outputs, leg) ==
  [field \in DOMAIN outputs |-> IF leg[field] = Unset THEN outputs[field] ELSE leg[field]]
=============================================================================
