-------------------------- MODULE ProberAlertProofs --------------------------
(***************************************************************************)
(* Proofs about ProberAlert, for any number of attempts, of outages and    *)
(* of faulty jobs: a transient outage raises no alarm, a lasting one does. *)
(***************************************************************************)
EXTENDS ProberAlert, TLAPS

\* What is down while the jobs run is recorded, and what lasts is down.
WorldOK ==
  /\ lasting \subseteq down
  /\ phase = "jobs" => down \subseteq suffered[run]

\* The prober's attempts are not used up before its job has ended.
AttemptsOK == result["sigstore-probe"] = "running" => attempts < MaxAttempts

\* A job of the present run that did not succeed had a reason; and no job that needs
\* what is down throughout has succeeded.
JobsOK ==
  /\ \A j \in Jobs : result[j] = "failure" => suffered[run] # {}
  /\ \A j \in Jobs : result[j] = "cancelled" => "hang" \in suffered[run]
  /\ lasting # {} => \A j \in Probes \ {"root-probe"} : result[j] # "success"

\* The outputs of the matrix job are those of a leg, or of one that hung.
OutputsOK ==
  /\ outputs.result = "failure" => \E leg \in Legs : result[leg] = "failure"
  /\ outputs.result = "cancelled" => "hang" \in suffered[run]

\* There is a second run only if the first had a fault or was the test, and an alarm,
\* other than the test's, only at the end of the second.
RunsOK ==
  /\ phase = "waiting" => run = 1
  /\ run = 2 \/ phase = "waiting" => suffered[1] # {} \/ test
  /\ 1 \notin issued /\ (1 \in paged => test)
  /\ 2 \in paged \cup issued => run = 2 /\ phase = "over" /\ suffered[2] # {}

AlertInv == /\ TypeOK /\ WorldOK /\ AttemptsOK /\ JobsOK /\ OutputsOK /\ RunsOK
            /\ LastingOutagePaged

\* The outputs and the record of each run, typed.
OutputsType  == outputs \in [result : Ended \cup {Unset}, skip_pagerduty : {Unset, "true"}]
Troubles     == Parts \cup {"runner", "hang"}
SufferedType == suffered \in [{1, 2} -> SUBSET Troubles]

USE ProberAlertAssumption DEF vars, world, job, alarms, Ended, Legs, Probes, Summaries, Jobs,
                                Parts, Troubles

-----------------------------------------------------------------------------
(* The outputs of the matrix job *)

\* An output that was not set is no leg's result.
LEMMA UnsetIsNoResult == Unset \notin Ended /\ Unset # "true"
BY DEF Unset

\* The fields of the outputs, and outputs with such fields.
LEMMA OutputsFields ==
  ASSUME OutputsType
  PROVE  outputs.result \in Ended \cup {Unset} /\ outputs.skip_pagerduty \in {Unset, "true"}
BY Zenon DEF OutputsType

LEMMA FieldsOutputs ==
  ASSUME NEW r \in Ended \cup {Unset}, NEW skip \in {Unset, "true"},
         outputs' = [result |-> r, skip_pagerduty |-> skip]
  PROVE  OutputsType'
BY Zenon DEF OutputsType

LEMMA OutputsStay == OutputsType /\ outputs' = outputs => OutputsType'
BY Zenon DEF OutputsType

\* A leg that ends replaces the result that others have put out.
LEMMA MergeOutputs ==
  ASSUME OutputsType, NEW status \in Ended, NEW skip \in {Unset, "true"},
         outputs' = Merge(outputs, LegOutputs(status, skip))
  PROVE  OutputsType' /\ outputs'.result = status
<1> DEFINE new == LegOutputs(status, skip)
<1>1. new.result = status /\ new.skip_pagerduty = skip /\ status # Unset
  BY UnsetIsNoResult DEF LegOutputs
<1>2. DOMAIN outputs = {"result", "skip_pagerduty"}
  BY DEF OutputsType
<1>3. outputs' = [f \in {"result", "skip_pagerduty"} |->
                   IF new[f] = Unset THEN outputs[f] ELSE new[f]]
  BY <1>2 DEF Merge
<1> HIDE DEF new
<1>4. outputs' = [result |-> status,
                  skip_pagerduty |-> IF skip = Unset THEN outputs.skip_pagerduty ELSE skip]
  BY <1>1, <1>3
<1>5. outputs'.result = status
  BY <1>4
<1> QED
  BY <1>4, <1>5, OutputsFields, FieldsOutputs

\* The outputs have no outputs: skip_pagerduty has no effect.
LEMMA NothingSkips == OutputsType => ~SkipPagerduty
BY DEF OutputsType, SkipPagerduty, Star

-----------------------------------------------------------------------------
(* The jobs *)

\* A job that ends keeps the invariant, if it had a reason to end so.
LEMMA EndJob ==
  ASSUME AlertInv, NEW j \in Jobs, NEW status \in Ended,
         Running(j), End(j, status), UNCHANGED <<world, test, run, phase, alarms>>,
         SufferedType', \A r \in {1, 2} : suffered[r] \subseteq suffered'[r],
         status = "failure" => suffered'[run] # {},
         status = "cancelled" => "hang" \in suffered'[run],
         status = "success" /\ j \in Probes \ {"root-probe"} => lasting = {},
         OutputsType',
         \/ outputs' = outputs
         \/ outputs'.result = status /\ j \in Legs,
         attempts' \in 0..MaxAttempts, j = "sigstore-probe" \/ attempts' = attempts,
         faults' \in 0..MaxFaults
  PROVE  AlertInv'
<1>1. /\ phase = "jobs" /\ run \in {1, 2}
      /\ result \in [Jobs -> Ended \cup {"running"}] /\ result[j] = "running"
      /\ result' = [result EXCEPT ![j] = status]
  BY DEF Running, End, AlertInv, TypeOK
<1>2. result'[j] = status /\ \A k \in Jobs : k # j => result'[k] = result[k]
  BY <1>1
<1>3. suffered[run] \subseteq suffered'[run]
  BY <1>1
<1>4. TypeOK'
  BY <1>1 DEF AlertInv, TypeOK, OutputsType, SufferedType
<1>5. WorldOK'
  BY <1>3 DEF AlertInv, WorldOK
<1>6. AttemptsOK'
  BY <1>2 DEF AlertInv, AttemptsOK
<1>7. JobsOK'
  BY <1>2, <1>3 DEF AlertInv, JobsOK
<1>8. OutputsOK'
  <2>1. CASE outputs' = outputs
    BY <1>1, <1>2, <1>3, <2>1 DEF AlertInv, OutputsOK
  <2>2. CASE outputs'.result = status /\ j \in Legs
    BY <1>2, <2>2 DEF OutputsOK
  <2> QED
    BY <2>1, <2>2
<1>9. 2 \notin paged \cup issued
  BY <1>1 DEF AlertInv, RunsOK
<1>10. RunsOK'
  BY <1>1, <1>9 DEF AlertInv, RunsOK
<1>11. LastingOutagePaged'
  BY <1>1, <1>9 DEF LastingOutagePaged
<1> QED
  BY <1>4, <1>5, <1>6, <1>7, <1>8, <1>10, <1>11 DEF AlertInv

\* The record of the runs only grows while jobs run.
LEMMA SufferGrows ==
  ASSUME AlertInv, NEW what \in SUBSET Troubles, Suffer(what)
  PROVE  /\ SufferedType' /\ what \subseteq suffered'[run]
         /\ \A r \in {1, 2} : suffered[r] \subseteq suffered'[r]
BY DEF AlertInv, TypeOK, SufferedType, Suffer

\* The steps of the jobs keep the invariant.
LEMMA ProbeInv == AlertInv /\ Probe => AlertInv'
<1> SUFFICES ASSUME AlertInv, Probe PROVE AlertInv'
  OBVIOUS
<1>1. /\ Running("sigstore-probe") /\ phase = "jobs" /\ run \in {1, 2}
      /\ UNCHANGED <<world, test, run, phase, outputs, alarms, suffered, faults>>
  BY DEF Probe, Running, AlertInv, TypeOK
<1>2. /\ OutputsType' /\ SufferedType' /\ faults' \in 0..MaxFaults
      /\ \A r \in {1, 2} : suffered[r] \subseteq suffered'[r]
  BY <1>1, OutputsStay DEF AlertInv, TypeOK, OutputsType, SufferedType
<1>3. attempts \in 0..MaxAttempts /\ attempts < MaxAttempts
  BY <1>1 DEF AlertInv, TypeOK, AttemptsOK, Running
<1>4. CASE down = {} /\ End("sigstore-probe", "success") /\ UNCHANGED attempts
  <2>1. lasting = {}
    BY <1>4 DEF AlertInv, WorldOK
  <2> QED
    BY <1>1, <1>2, <1>3, <1>4, <2>1, EndJob
<1>5. CASE down # {} /\ attempts' = attempts + 1 /\ GiveUp /\ End("sigstore-probe", "failure")
  <2>1. suffered'[run] # {}
    BY <1>1, <1>5 DEF AlertInv, WorldOK
  <2>2. attempts' \in 0..MaxAttempts
    BY <1>3, <1>5
  <2> QED
    BY <1>1, <1>2, <1>5, <2>1, <2>2, EndJob
<1>6. CASE down # {} /\ attempts' = attempts + 1 /\ ~GiveUp /\ UNCHANGED result
  <2>1. attempts' \in 0..MaxAttempts /\ attempts' < MaxAttempts
    BY <1>3, <1>6 DEF GiveUp
  <2> QED
    BY <1>1, <1>2, <1>6, <2>1
    DEF AlertInv, TypeOK, WorldOK, AttemptsOK, JobsOK, OutputsOK, RunsOK,
        LastingOutagePaged, NoHang, OutputsType
<1> QED
  BY <1>4, <1>5, <1>6 DEF Probe

LEMMA RootProbeInv == AlertInv /\ RootProbe => AlertInv'
<1> SUFFICES ASSUME AlertInv, RootProbe PROVE AlertInv'
  OBVIOUS
<1>1. /\ Running("root-probe") /\ phase = "jobs" /\ run \in {1, 2}
      /\ UNCHANGED <<world, test, run, phase, attempts, outputs, alarms, suffered, faults>>
  BY DEF RootProbe, Running, AlertInv, TypeOK
<1>2. /\ OutputsType' /\ SufferedType' /\ faults' \in 0..MaxFaults
      /\ attempts' \in 0..MaxAttempts
      /\ \A r \in {1, 2} : suffered[r] \subseteq suffered'[r]
  BY <1>1, OutputsStay DEF AlertInv, TypeOK, OutputsType, SufferedType
<1>3. PICK status \in {"success", "failure"} :
        End("root-probe", status) /\ (status = "failure" => "tuf" \in down)
  BY DEF RootProbe
<1>4. status = "failure" => suffered'[run] # {}
  BY <1>1, <1>3 DEF AlertInv, WorldOK
<1> QED
  BY <1>1, <1>2, <1>3, <1>4, EndJob

LEMMA EndToEndInv ==
  ASSUME AlertInv, NEW leg \in Legs, EndToEnd(leg) PROVE AlertInv'
<1>1. /\ Running(leg) /\ phase = "jobs" /\ run \in {1, 2}
      /\ UNCHANGED <<world, test, run, phase, attempts, alarms, suffered, faults>>
  BY DEF EndToEnd, Running, AlertInv, TypeOK
<1>2. PICK status \in {"success", "failure"} :
        /\ End(leg, status) /\ (status = "success" <=> down = {})
        /\ outputs' = Merge(outputs, LegOutputs(status, Unset))
  BY DEF EndToEnd
<1>3. /\ SufferedType' /\ faults' \in 0..MaxFaults /\ attempts' \in 0..MaxAttempts
      /\ \A r \in {1, 2} : suffered[r] \subseteq suffered'[r]
  BY <1>1 DEF AlertInv, TypeOK, SufferedType
<1>4. OutputsType
  BY DEF AlertInv, TypeOK, OutputsType
<1>5. OutputsType' /\ outputs'.result = status
  BY <1>2, <1>4, MergeOutputs
<1>6. /\ status = "failure" => suffered'[run] # {}
      /\ status = "success" => lasting = {}
  BY <1>1, <1>2 DEF AlertInv, WorldOK
<1> QED
  BY <1>1, <1>2, <1>3, <1>5, <1>6, EndJob

LEMMA SummaryInv ==
  ASSUME AlertInv, NEW j \in Summaries, Summarise(j) PROVE AlertInv'
<1>1. /\ Running(j) /\ End(j, "success") /\ phase = "jobs" /\ run \in {1, 2}
      /\ UNCHANGED <<world, test, run, phase, attempts, outputs, alarms, suffered, faults>>
  BY DEF Summarise, Running, AlertInv, TypeOK
<1>2. /\ OutputsType' /\ SufferedType' /\ faults' \in 0..MaxFaults
      /\ attempts' \in 0..MaxAttempts
      /\ \A r \in {1, 2} : suffered[r] \subseteq suffered'[r]
  BY <1>1, OutputsStay DEF AlertInv, TypeOK, OutputsType, SufferedType
<1> QED
  BY <1>1, <1>2, EndJob

\* A job that its runner fails, or that hangs, is recorded as such.
LEMMA FaultInv ==
  ASSUME AlertInv, NEW j \in Jobs, RunnerFails(j) \/ TimesOut(j) PROVE AlertInv'
<1>1. /\ Running(j) /\ phase = "jobs" /\ run \in {1, 2} /\ faults' \in 0..MaxFaults
      /\ UNCHANGED <<world, test, run, phase, attempts, alarms>>
      /\ attempts' \in 0..MaxAttempts
  BY DEF RunnerFails, TimesOut, Faulty, Running, AlertInv, TypeOK
<1>2. OutputsType
  BY DEF AlertInv, TypeOK, OutputsType
<1>3. CASE RunnerFails(j)
  <2>1. End(j, "failure") /\ Suffer({"runner"})
    BY <1>3 DEF RunnerFails
  <2>2. /\ SufferedType' /\ suffered'[run] # {}
        /\ \A r \in {1, 2} : suffered[r] \subseteq suffered'[r]
    BY <2>1, SufferGrows
  <2>3. CASE j \in Legs
    <3>1. PICK skip \in {Unset, "true"} :
            outputs' = Merge(outputs, LegOutputs("failure", skip))
      BY <1>3, <2>3 DEF RunnerFails
    <3>2. OutputsType' /\ outputs'.result = "failure"
      BY <1>2, <3>1, MergeOutputs
    <3> QED
      BY <1>1, <2>1, <2>2, <2>3, <3>2, EndJob
  <2>4. CASE j \notin Legs
    <3>1. outputs' = outputs
      BY <1>3, <2>4 DEF RunnerFails
    <3> QED
      BY <1>1, <1>2, <2>1, <2>2, <3>1, OutputsStay, EndJob
  <2> QED
    BY <2>3, <2>4
<1>4. CASE TimesOut(j)
  <2>1. End(j, "cancelled") /\ Suffer({"hang"})
    BY <1>4 DEF TimesOut
  <2>2. /\ SufferedType' /\ "hang" \in suffered'[run]
        /\ \A r \in {1, 2} : suffered[r] \subseteq suffered'[r]
    BY <2>1, SufferGrows
  <2>3. CASE outputs' = outputs
    BY <1>1, <1>2, <2>1, <2>2, <2>3, OutputsStay, EndJob
  <2>4. CASE j \in Legs /\ outputs' = Merge(outputs, LegOutputs("cancelled", Unset))
    <3>1. OutputsType' /\ outputs'.result = "cancelled"
      BY <1>2, <2>4, MergeOutputs
    <3> QED
      BY <1>1, <2>1, <2>2, <2>4, <3>1, EndJob
  <2> QED
    BY <1>4, <2>3, <2>4 DEF TimesOut
<1> QED
  BY <1>3, <1>4

-----------------------------------------------------------------------------
(* The world and the workflow *)

\* What goes down while jobs run is recorded; what comes back does not last.
LEMMA ChangeInv ==
  ASSUME AlertInv, NEW part \in Parts, Change(part) PROVE AlertInv'
<1>1. /\ phase # "over" /\ run \in {1, 2}
      /\ changes' \in 0..MaxChanges /\ down' \in SUBSET Parts
      /\ lasting' \subseteq lasting /\ lasting' \subseteq down'
      /\ UNCHANGED <<test, run, phase, attempts, result, outputs, paged, issued, faults>>
  BY DEF Change, AlertInv, TypeOK, WorldOK
<1>2. 2 \notin paged \cup issued
  BY <1>1 DEF AlertInv, RunsOK
<1>3. /\ SufferedType' /\ \A r \in {1, 2} : suffered[r] \subseteq suffered'[r]
      /\ phase = "jobs" => down' \subseteq suffered'[run]
  <2>1. CASE phase = "jobs"
    BY <1>1, <2>1, SufferGrows DEF Change
  <2>2. CASE phase # "jobs"
    BY <2>2 DEF Change, AlertInv, TypeOK, SufferedType
  <2> QED
    BY <2>1, <2>2
<1>4. suffered[run] \subseteq suffered'[run]
  BY <1>1, <1>3
<1>5. OutputsType'
  BY <1>1, OutputsStay DEF AlertInv, TypeOK, OutputsType
<1>6. TypeOK'
  BY <1>1, <1>3, <1>5 DEF AlertInv, TypeOK, OutputsType, SufferedType
<1>7. WorldOK' /\ AttemptsOK'
  BY <1>1, <1>3 DEF AlertInv, WorldOK, AttemptsOK
<1>8. JobsOK' /\ OutputsOK'
  BY <1>1, <1>4 DEF AlertInv, JobsOK, OutputsOK
<1>9. RunsOK'
  BY <1>1, <1>2, <1>3 DEF AlertInv, RunsOK
<1>10. LastingOutagePaged'
  BY <1>1, <1>2 DEF LastingOutagePaged
<1> QED
  BY <1>6, <1>7, <1>8, <1>9, <1>10 DEF AlertInv

\* A run whose jobs have ended has a job that failed if something was down throughout
\* and no job hung; an issue, too, is for a job that failed, unless one hung.
LEMMA RunEnds ==
  ASSUME AlertInv, \A j \in Jobs : result[j] \in Ended
  PROVE  /\ Failure(Results) => suffered[run] # {}
         /\ Files => run = 2 /\ suffered[run] # {}
         /\ "hang" \notin suffered[run] =>
              /\ lasting # {} => result["sigstore-probe"] = "failure"
              /\ Files => Failure(Results)
<1>1. OutputsType /\ run \in {1, 2}
  BY DEF AlertInv, TypeOK, OutputsType
<1>2. E2EFailed => outputs.result \in {"failure", "cancelled"}
  BY <1>1, OutputsFields, Zenon DEF E2EFailed, Star
<1>3. \A j \in Jobs : result[j] = "failure" => Failure(Results) /\ suffered[run] # {}
  BY DEF Failure, Results, AlertInv, JobsOK
<1>4. Failure(Results) => suffered[run] # {}
  BY DEF Failure, Results, AlertInv, JobsOK
<1>5. outputs.result \in {"failure", "cancelled"} =>
        /\ suffered[run] # {}
        /\ "hang" \notin suffered[run] => Failure(Results)
  BY <1>3 DEF AlertInv, OutputsOK
<1>6. Files => run = 2 /\ suffered[run] # {}
  BY <1>2, <1>3, <1>5 DEF Files, AlertOnFailure
<1>7. "hang" \notin suffered[run] /\ Files => Failure(Results)
  BY <1>2, <1>3, <1>5 DEF Files
<1>8. "hang" \notin suffered[run] /\ lasting # {} => result["sigstore-probe"] = "failure"
  BY DEF AlertInv, JobsOK
<1> QED
  BY <1>4, <1>6, <1>7, <1>8

\* The alarms keep the invariant.
LEMMA AlarmInv == AlertInv /\ Alert => AlertInv'
<1> SUFFICES ASSUME AlertInv, Alert PROVE AlertInv'
  OBVIOUS
<1>1. /\ phase = "jobs" /\ run \in {1, 2} /\ \A j \in Jobs : result[j] \in Ended
      /\ UNCHANGED <<world, test, run, job, suffered, faults>>
      /\ paged' = paged \cup (IF Pages THEN {run} ELSE {})
      /\ issued' = issued \cup (IF Files THEN {run} ELSE {})
  BY DEF Alert, AlertInv, TypeOK
<1>2. 2 \notin paged \cup issued /\ 1 \notin issued /\ (1 \in paged => test)
  BY <1>1 DEF AlertInv, RunsOK
<1>3. PICK pager \in {"success"} \cup (IF Pages THEN {"failure"} ELSE {}) :
        phase' = IF RunAgain(pager) THEN "waiting" ELSE "over"
  BY DEF Alert
<1>4. Pages <=> (test /\ run = 1) \/ (run = 2 /\ Failure(Results))
  BY NothingSkips DEF Pages, AlertOnFailure, AlertInv, TypeOK, OutputsType
<1>5. RunAgain(pager) <=> run = 1 /\ (Failure(Results) \/ pager = "failure")
  BY DEF RunAgain, Failure, Combined
<1>6. OutputsType'
  BY <1>1, OutputsStay DEF AlertInv, TypeOK, OutputsType
<1>7. TypeOK'
  BY <1>1, <1>3, <1>6 DEF AlertInv, TypeOK, OutputsType
<1>8. WorldOK' /\ AttemptsOK' /\ JobsOK' /\ OutputsOK'
  BY <1>1, <1>3 DEF AlertInv, WorldOK, AttemptsOK, JobsOK, OutputsOK
<1>9. RunsOK'
  <2>1. phase' = "waiting" => run = 1 /\ (suffered[1] # {} \/ test)
    BY <1>1, <1>3, <1>4, <1>5, RunEnds
  <2>2. 1 \notin issued' /\ (1 \in paged' => test)
    BY <1>1, <1>2, <1>4, RunEnds
  <2>3. 2 \in paged' \cup issued' => run = 2 /\ phase' = "over" /\ suffered[2] # {}
    BY <1>1, <1>2, <1>3, <1>4, <1>5, RunEnds
  <2> QED
    BY <1>1, <2>1, <2>2, <2>3 DEF AlertInv, RunsOK
<1>10. LastingOutagePaged'
  <2> SUFFICES ASSUME "hang" \notin suffered[run]
               PROVE  /\ phase' = "over" /\ lasting # {} => 2 \in paged' /\ 2 \in issued'
                      /\ 2 \in issued' => 2 \in paged'
    BY <1>1 DEF LastingOutagePaged, NoHang
  <2>1. lasting # {} => Failure(Results) /\ (run = 2 => Files)
    BY <1>1, RunEnds DEF Failure, Results, Files, AlertOnFailure
  <2>2. phase' = "over" /\ lasting # {} => run = 2 /\ Pages /\ Files
    BY <1>1, <1>3, <1>4, <1>5, <2>1
  <2>3. 2 \in issued' => run = 2 /\ Pages
    BY <1>1, <1>2, <1>4, RunEnds
  <2> QED
    BY <1>1, <2>2, <2>3
<1> QED
  BY <1>7, <1>8, <1>9, <1>10 DEF AlertInv

\* The second run begins with nothing but what is down.
LEMMA ProbeAgainInv == AlertInv /\ ProbeAgain => AlertInv'
<1> SUFFICES ASSUME AlertInv, ProbeAgain PROVE AlertInv'
  OBVIOUS
<1>1. /\ phase = "waiting" /\ run = 1 /\ phase' = "jobs" /\ run' = 2
      /\ suffered' = [suffered EXCEPT ![2] = down] /\ attempts' = 0
      /\ result' = [j \in Jobs |-> "running"] /\ outputs' = NoOutputs
      /\ UNCHANGED <<world, test, alarms, faults>>
  BY DEF ProbeAgain, FreshJobs, AlertInv, RunsOK
<1>2. 2 \notin paged \cup issued /\ 1 \notin issued /\ (1 \in paged => test)
  BY <1>1 DEF AlertInv, RunsOK
<1>3. OutputsType' /\ outputs'.result = Unset
  BY <1>1, FieldsOutputs DEF NoOutputs
<1>4. SufferedType' /\ suffered'[2] = down /\ suffered'[1] = suffered[1]
  BY <1>1 DEF AlertInv, TypeOK, SufferedType
<1>5. TypeOK'
  BY <1>1, <1>3, <1>4 DEF AlertInv, TypeOK, OutputsType, SufferedType
<1>6. WorldOK' /\ AttemptsOK' /\ JobsOK'
  BY <1>1, <1>4 DEF AlertInv, WorldOK, AttemptsOK, JobsOK
<1>7. OutputsOK'
  BY <1>3, UnsetIsNoResult DEF OutputsOK
<1>8. RunsOK'
  BY <1>1, <1>2, <1>4 DEF AlertInv, RunsOK
<1>9. LastingOutagePaged'
  BY <1>1, <1>2 DEF LastingOutagePaged
<1> QED
  BY <1>5, <1>6, <1>7, <1>8, <1>9 DEF AlertInv

\* An execution begins, the first one or another.
Beginning ==
  /\ down \in SUBSET Parts /\ changes \in 0..MaxChanges /\ test \in BOOLEAN
  /\ run = 1 /\ phase = "jobs" /\ attempts = 0 /\ outputs = NoOutputs
  /\ result = [j \in Jobs |-> "running"] /\ paged = {} /\ issued = {} /\ faults = 0
  /\ lasting = down /\ suffered = [r \in {1, 2} |-> IF r = 1 THEN down ELSE {}]

LEMMA Fresh == Beginning => AlertInv
<1> SUFFICES ASSUME Beginning PROVE AlertInv
  OBVIOUS
<1>1. outputs.result = Unset /\ OutputsType
  BY Zenon DEF Beginning, NoOutputs, OutputsType
<1>2. SufferedType /\ suffered[1] = down
  BY DEF Beginning, SufferedType
<1>3. TypeOK
  BY <1>1, <1>2 DEF Beginning, TypeOK, OutputsType, SufferedType
<1>4. WorldOK /\ AttemptsOK /\ JobsOK
  BY <1>2 DEF Beginning, WorldOK, AttemptsOK, JobsOK
<1>5. OutputsOK
  BY <1>1, UnsetIsNoResult DEF OutputsOK
<1>6. RunsOK /\ LastingOutagePaged
  BY DEF Beginning, RunsOK, LastingOutagePaged
<1> QED
  BY <1>3, <1>4, <1>5, <1>6 DEF AlertInv

LEMMA InitAlert == Init => AlertInv
BY Fresh DEF Init, Beginning

LEMMA ScheduleInv == AlertInv /\ Schedule => AlertInv'
<1>1. ASSUME AlertInv, Schedule PROVE Beginning'
  <2>1. down' \in SUBSET Parts /\ changes' \in 0..MaxChanges
    BY <1>1 DEF Schedule, AlertInv, TypeOK
  <2>2. outputs' = NoOutputs' /\ result' = [j \in Jobs |-> "running"] /\ attempts' = 0
    BY <1>1 DEF Schedule, FreshJobs, NoOutputs
  <2>3. /\ test' \in BOOLEAN /\ run' = 1 /\ phase' = "jobs"
        /\ paged' = {} /\ issued' = {} /\ faults' = 0 /\ lasting' = down'
        /\ suffered' = [r \in {1, 2} |-> IF r = 1 THEN down' ELSE {}]
    BY <1>1 DEF Schedule
  <2> QED
    BY <2>1, <2>2, <2>3 DEF Beginning
<1>2. Beginning' => AlertInv'
  BY Fresh, PTL
<1> QED
  BY <1>1, <1>2

\* A step that changes nothing keeps the invariant.
LEMMA StutterInv == AlertInv /\ UNCHANGED vars => AlertInv'
<1> SUFFICES ASSUME AlertInv, UNCHANGED vars PROVE AlertInv'
  OBVIOUS
<1>1. OutputsType'
  BY OutputsStay DEF AlertInv, TypeOK, OutputsType
<1>2. TypeOK'
  BY <1>1 DEF AlertInv, TypeOK, OutputsType
<1> QED
  BY <1>2 DEF AlertInv, WorldOK, AttemptsOK, JobsOK, OutputsOK, RunsOK,
              LastingOutagePaged, NoHang

LEMMA NextAlert == AlertInv /\ [Next]_vars => AlertInv'
BY ProbeInv, RootProbeInv, EndToEndInv, SummaryInv, FaultInv, ChangeInv, AlarmInv,
   ProbeAgainInv, ScheduleInv, StutterInv
DEF Next, Workflow

-----------------------------------------------------------------------------

\* The invariant of the alerting workflows holds in every reachable state.
THEOREM AlertInvariance == Spec => []AlertInv
BY InitAlert, NextAlert, PTL DEF Spec

\* The workflow's variables are typed; the prober is tried at most MaxAttempts times.
THEOREM AlertTypeCorrect == Spec => []TypeOK
<1>1. AlertInv => TypeOK
  BY DEF AlertInv
<1> QED
  BY <1>1, AlertInvariance, PTL

\* An alarm, other than the test's, needs a fault in both runs.
THEOREM TransientIsQuiet == Spec => []TransientOutageQuiet
<1>1. AlertInv => TransientOutageQuiet
  BY DEF AlertInv, TypeOK, RunsOK, TransientOutageQuiet
<1> QED
  BY <1>1, AlertInvariance, PTL

\* What is down throughout is paged and filed, unless a job hangs.
THEOREM LastingIsPaged == Spec => []LastingOutagePaged
<1>1. AlertInv => LastingOutagePaged
  BY DEF AlertInv
<1> QED
  BY <1>1, AlertInvariance, PTL
=============================================================================
