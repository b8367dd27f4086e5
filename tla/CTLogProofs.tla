------------------------------ MODULE CTLogProofs ------------------------------
(***************************************************************************)
(* What the probe of a CT log promises of its exit status, that what it    *)
(* finds wanting is paged, and that a leg with all its requests is one of  *)
(* ctlog-sth.yml, for any legs of the matrix and any times; and that the   *)
(* pauses between retries cut no prompt log short, if there is time for    *)
(* them (PausesOK adds them up, attempt by attempt).                       *)
(***************************************************************************)
EXTENDS CTLog, TLAPS

Running == {"pull", "head", "write"}
Over    == {"ok", "panic", "no image", "cancelled"}

\* A request has been repeated once for each attempt of it that failed.
PcOK      == leg \in Legs /\ pc \in Running \cup Over
RetriesOK == retries \in Nat /\ retries <= RetryMax /\ (pc \in Running => disturbed = retries)
AnswersOK == answers \in [{"head", "write"} -> {"none", "good", "bad", "cut"}]

\* The write service is asked only after a good head.
HeadFirst == pc = "write" => answers["head"] = "good"

\* What is found wanting makes the probe panic at once.
SickPanics == Sick => pc = "panic"

LegInv == /\ PcOK /\ RetriesOK /\ AnswersOK /\ HeadFirst /\ SickPanics
          /\ NoPanicForHiccup /\ ExitZeroMeansServed

\* The leg's result is that of its run; a probe that failed has failed its leg, and has
\* left a status that nothing takes back.
ResultOK  == result \in [Legs -> Alert!Ended \cup {"running"}] /\ result[leg] = LegStatus(pc)
OutputsOK == DOMAIN outputs = {"summary", "probe_status", "env", "shard"}
FailedOK  ==
  /\ \A l \in failed : l \in Legs /\ result[l] = "failure"
  /\ failed = {} => outputs.probe_status = Alert!Unset
  /\ failed # {} => outputs.probe_status = "failed"
PanicOK == pc = "panic" => leg \in failed
OverOK ==
  /\ over => \A l \in Legs : result[l] \in Alert!Ended
  /\ over /\ failed # {} => page # {}
  /\ page # {} => over /\ (test \/ failed # {})

FlowInv == ResultOK /\ OutputsOK /\ FailedOK /\ PanicOK /\ OverOK

USE DEF vars, flowVars, runVars, Running, Over, RetryMax, Alert!StaticCT, Alert!Ended

-----------------------------------------------------------------------------
(* The leg *)

\* The leg's invariant holds when the job begins.
LEMMA InitLeg == Init => LegInv
<1> SUFFICES ASSUME Init PROVE LegInv
  OBVIOUS
<1>1. AnswersOK
  BY DEF Init, AnswersOK
<1>2. PcOK /\ RetriesOK /\ HeadFirst /\ SickPanics
  BY DEF Init, PcOK, RetriesOK, HeadFirst, SickPanics, Sick
<1>3. NoPanicForHiccup /\ ExitZeroMeansServed
  BY DEF Init, NoPanicForHiccup, ExitZeroMeansServed
<1> QED
  BY <1>1, <1>2, <1>3 DEF LegInv

\* An attempt that fails keeps the leg's invariant: the last one makes the probe panic.
LEMMA DisturbLeg == LegInv /\ Disturb => LegInv'
<1> SUFFICES ASSUME LegInv, Disturb PROVE LegInv'
  OBVIOUS
<1>1. pc \in {"head", "write"} /\ disturbed' = disturbed + 1 /\ UNCHANGED <<leg, answers>>
  BY DEF Disturb
<1>2. retries \in Nat /\ retries <= RetryMax /\ disturbed = retries /\ ~Sick
  BY <1>1 DEF LegInv, RetriesOK, SickPanics
<1>3. \/ MayRetry /\ retries' = retries + 1 /\ pc' = pc
      \/ ~MayRetry /\ retries' = retries /\ pc' = "panic"
  BY DEF Disturb, Exits, LegEnds
<1>4. AnswersOK' /\ PcOK'
  BY <1>1, <1>3 DEF LegInv, AnswersOK, PcOK
<1>5. RetriesOK'
  BY <1>1, <1>2, <1>3 DEF RetriesOK, MayRetry
<1>6. HeadFirst' /\ ExitZeroMeansServed'
  BY <1>1, <1>3 DEF LegInv, HeadFirst, ExitZeroMeansServed
<1>7. pc' = "panic" <=> disturbed' = RetryMax + 1
  BY <1>1, <1>2, <1>3 DEF MayRetry
<1>8. NoPanicForHiccup' /\ SickPanics'
  BY <1>1, <1>2, <1>7 DEF NoPanicForHiccup, SickPanics, Sick
<1> QED
  BY <1>4, <1>5, <1>6, <1>8 DEF LegInv

\* An answer about the head keeps the leg's invariant.
LEMMA HeadLeg == LegInv /\ Head => LegInv'
<1> SUFFICES ASSUME LegInv, Head PROVE LegInv'
  OBVIOUS
<1>1. pc = "head" /\ UNCHANGED leg /\ ~Sick /\ AnswersOK /\ RetriesOK
  BY DEF Head, LegInv, SickPanics
<1>2. PICK a \in {"good", "bad", "cut"} :
        /\ answers' = [answers EXCEPT !["head"] = a]
        /\ \/ a # "good" /\ pc' = "panic" /\ UNCHANGED <<retries, disturbed>>
           \/ a = "good" /\ pc' = "write" /\ retries' = 0 /\ disturbed' = 0
           \/ /\ a = "good" /\ ~Alert!StaticCT(leg) /\ pc' = "ok"
              /\ UNCHANGED <<retries, disturbed>>
  BY <1>1 DEF Head, Answered, Verifies, Exits, LegEnds, Ask
<1>3. AnswersOK' /\ answers'["head"] = a /\ answers'["write"] = answers["write"]
  BY <1>1, <1>2 DEF AnswersOK
<1>4. PcOK'
  BY <1>1, <1>2 DEF LegInv, PcOK
<1>5. RetriesOK'
  BY <1>1, <1>2 DEF RetriesOK
<1>6. HeadFirst' /\ NoPanicForHiccup'
  BY <1>2, <1>3 DEF HeadFirst, NoPanicForHiccup, Sick
<1>7. SickPanics'
  BY <1>1, <1>2, <1>3 DEF SickPanics, Sick
<1>8. ExitZeroMeansServed'
  BY <1>1, <1>2, <1>3 DEF ExitZeroMeansServed
<1> QED
  BY <1>3, <1>4, <1>5, <1>6, <1>7, <1>8 DEF LegInv

\* An answer of the write service keeps the leg's invariant.
LEMMA WriteLeg == LegInv /\ Write => LegInv'
<1> SUFFICES ASSUME LegInv, Write PROVE LegInv'
  OBVIOUS
<1>1. pc = "write" /\ UNCHANGED <<leg, retries, disturbed>> /\ ~Sick /\ AnswersOK
  BY DEF Write, LegInv, SickPanics
<1>2. PICK a \in {"good", "bad", "cut"} :
        /\ answers' = [answers EXCEPT !["write"] = a]
        /\ pc' = IF a = "cut" THEN "panic" ELSE "ok"
  BY <1>1 DEF Write, Answered, Exits, LegEnds
<1>3. answers["head"] = "good"
  BY <1>1 DEF LegInv, HeadFirst
<1>4. AnswersOK' /\ answers'["head"] = "good" /\ answers'["write"] = a
  BY <1>1, <1>2, <1>3 DEF AnswersOK
<1>5. PcOK'
  BY <1>1, <1>2 DEF LegInv, PcOK
<1>6. RetriesOK'
  BY <1>1, <1>2 DEF LegInv, RetriesOK
<1>7. HeadFirst' /\ NoPanicForHiccup'
  BY <1>2, <1>4 DEF HeadFirst, NoPanicForHiccup, Sick
<1>8. SickPanics'
  BY <1>1, <1>2, <1>4 DEF SickPanics, Sick
<1>9. ExitZeroMeansServed'
  BY <1>2, <1>4 DEF ExitZeroMeansServed
<1> QED
  BY <1>4, <1>5, <1>6, <1>7, <1>8, <1>9 DEF LegInv

\* Every step keeps the leg's invariant.
LEMMA NextLeg == LegInv /\ [Next]_vars => LegInv'
<1> SUFFICES ASSUME LegInv, [Next]_vars PROVE LegInv'
  OBVIOUS
<1>1. CASE Pull
  <2>1. /\ pc' = "head" /\ retries' = 0 /\ disturbed' = 0 /\ UNCHANGED <<leg, answers>>
        /\ ~Sick
    BY <1>1 DEF Pull, Ask, LegInv, SickPanics
  <2>2. PcOK' /\ AnswersOK'
    BY <2>1 DEF LegInv, PcOK, AnswersOK
  <2>3. RetriesOK' /\ SickPanics'
    BY <2>1 DEF RetriesOK, SickPanics, Sick
  <2>4. HeadFirst' /\ NoPanicForHiccup' /\ ExitZeroMeansServed'
    BY <2>1 DEF HeadFirst, NoPanicForHiccup, ExitZeroMeansServed
  <2> QED
    BY <2>2, <2>3, <2>4 DEF LegInv
<1>2. CASE PullFails \/ TimesOut
  <2>1. /\ pc' \in {"no image", "cancelled"} /\ UNCHANGED <<leg, retries, answers, disturbed>>
        /\ ~Sick
    BY <1>2 DEF PullFails, TimesOut, LegEnds, LegInv, SickPanics
  <2>2. PcOK' /\ AnswersOK'
    BY <2>1 DEF LegInv, PcOK, AnswersOK
  <2>3. RetriesOK' /\ SickPanics'
    BY <2>1 DEF LegInv, RetriesOK, SickPanics, Sick
  <2>4. HeadFirst' /\ NoPanicForHiccup' /\ ExitZeroMeansServed'
    BY <2>1 DEF HeadFirst, NoPanicForHiccup, ExitZeroMeansServed
  <2> QED
    BY <2>2, <2>3, <2>4 DEF LegInv
<1>3. CASE Elsewhere \/ Done \/ UNCHANGED vars
  BY <1>3 DEF Elsewhere, Done, LegInv, PcOK, RetriesOK, AnswersOK, HeadFirst, SickPanics,
              NoPanicForHiccup, ExitZeroMeansServed, Sick
<1> QED
  BY <1>1, <1>2, <1>3, DisturbLeg, HeadLeg, WriteLeg DEF Next

\* The leg's invariant holds in every reachable state.
THEOREM LegInvariance == Spec => []LegInv
BY InitLeg, NextLeg, PTL DEF Spec

\* No log is reported for a hiccup that retries pass over.
THEOREM PanicIsFounded == Spec => []NoPanicForHiccup
<1>1. LegInv => NoPanicForHiccup
  BY DEF LegInv
<1> QED
  BY <1>1, LegInvariance, PTL

\* Exit status 0 means that the head verified and that the write service answered.
THEOREM ExitZeroIsServed == Spec => []ExitZeroMeansServed
<1>1. LegInv => ExitZeroMeansServed
  BY DEF LegInv
<1> QED
  BY <1>1, LegInvariance, PTL

\* A probe's success and its panic are founded.
THEOREM VerdictIsSound == Spec => []VerdictSound
BY PanicIsFounded, ExitZeroIsServed, PTL DEF VerdictSound

-----------------------------------------------------------------------------
(* The leg implements the workflow's. *)

\* The two tables that are kept by hand in two files name the same logs.
THEOREM EveryLogProbed == Alert!Matrix = Alert!Logs
<1>1. DOMAIN Alert!Shards = {"production", "staging"}
  BY DEF Alert!Shards
<1>2. Alert!Logs = ({"production"} \X {"test", "2022"}) \cup
        ({"staging"} \X {"test", "2022", "2022-2", "log2026-1", "log2026-1-us-east4"})
  BY <1>1 DEF Alert!Logs, Alert!Shards
<1> QED
  BY <1>2 DEF Alert!Matrix, Alert!Excluded

\* What the leg does is for the workflow nothing, or the end of a leg.
LEMMA LegStep ==
  ASSUME LegInv, ResultOK, Pull \/ PullFails \/ Disturb \/ Head \/ Write \/ TimesOut
  PROVE  /\ leg' = leg
         /\ \/ UNCHANGED flowVars /\ pc \in Running /\ pc' \in Running
            \/ Alert!Probed(leg, TRUE) /\ pc' = "ok"
            \/ Alert!Probed(leg, FALSE) /\ pc' = "panic"
            \/ Alert!NotExtracted(leg) /\ pc' = "no image"
            \/ Alert!TimesOut(leg) /\ pc' = "cancelled"
<1>1. leg \in Legs /\ leg \in Alert!Logs
  BY CTLogAssumption, EveryLogProbed DEF LegInv, PcOK
<1>2. pc \in Running => result[leg] = "running"
  BY DEF ResultOK, LegStatus
<1>3. ASSUME pc \in Running, Exits("ok") PROVE Alert!Probed(leg, TRUE) /\ pc' = "ok"
  BY <1>1, <1>2, <1>3 DEF Exits, LegEnds, LegStatus, Alert!Probed, Alert!End
<1>4. ASSUME pc \in Running, Exits("panic") PROVE Alert!Probed(leg, FALSE) /\ pc' = "panic"
  BY <1>1, <1>2, <1>4 DEF Exits, LegEnds, LegStatus, Alert!Probed, Alert!End
<1>5. CASE Pull
  BY <1>5 DEF Pull, Ask
<1>6. CASE PullFails
  BY <1>2, <1>6 DEF PullFails, LegEnds, LegStatus, Alert!NotExtracted, Alert!End
<1>7. CASE Disturb
  BY <1>4, <1>7 DEF Disturb
<1>8. CASE Head
  <2>1. pc \in Running /\ leg' = leg
    BY <1>8 DEF Head
  <2>2. (pc' = "write" /\ UNCHANGED flowVars) \/ Exits("panic") \/ Exits("ok")
    BY <1>8 DEF Head, Ask
  <2> QED
    BY <1>3, <1>4, <2>1, <2>2
<1>9. CASE Write
  <2>1. pc \in Running /\ leg' = leg
    BY <1>9 DEF Write
  <2>2. Exits("panic") \/ Exits("ok")
    BY <1>9 DEF Write
  <2> QED
    BY <1>3, <1>4, <2>1, <2>2
<1>10. CASE TimesOut
  <2>1. pc \in Running /\ leg' = leg /\ pc' = "cancelled" /\ UNCHANGED <<test, failed, over, page>>
    BY <1>10 DEF TimesOut, LegEnds
  <2>2. result' = [result EXCEPT ![leg] = "cancelled"]
    BY <1>10 DEF TimesOut, LegEnds, LegStatus
  <2>3. outputs' \in {outputs, Alert!Merge(outputs, Alert!LegOutputs(leg, TRUE))}
    BY <1>10 DEF TimesOut
  <2> QED
    BY <1>2, <2>1, <2>2, <2>3 DEF Alert!TimesOut, Alert!End
<1> QED
  BY <1>5, <1>6, <1>7, <1>8, <1>9, <1>10

\* A leg's end, whichever it is, keeps what the page rests on.
LEMMA EndLegInv ==
  ASSUME NEW l \in Legs, FlowInv, Alert!EndLeg(l)
  PROVE  /\ OutputsOK' /\ FailedOK' /\ OverOK'
         /\ failed \subseteq failed'
         /\ \E s \in Alert!Ended : result' = [result EXCEPT ![l] = s]
<1>1. /\ result[l] = "running" /\ UNCHANGED <<test, over, page>>
      /\ \E s \in Alert!Ended : result' = [result EXCEPT ![l] = s]
  BY DEF Alert!EndLeg, Alert!Probed, Alert!NotExtracted, Alert!TimesOut, Alert!End
<1>2. ~over
  BY <1>1 DEF FlowInv, OverOK
<1>3. OverOK'
  BY <1>1, <1>2 DEF FlowInv, OverOK
<1>4. \A k \in Legs : k # l => result'[k] = result[k]
  BY <1>1 DEF FlowInv, ResultOK
<1>5. l \notin failed
  BY <1>1 DEF FlowInv, FailedOK
<1>6. ASSUME NEW ok \in BOOLEAN, Alert!Probed(l, ok)
      PROVE  OutputsOK' /\ FailedOK' /\ failed \subseteq failed'
  <2>1. /\ outputs' = Alert!Merge(outputs, Alert!LegOutputs(l, ok))
        /\ result' = [result EXCEPT ![l] = IF ok THEN "success" ELSE "failure"]
        /\ failed' = IF ok THEN failed ELSE failed \cup {l}
    BY <1>6 DEF Alert!Probed, Alert!End
  <2>2. /\ DOMAIN outputs' = {"summary", "probe_status", "env", "shard"}
        /\ outputs'.probe_status = IF ok THEN outputs.probe_status ELSE "failed"
    BY <2>1 DEF Alert!Merge, Alert!LegOutputs, FlowInv, OutputsOK,
           Alert!Unset
  <2>3. \A k \in failed' : k \in Legs /\ result'[k] = "failure"
    BY <1>4, <1>5, <2>1 DEF FlowInv, FailedOK, ResultOK
  <2> QED
    BY <2>1, <2>2, <2>3 DEF OutputsOK, FailedOK, FlowInv
<1>7. ASSUME Alert!NotExtracted(l) \/ Alert!TimesOut(l)
      PROVE  OutputsOK' /\ FailedOK' /\ failed \subseteq failed'
  <2>1. /\ outputs' \in {outputs, Alert!Merge(outputs, Alert!LegOutputs(l, TRUE))}
        /\ failed' = failed
    BY <1>7 DEF Alert!NotExtracted, Alert!TimesOut
  <2>2. /\ DOMAIN outputs' = {"summary", "probe_status", "env", "shard"}
        /\ outputs'.probe_status = outputs.probe_status
    BY <2>1 DEF Alert!Merge, Alert!LegOutputs, FlowInv, OutputsOK
  <2>3. \A k \in failed' : k \in Legs /\ result'[k] = "failure"
    BY <1>4, <1>5, <2>1 DEF FlowInv, FailedOK
  <2> QED
    BY <2>1, <2>2, <2>3 DEF OutputsOK, FailedOK, FlowInv
<1> QED
  BY <1>1, <1>3, <1>6, <1>7 DEF Alert!EndLeg

\* The page is sent when a leg has failed and one has put out a failed probe.
LEMMA PagerInv ==
  ASSUME FlowInv, Alert!Pager
  PROVE  OutputsOK' /\ FailedOK' /\ OverOK' /\ UNCHANGED <<result, failed>>
<1>1. /\ over' = TRUE /\ UNCHANGED <<test, result, outputs, failed>>
      /\ \A l \in Legs : result[l] \in Alert!Ended
      /\ page' = IF Alert!Pages THEN {outputs} ELSE {}
  BY DEF Alert!Pager
<1>2. failed # {} => Alert!Pages
  BY DEF FlowInv, FailedOK, Alert!Pages, Alert!Failure
<1>3. Alert!Pages => test \/ failed # {}
  BY DEF FlowInv, FailedOK, Alert!Pages, Alert!Unset
<1>4. OverOK'
  BY <1>1, <1>2, <1>3 DEF OverOK
<1> QED
  BY <1>1, <1>4 DEF FlowInv, OutputsOK, FailedOK

\* Every step of the leg, and of the rest, is one of the workflow, or none; and keeps
\* the invariant.
LEMMA NextFlow ==
  LegInv /\ FlowInv /\ [Next]_vars => FlowInv' /\ [Alert!Next]_(Alert!vars)
<1> SUFFICES ASSUME LegInv, FlowInv, [Next]_vars
             PROVE  FlowInv' /\ [Alert!Next]_(Alert!vars)
  OBVIOUS
<1> USE DEF Alert!vars
<1>1. leg \in Legs
  BY DEF LegInv, PcOK
<1>2. CASE Pull \/ PullFails \/ Disturb \/ Head \/ Write \/ TimesOut
  <2>1. ResultOK
    BY DEF FlowInv
  <2>2. CASE UNCHANGED flowVars /\ pc \in Running /\ pc' \in Running /\ leg' = leg
    BY <2>2 DEF FlowInv, ResultOK, OutputsOK, FailedOK, PanicOK, OverOK, LegStatus
  <2>3. CASE /\ leg' = leg
             /\ \/ Alert!Probed(leg, TRUE) /\ pc' = "ok"
                \/ Alert!Probed(leg, FALSE) /\ pc' = "panic"
                \/ Alert!NotExtracted(leg) /\ pc' = "no image"
                \/ Alert!TimesOut(leg) /\ pc' = "cancelled"
    <3>1. Alert!EndLeg(leg)
      BY <2>3 DEF Alert!EndLeg
    <3>2. OutputsOK' /\ FailedOK' /\ OverOK'
      BY <1>1, <3>1, EndLegInv
    <3>3. result' = [result EXCEPT ![leg] = LegStatus(pc')]
      BY <2>3 DEF Alert!Probed, Alert!NotExtracted, Alert!TimesOut, Alert!End, LegStatus
    <3>4. LegStatus(pc') \in Alert!Ended
      BY <2>3 DEF LegStatus
    <3>5. ResultOK'
      BY <1>1, <2>1, <2>3, <3>3, <3>4 DEF ResultOK
    <3>6. PanicOK'
      BY <2>3 DEF PanicOK, Alert!Probed
    <3>7. Alert!Next
      BY <1>1, <3>1 DEF Alert!Next
    <3> QED
      BY <3>2, <3>5, <3>6, <3>7 DEF FlowInv
  <2> QED
    BY <1>2, <2>1, <2>2, <2>3, LegStep
<1>3. CASE Elsewhere
  <2>1. pc' = pc /\ leg' = leg
    BY <1>3 DEF Elsewhere
  <2>2. ASSUME NEW l \in Legs \ {leg}, Alert!EndLeg(l) PROVE FlowInv' /\ Alert!Next
    <3>1. OutputsOK' /\ FailedOK' /\ OverOK' /\ failed \subseteq failed'
      BY <2>2, EndLegInv
    <3>2. PICK s \in Alert!Ended : result' = [result EXCEPT ![l] = s]
      BY <2>2, EndLegInv
    <3>3. ResultOK'
      BY <2>1, <3>2 DEF FlowInv, ResultOK
    <3>4. PanicOK'
      BY <2>1, <3>1 DEF FlowInv, PanicOK
    <3> QED
      BY <2>2, <3>1, <3>3, <3>4 DEF FlowInv, Alert!Next
  <2>3. ASSUME Alert!Pager PROVE FlowInv' /\ Alert!Next
    BY <2>1, <2>3, PagerInv DEF FlowInv, ResultOK, PanicOK, Alert!Next
  <2> QED
    BY <1>3, <2>2, <2>3 DEF Elsewhere
<1>4. CASE Done \/ UNCHANGED vars
  <2>1. UNCHANGED vars
    BY <1>4 DEF Done
  <2>2. ResultOK' /\ OutputsOK' /\ PanicOK'
    BY <2>1 DEF FlowInv, ResultOK, OutputsOK, PanicOK, LegStatus
  <2>3. FailedOK' /\ OverOK'
    BY <2>1 DEF FlowInv, FailedOK, OverOK
  <2> QED
    BY <2>1, <2>2, <2>3 DEF FlowInv
<1> QED
  BY <1>2, <1>3, <1>4 DEF Next

\* The workflow's invariant holds when its legs begin.
LEMMA InitFlow == Init => FlowInv
<1> SUFFICES ASSUME Init PROVE FlowInv
  OBVIOUS
<1>1. pc = "pull" /\ leg \in Legs /\ result = [l \in Legs |-> "running"]
  BY DEF Init, Alert!Init
<1>2. outputs = Alert!NoOutputs /\ failed = {} /\ over = FALSE /\ page = {}
  BY DEF Init, Alert!Init
<1>3. ResultOK
  BY <1>1 DEF ResultOK, LegStatus
<1> QED
  BY <1>1, <1>2, <1>3
  DEF FlowInv, OutputsOK, FailedOK, PanicOK, OverOK, Alert!NoOutputs

\* The workflow's invariant holds in every reachable state.
THEOREM FlowInvariance == Spec => []FlowInv
BY InitFlow, NextFlow, LegInvariance, PTL DEF Spec

\* A log that was found wanting is paged.
THEOREM SickLogIsPaged == Spec => []SickLogPaged
<1>1. LegInv /\ FlowInv => SickLogPaged
  BY DEF LegInv, SickPanics, FlowInv, PanicOK, OverOK, SickLogPaged
<1> QED
  BY <1>1, LegInvariance, FlowInvariance, PTL

\* Every probe that failed is paged, whichever leg ended last.
THEOREM FailedProbeIsPaged == Spec => []FailedProbePaged
<1>1. FlowInv => FailedProbePaged
  BY DEF FlowInv, OverOK, FailedProbePaged, Alert!FailedProbePaged
<1> QED
  BY <1>1, FlowInvariance, PTL

\* Nothing but a failed probe, or the test, is paged.
THEOREM PageIsFounded == Spec => []PagedOnlyForProbe
<1>1. FlowInv => PagedOnlyForProbe
  BY DEF FlowInv, OverOK, PagedOnlyForProbe, Alert!PagedOnlyForProbe
<1> QED
  BY <1>1, FlowInvariance, PTL

\* The page is for a log found wanting, in whatever order the legs end.
THEOREM PageIsSound == Spec => []PageSound
BY SickLogIsPaged, FailedProbeIsPaged, PageIsFounded, PTL DEF PageSound

\* A leg, with its requests, retries and time, is a leg of ctlog-sth.yml.
THEOREM ImplementsWorkflow == Spec => ImplementsAlert
<1>1. Init => Alert!Init
  BY DEF Init
<1> QED
  BY <1>1, NextFlow, LegInvariance, FlowInvariance, PTL
  DEF Spec, ImplementsAlert, Alert!Spec

-----------------------------------------------------------------------------
(* The time of the leg *)

\* What the pauses before the first n repetitions take.
Paused(n) == <<0, 1, 3, 7, 15, 31>>[n + 1]

\* The job's time bounds the clock, and the last attempt the count of failed ones.
ClockOK == /\ clock \in Nat /\ clock <= TimeoutSeconds /\ slow \in BOOLEAN
           /\ disturbed \in Nat /\ disturbed <= RetryMax + 1

\* As long as nothing took its time, the clock shows the image's and the pauses'.
PausesOK ==
  /\ pc = "cancelled" => slow
  /\ ~slow /\ pc = "pull" => clock = 0
  /\ ~slow /\ pc = "head" => \E d \in PullSeconds : clock = d + Paused(retries)
  /\ ~slow /\ pc = "write" =>
       \E d \in PullSeconds : clock <= d + Paused(RetryMax) + Paused(retries)

\* There is time for the image and all pauses of both requests.
TimeEnough == \A d \in PullSeconds : d + 2 * Paused(RetryMax) <= TimeoutSeconds

\* A pause adds to those before.
LEMMA PausesAdd ==
  /\ \A n \in 0..(RetryMax - 1) : Backoff(n) \in Nat /\ Paused(n + 1) = Paused(n) + Backoff(n)
  /\ \A n \in 0..RetryMax : Paused(n) \in 0..Paused(RetryMax)
  /\ Paused(0) = 0 /\ Paused(RetryMax) = 31
<1>1. /\ Paused(0) = 0 /\ Paused(1) = 1 /\ Paused(2) = 3 /\ Paused(3) = 7 /\ Paused(4) = 15
      /\ Paused(5) = 31
  BY DEF Paused
<1>2. /\ Backoff(0) = 1 /\ Backoff(1) = 2 /\ Backoff(2) = 4 /\ Backoff(3) = 8
      /\ Backoff(4) = 16
  BY DEF Backoff
<1>3. ASSUME NEW n \in 0..(RetryMax - 1)
      PROVE  Backoff(n) \in Nat /\ Paused(n + 1) = Paused(n) + Backoff(n)
  <2>1. n = 0 \/ n = 1 \/ n = 2 \/ n = 3 \/ n = 4
    BY <1>3
  <2> QED
    BY <1>1, <1>2, <2>1
<1>4. ASSUME NEW n \in 0..RetryMax PROVE Paused(n) \in 0..Paused(RetryMax)
  <2>1. n = 0 \/ n = 1 \/ n = 2 \/ n = 3 \/ n = 4 \/ n = 5
    BY <1>4
  <2> QED
    BY <1>1, <2>1
<1> QED
  BY <1>1, <1>3, <1>4

\* The clock stays within the job's time.
LEMMA NextClock == LegInv /\ ClockOK /\ [Next]_vars => ClockOK'
<1> SUFFICES ASSUME LegInv, ClockOK, [Next]_vars PROVE ClockOK'
  OBVIOUS
<1> USE CTLogAssumption
<1>1. CASE Pull
  BY <1>1 DEF ClockOK, Pull, Takes, Ask
<1>2. CASE Disturb
  <2>1. retries \in 0..RetryMax /\ disturbed = retries
    BY <1>2 DEF Disturb, LegInv, RetriesOK
  <2>2. PICK latency \in Latencies :
          /\ Takes(latency + IF MayRetry THEN Backoff(retries) ELSE 0)
          /\ slow' = (slow \/ latency > 0)
    BY <1>2 DEF Disturb
  <2>3. latency \in Nat /\ (MayRetry => Backoff(retries) \in Nat)
    BY <2>1, PausesAdd DEF Latencies, MayRetry
  <2>4. clock' \in Nat /\ clock' <= TimeoutSeconds
    BY <2>2, <2>3 DEF ClockOK, Takes
  <2>5. slow' \in BOOLEAN
    BY <2>2
  <2>6. disturbed' = disturbed + 1
    BY <1>2 DEF Disturb
  <2> QED
    BY <2>1, <2>4, <2>5, <2>6 DEF ClockOK
<1>3. CASE PullFails \/ Head \/ Write \/ Elsewhere \/ Done \/ UNCHANGED vars
  <2>1. clock' = clock /\ slow' = slow
    BY <1>3 DEF PullFails, Head, Write, Elsewhere, Done
  <2>2. disturbed' \in {0, disturbed}
    BY <1>3 DEF PullFails, Head, Write, Elsewhere, Done, Ask
  <2> QED
    BY <2>1, <2>2 DEF ClockOK
<1>4. CASE TimesOut
  <2>1. clock' = TimeoutSeconds /\ disturbed' = disturbed
    BY <1>4 DEF TimesOut
  <2>2. slow' \in BOOLEAN
    BY <1>4 DEF TimesOut
  <2> QED
    BY <2>1, <2>2 DEF ClockOK
<1> QED
  BY <1>1, <1>2, <1>3, <1>4 DEF Next

\* A leg that has time enough is cancelled only if something took its time.
LEMMA NextPauses ==
  TimeEnough /\ LegInv /\ ClockOK /\ PausesOK /\ [Next]_vars => PausesOK'
<1> SUFFICES ASSUME TimeEnough, LegInv, ClockOK, PausesOK, [Next]_vars PROVE PausesOK'
  OBVIOUS
<1> USE CTLogAssumption
<1>1. CASE Pull
  <2>1. PICK d \in PullSeconds : clock' = clock + d
    BY <1>1 DEF Pull, Takes
  <2>2. pc = "pull" /\ pc' = "head" /\ retries' = 0 /\ slow' = slow
    BY <1>1 DEF Pull, Ask
  <2>3. ~slow => clock' = d + Paused(0)
    BY <2>1, <2>2, PausesAdd DEF PausesOK
  <2> QED
    BY <2>2, <2>3 DEF PausesOK
<1>2. CASE Disturb
  <2>1. retries \in 0..RetryMax /\ pc \in {"head", "write"}
    BY <1>2 DEF Disturb, LegInv, RetriesOK
  <2>2. PICK latency \in Latencies :
          /\ clock' = clock + (latency + IF MayRetry THEN Backoff(retries) ELSE 0)
          /\ slow' = (slow \/ latency > 0)
    BY <1>2 DEF Disturb, Takes
  <2>3. CASE slow'
    BY <1>2, <2>1, <2>3 DEF PausesOK, Disturb, Exits, LegEnds
  <2>4. CASE ~slow' /\ ~MayRetry
    <3>1. pc' = "panic"
      BY <1>2, <2>4 DEF Disturb, Exits, LegEnds
    <3> QED
      BY <3>1 DEF PausesOK
  <2>5. CASE ~slow' /\ MayRetry
    <3>1. ~slow /\ latency = 0
      <4>1. ~(slow \/ latency > 0)
        BY <2>2, <2>5, Zenon
      <4> QED
        BY <4>1 DEF Latencies
    <3>2. pc' = pc /\ retries' = retries + 1
      BY <1>2, <2>5 DEF Disturb
    <3>3. retries \in 0..(RetryMax - 1)
      BY <2>1, <2>5 DEF MayRetry
    <3>4. clock' = clock + Backoff(retries) /\ Backoff(retries) \in Nat
      BY <2>2, <2>5, <3>1, <3>3, PausesAdd DEF ClockOK
    <3>5. /\ Paused(retries') = Paused(retries) + Backoff(retries)
          /\ Paused(retries) \in Nat /\ Paused(RetryMax) \in Nat
      BY <3>2, <3>3, PausesAdd
    <3>6. CASE pc = "head"
      <4>1. PICK d \in PullSeconds : clock = d + Paused(retries)
        BY <3>1, <3>6 DEF PausesOK
      <4>2. clock' = d + Paused(retries')
        BY <3>4, <3>5, <4>1
      <4> QED
        BY <3>2, <3>6, <4>2 DEF PausesOK
    <3>7. CASE pc = "write"
      <4>1. PICK d \in PullSeconds : clock <= d + Paused(RetryMax) + Paused(retries)
        BY <3>1, <3>7 DEF PausesOK
      <4>2. clock' <= d + Paused(RetryMax) + Paused(retries')
        BY <3>4, <3>5, <4>1 DEF ClockOK
      <4> QED
        BY <3>2, <3>7, <4>2 DEF PausesOK
    <3> QED
      BY <2>1, <3>6, <3>7
  <2> QED
    BY <2>3, <2>4, <2>5
<1>3. CASE Head
  <2>1. pc = "head" /\ clock' = clock /\ slow' = slow
    BY <1>3 DEF Head
  <2>2. pc' \in {"ok", "panic"} \/ (pc' = "write" /\ retries' = 0)
    BY <1>3 DEF Head, Exits, LegEnds, Ask
  <2>3. CASE pc' = "write" /\ retries' = 0 /\ ~slow
    <3>1. PICK d \in PullSeconds : clock = d + Paused(retries)
      BY <2>1, <2>3 DEF PausesOK
    <3>2. retries \in 0..RetryMax
      BY DEF LegInv, RetriesOK
    <3>3. clock' <= d + Paused(RetryMax) + Paused(retries')
      BY <2>1, <2>3, <3>1, <3>2, PausesAdd
    <3> QED
      BY <2>3, <3>3 DEF PausesOK
  <2> QED
    BY <2>1, <2>2, <2>3 DEF PausesOK
<1>4. CASE TimesOut
  <2>1. pc' = "cancelled"
    BY <1>4 DEF TimesOut, LegEnds
  <2>2. ASSUME ~slow, pc \in {"head", "write"}
        PROVE  ~(clock + 0 + (IF MayRetry THEN Backoff(retries) ELSE 0) > TimeoutSeconds)
    <3>1. retries \in 0..RetryMax
      BY DEF LegInv, RetriesOK
    <3>2. PICK d \in PullSeconds : clock <= d + Paused(RetryMax) + Paused(retries)
      <4>1. CASE pc = "head"
        BY <2>2, <3>1, <4>1, PausesAdd DEF PausesOK
      <4>2. CASE pc = "write"
        BY <2>2, <4>2 DEF PausesOK
      <4> QED
        BY <2>2, <4>1, <4>2
    <3>3. d \in Nat /\ d + 2 * Paused(RetryMax) <= TimeoutSeconds
      BY DEF TimeEnough
    <3>4. CASE MayRetry
      <4>1. retries \in 0..(RetryMax - 1) /\ retries + 1 \in 0..RetryMax
        BY <3>1, <3>4 DEF MayRetry
      <4>2. /\ Backoff(retries) \in Nat /\ Paused(retries) + Backoff(retries) <= Paused(RetryMax)
            /\ Paused(retries) \in Nat
        BY <3>1, <4>1, PausesAdd
      <4> QED
        BY <3>2, <3>3, <3>4, <4>2, PausesAdd DEF ClockOK
    <3>5. CASE ~MayRetry
      BY <3>1, <3>2, <3>3, <3>5, PausesAdd DEF ClockOK
    <3> QED
      BY <3>4, <3>5
  <2>3. slow'
    <3>1. CASE slow' = TRUE
      BY <3>1
    <3>2. ASSUME NEW latency \in Latencies, pc \in {"head", "write"},
                 clock + latency + (IF MayRetry THEN Backoff(retries) ELSE 0) > TimeoutSeconds,
                 slow' = (slow \/ latency > 0)
          PROVE  slow'
      <4>1. slow \/ latency > 0
        BY <2>2, <3>2 DEF Latencies
      <4> QED
        BY <3>2, <4>1, Zenon
    <3> QED
      BY <1>4, <3>1, <3>2 DEF TimesOut
  <2> QED
    BY <2>1, <2>3 DEF PausesOK
<1>5. CASE PullFails \/ Write
  <2>1. pc' \in {"no image", "panic", "ok"}
    BY <1>5 DEF PullFails, Write, Exits, LegEnds
  <2> QED
    BY <2>1 DEF PausesOK
<1>6. CASE Elsewhere \/ Done \/ UNCHANGED vars
  <2>1. UNCHANGED <<pc, retries, clock, slow>>
    BY <1>6 DEF Elsewhere, Done
  <2> QED
    BY <2>1 DEF PausesOK
<1> QED
  BY <1>1, <1>2, <1>3, <1>4, <1>5, <1>6 DEF Next

LEMMA InitClock == Init => ClockOK /\ PausesOK
<1> SUFFICES ASSUME Init PROVE ClockOK /\ PausesOK
  OBVIOUS
<1>1. pc = "pull" /\ clock = 0 /\ disturbed = 0 /\ slow \in BOOLEAN
  BY DEF Init
<1>2. ClockOK
  BY <1>1, CTLogAssumption DEF ClockOK
<1>3. PausesOK
  BY <1>1 DEF PausesOK
<1> QED
  BY <1>2, <1>3

\* The clock stays within the job's time.
THEOREM ClockInvariance == Spec => []ClockOK
BY InitClock, NextClock, LegInvariance, PTL DEF Spec

\* If the image leaves the time for all pauses, a log that answers or refuses at once
\* is judged by the probe, and not cut short.
THEOREM PromptIsJudged == ASSUME TimeEnough PROVE Spec => []PromptLogJudged
<1>1. LegInv /\ ClockOK /\ PausesOK /\ [Next]_vars => PausesOK'
  BY NextPauses
<1>2. Spec => []PausesOK
  BY <1>1, InitClock, LegInvariance, ClockInvariance, PTL DEF Spec
<1>3. PausesOK => PromptLogJudged
  BY DEF PausesOK, PromptLogJudged
<1> QED
  BY <1>2, <1>3, PTL

-----------------------------------------------------------------------------
(* Types *)

\* The page, if there is one, says what the legs have put out.
OutputsTyped ==
  outputs \in [summary : {Alert!Unset, "text"}, probe_status : {Alert!Unset, "failed"},
               env   : {Alert!Unset} \cup {l[1] : l \in Legs},
               shard : {Alert!Unset} \cup {l[2] : l \in Legs}]
PageTyped == test \in BOOLEAN /\ over \in BOOLEAN /\ page \subseteq {outputs}

\* The fields of the outputs, and outputs with such fields.
LEMMA OutputsFields ==
  ASSUME OutputsTyped
  PROVE  /\ outputs.summary \in {Alert!Unset, "text"}
         /\ outputs.probe_status \in {Alert!Unset, "failed"}
         /\ outputs.env \in {Alert!Unset} \cup {l[1] : l \in Legs}
         /\ outputs.shard \in {Alert!Unset} \cup {l[2] : l \in Legs}
         /\ DOMAIN outputs = {"summary", "probe_status", "env", "shard"}
BY DEF OutputsTyped

LEMMA FieldsOutputs ==
  ASSUME NEW text \in {Alert!Unset, "text"}, NEW status \in {Alert!Unset, "failed"},
         NEW e \in {Alert!Unset} \cup {l[1] : l \in Legs},
         NEW s \in {Alert!Unset} \cup {l[2] : l \in Legs},
         outputs' = [summary |-> text, probe_status |-> status, env |-> e, shard |-> s]
  PROVE  OutputsTyped'
BY DEF OutputsTyped

\* A leg's outputs replace others field by field.
LEMMA MergeTyped ==
  ASSUME OutputsTyped, NEW k \in Legs, NEW ok \in BOOLEAN,
         outputs' = Alert!Merge(outputs, Alert!LegOutputs(k, ok))
  PROVE  OutputsTyped'
<1> DEFINE new == Alert!LegOutputs(k, ok)
<1>1. /\ new.summary = "text" /\ new.probe_status \in {Alert!Unset, "failed"}
      /\ new.env \in {l[1] : l \in Legs} /\ new.shard \in {l[2] : l \in Legs}
  BY DEF Alert!LegOutputs
<1>2. outputs' = [f \in {"summary", "probe_status", "env", "shard"} |->
                   IF new[f] = Alert!Unset THEN outputs[f] ELSE new[f]]
  BY OutputsFields DEF Alert!Merge
<1> HIDE DEF new
<1> DEFINE field(f) == IF new[f] = Alert!Unset THEN outputs[f] ELSE new[f]
<1>3. /\ field("summary") \in {Alert!Unset, "text"}
      /\ field("probe_status") \in {Alert!Unset, "failed"}
      /\ field("env") \in {Alert!Unset} \cup {l[1] : l \in Legs}
      /\ field("shard") \in {Alert!Unset} \cup {l[2] : l \in Legs}
  BY <1>1, OutputsFields
<1>4. outputs' = [summary |-> field("summary"), probe_status |-> field("probe_status"),
                  env |-> field("env"), shard |-> field("shard")]
  BY <1>2
<1> HIDE DEF field
<1> QED
  BY <1>3, <1>4, FieldsOutputs

\* The workflow's steps keep the types of its outputs and of the page.
LEMMA NextPage ==
  ASSUME FlowInv, OutputsTyped, PageTyped, [Alert!Next]_(Alert!vars)
  PROVE  OutputsTyped' /\ PageTyped'
<1>1. ASSUME NEW l \in Legs, Alert!EndLeg(l) PROVE OutputsTyped' /\ PageTyped'
  <2>1. result[l] = "running" /\ UNCHANGED <<test, over, page>>
    BY <1>1 DEF Alert!EndLeg, Alert!Probed, Alert!NotExtracted, Alert!TimesOut, Alert!End
  <2>2. page = {}
    BY <2>1 DEF FlowInv, OverOK
  <2>3. \/ outputs' = outputs
        \/ \E ok \in BOOLEAN : outputs' = Alert!Merge(outputs, Alert!LegOutputs(l, ok))
    BY <1>1 DEF Alert!EndLeg, Alert!Probed, Alert!NotExtracted, Alert!TimesOut
  <2>4. OutputsTyped'
    BY <2>3, MergeTyped DEF OutputsTyped
  <2> QED
    BY <2>1, <2>2, <2>4 DEF PageTyped
<1>2. CASE Alert!Pager
  <2>1. over' = TRUE /\ page' \subseteq {outputs} /\ outputs' = outputs /\ test' = test
    BY <1>2 DEF Alert!Pager
  <2> QED
    BY <2>1 DEF OutputsTyped, PageTyped
<1>3. CASE Alert!Done \/ UNCHANGED Alert!vars
  BY <1>3 DEF Alert!Done, Alert!vars, OutputsTyped, PageTyped
<1> QED
  BY <1>1, <1>2, <1>3 DEF Alert!Next

\* Types; a request is repeated at most RetryMax times, in the time of the job.
THEOREM TypeCorrect == Spec => []TypeOK
<1>1. Init => OutputsTyped /\ PageTyped
  <2> SUFFICES ASSUME Init PROVE OutputsTyped /\ PageTyped
    OBVIOUS
  <2>1. outputs = Alert!NoOutputs /\ test \in BOOLEAN /\ over = FALSE /\ page = {}
    BY DEF Init, Alert!Init
  <2> QED
    BY <2>1 DEF OutputsTyped, PageTyped, Alert!NoOutputs
<1>2. /\ LegInv /\ FlowInv /\ OutputsTyped /\ PageTyped /\ [Next]_vars
      => OutputsTyped' /\ PageTyped'
  BY NextFlow, NextPage
<1>3. LegInv /\ FlowInv /\ ClockOK /\ OutputsTyped /\ PageTyped => TypeOK
  <2> SUFFICES ASSUME LegInv, FlowInv, ClockOK, OutputsTyped, PageTyped PROVE TypeOK
    OBVIOUS
  <2>1. Alert!TypeOK
    BY DEF FlowInv, FailedOK, ResultOK, OutputsTyped, PageTyped, Alert!TypeOK
  <2>2. leg \in Legs /\ result[leg] = LegStatus(pc)
    BY DEF LegInv, PcOK, FlowInv, ResultOK
  <2>3. pc \in {"pull", "head", "write", "ok", "panic", "no image", "cancelled"}
    BY DEF LegInv, PcOK
  <2>4. /\ retries \in 0..RetryMax /\ disturbed \in 0..(RetryMax + 1) /\ clock \in 0..TimeoutSeconds
        /\ slow \in BOOLEAN
    BY CTLogAssumption DEF LegInv, RetriesOK, ClockOK
  <2>5. answers \in [{"head", "write"} -> {"none", "good", "bad", "cut"}]
    BY DEF LegInv, AnswersOK
  <2> QED
    BY <2>1, <2>2, <2>3, <2>4, <2>5 DEF TypeOK
<1> QED
  BY <1>1, <1>2, <1>3, LegInvariance, FlowInvariance, ClockInvariance, PTL DEF Spec
=============================================================================
