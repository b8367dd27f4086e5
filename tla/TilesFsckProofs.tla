---------------------------- MODULE TilesFsckProofs ----------------------------
(***************************************************************************)
(* What TilesFsck promises of its exit status and of the error it reports, *)
(* for any set of logs.  A log whose check was cancelled fails too; that   *)
(* its error is never the one reported rests on the order in which the     *)
(* errgroup works: what is cancelled has an error already.                 *)
(***************************************************************************)
EXTENDS TilesFsck, TLAPS

\* Before the loop nothing has happened.
Fresh == main = "load" => todo = Logs /\ task = [l \in Logs |-> "none"]

\* The loop starts a goroutine for the logs that are neither v1 nor without URL, and
\* passes over no other.
Covered ==
  \A l \in Logs :
    /\ task[l] # "none" => l \notin todo /\ health[l] \notin {"v1", "no URL"}
    /\ l \notin todo => \/ task[l] # "none" \/ health[l] = "v1"
                        \/ health[l] = "no URL" /\ main = "exit 1"

\* A goroutine that is done without an error has found its log consistent.
Judged == \A l \in Logs : task[l] = "done" => err # {} \/ health[l] = "consistent"

\* The errgroup's error is that of a faulty log, and comes before the cancellation.
FirstError == /\ cancelled => err # {}
              /\ \A l \in err : health[l] \in Faulty

\* What is known once main waits, and once it has exited.
Waited ==
  /\ main \in {"wait", "exit 0"} => todo = {}
  /\ main = "exit 0" => err = {}

IInv == TypeOK /\ Fresh /\ Covered /\ Judged /\ FirstError /\ Waited
          /\ ReportedIsAtFault /\ WaitsForAll

USE DEF vars

-----------------------------------------------------------------------------

\* The invariant holds before main has loaded anything.
LEMMA InitInv == Init => IInv
BY DEF Init, IInv, TypeOK, Fresh, Covered, Judged, FirstError, Waited,
       ReportedIsAtFault, WaitsForAll

\* An error of the goroutine of l, whose log is faulty or whose check was cancelled,
\* keeps the invariant.
LEMMA FailsInv ==
  ASSUME IInv, NEW l \in Logs, Running, task[l] \in {"verifier", "check"},
         health[l] \in Faulty \/ cancelled, Fails(l)
  PROVE  IInv'
<1> USE DEF Fails, KeepsError, Cancels, Running
<1>1. err' # {} /\ \A k \in err' : health'[k] \in Faulty
  BY DEF IInv, FirstError, TypeOK
<1>2. /\ UNCHANGED <<health, main, todo, reported>> /\ cancelled' = TRUE
      /\ task' = [task EXCEPT ![l] = "done"] /\ err' \in {{}} \cup {{k} : k \in Logs}
  BY DEF IInv, TypeOK
<1>3. TypeOK'
  BY <1>2 DEF IInv, TypeOK
<1>4. Covered' /\ Fresh'
  BY <1>2 DEF IInv, TypeOK, Covered, Fresh
<1>5. Judged' /\ FirstError' /\ Waited' /\ ReportedIsAtFault'
  BY <1>1, <1>2 DEF IInv, Judged, FirstError, Waited, ReportedIsAtFault
<1>6. WaitsForAll'
  BY <1>2 DEF IInv, WaitsForAll
<1> QED
  BY <1>3, <1>4, <1>5, <1>6 DEF IInv

\* Every step keeps the invariant.
LEMMA NextInv == IInv /\ [Next]_vars => IInv'
<1> SUFFICES ASSUME IInv, [Next]_vars PROVE IInv'
  OBVIOUS
<1> USE DEF IInv, TypeOK, Fresh, Covered, Judged, FirstError, Waited,
            ReportedIsAtFault, WaitsForAll
<1>1. CASE LoadFails
  BY <1>1 DEF LoadFails
<1>2. CASE Load
  BY <1>2 DEF Load
<1>3. ASSUME NEW l \in Logs, SkipV1(l) PROVE IInv'
  BY <1>3 DEF SkipV1, Reach, ListedV1
<1>4. ASSUME NEW l \in Logs, ParseFails(l) PROVE IInv'
  BY <1>4 DEF ParseFails, Reach
<1>5. ASSUME NEW l \in Logs, Go(l) PROVE IInv'
  BY <1>5 DEF Go, Reach, ListedV1
<1>6. CASE RangeEnds
  BY <1>6 DEF RangeEnds
<1>7. CASE Wait
  BY <1>7 DEF Wait, WaitReturns
<1>8. ASSUME NEW l \in Logs, VerifierFails(l) PROVE IInv'
  <2>1. health[l] \in Faulty /\ Running /\ task[l] \in {"verifier", "check"} /\ Fails(l)
    BY <1>8 DEF VerifierFails, Faulty
  <2> QED
    BY <2>1, FailsInv
<1>9. ASSUME NEW l \in Logs, Verifier(l) PROVE IInv'
  BY <1>9 DEF Verifier, Running
<1>10. ASSUME NEW l \in Logs, Consistent(l) PROVE IInv'
  BY <1>10 DEF Consistent, Running
<1>11. ASSUME NEW l \in Logs, Check(l) PROVE IInv'
  <2>1. /\ Running /\ task[l] \in {"verifier", "check"} /\ Fails(l)
        /\ health[l] \in Faulty \/ cancelled
    BY <1>11 DEF Check, Faulty
  <2> QED
    BY <2>1, FailsInv
<1>12. CASE UNCHANGED vars
  BY <1>12
<1>13. CASE \E l \in Logs : Waiting(l)
  BY <1>13, <1>12 DEF Waiting
<1>14. CASE Done
  BY <1>14, <1>12 DEF Done
<1> QED
  BY <1>1, <1>2, <1>3, <1>4, <1>5, <1>6, <1>7, <1>8, <1>9, <1>10, <1>11, <1>12,
     <1>13, <1>14 DEF Next, Range, Task

\* The inductive invariant holds in every reachable state.
THEOREM Invariance == Spec => []IInv
BY InitInv, NextInv, PTL DEF Spec

\* Types; the errgroup keeps one error at most.
THEOREM TypeCorrect == Spec => []TypeOK
<1>1. IInv => TypeOK
  BY DEF IInv
<1> QED
  BY <1>1, Invariance, PTL

\* Exit 0: every log that is not v1 was found consistent.
THEOREM ExitZeroIsSound == Spec => []ExitZeroMeansChecked
<1>1. IInv => ExitZeroMeansChecked
  BY DEF IInv, Waited, Covered, Judged, WaitsForAll, ExitZeroMeansChecked,
         ReportedIsAtFault, TypeOK
<1> QED
  BY <1>1, Invariance, PTL

\* The error reported is that of a log at fault, not of one whose check was cancelled.
THEOREM ReportIsSound == Spec => []ReportedIsAtFault
<1>1. IInv => ReportedIsAtFault
  BY DEF IInv
<1> QED
  BY <1>1, Invariance, PTL

\* main leaves no goroutine behind but when a URL does not parse.
THEOREM NothingLeftBehind == Spec => []WaitsForAll
<1>1. IInv => WaitsForAll
  BY DEF IInv
<1> QED
  BY <1>1, Invariance, PTL
=============================================================================
