--------------------------- MODULE RateLimitProofs ---------------------------
(***************************************************************************)
(* The verdict of rateLimit() is right for every limit and every number of *)
(* connections.  The inductive invariant balances the books: the counter   *)
(* of the WaitGroup is the jobs that no worker has taken plus the Dones    *)
(* that the workers have deferred (WgBalance), so a counter of zero leaves *)
(* no worker with a request, and no request is lost (JobBalance).          *)
(*                                                                         *)
(* The second part is about main, for which the WaitGroup counts the       *)
(* goroutines that are under way (Goroutines).                             *)
(***************************************************************************)
EXTENDS RateLimit, RateLimitMain, FiniteSetTheorems, TLAPS

Current(w) == IF Busy(w) THEN 1 ELSE 0

\* A job is counted by wg from before it is sent to after it is over.
WgBalance ==
  wg = jobs + deferred[1] + deferred[2] + deferred[3]
         + (IF producer = "send" THEN 1 ELSE 0)

JobBalance == i = jobs + Current(1) + Current(2) + Current(3) + answered

\* A worker with a request has deferred its Done; one that returned has none left.
Deferrals ==
  \A w \in Workers : /\ Busy(w) => deferred[w] > 0
                     /\ worker[w] = "returned" => deferred[w] = 0 /\ jobs = 0 /\ JobsClosed

\* The producer stopped for one of its two reasons, and waits for wg to be zero.
Progress ==
  /\ producer = "send" => i < Limit
  /\ wg <= i + (IF producer = "send" THEN 1 ELSE 0)
  /\ JobsClosed => LoopEnds
  /\ producer \in {"report", "done"} => wg = 0
  /\ producer = "done" => result = (IF rateLimited THEN "nil" ELSE "error")
  /\ rateLimited <=> refused

IInv == TypeOK /\ WgBalance /\ JobBalance /\ Deferrals /\ Progress

-----------------------------------------------------------------------------

USE DEF Workers, queueVars, workerVars, verdictVars

\* rateLimit() starts in the inductive invariant.
THEOREM InitIInv == Init => IInv
<1> SUFFICES ASSUME Init PROVE IInv
  OBVIOUS
<1>1. /\ producer \in {"loop", "send", "wait", "report", "done"}
      /\ rateLimited \in BOOLEAN /\ refused \in BOOLEAN
      /\ result \in {"none", "nil", "error"}
  BY DEF Init
<1>2. /\ i \in 0..Limit /\ jobs \in 0..Limit /\ answered \in 0..Limit
      /\ wg \in 0..Limit /\ errCount \in Nat /\ multiplexed \in BOOLEAN /\ leaked \in Nat
      /\ worker \in [Workers -> {"idle", "dial", "request", "body", "returned"}]
      /\ deferred \in [Workers -> 0..Limit]
  BY RateLimitAssumption DEF Init
<1>3. WgBalance /\ JobBalance /\ Deferrals
  BY DEF Init, WgBalance, JobBalance, Deferrals, Current, Busy
<1>4. Progress
  BY DEF Init, Progress, JobsClosed
<1> QED
  BY <1>1, <1>2, <1>3, <1>4 DEF IInv, TypeOK

\* A worker's deferred Dones are part of the counter.
LEMMA OwnDeferred ==
  ASSUME TypeOK, WgBalance, NEW w \in Workers
  PROVE  deferred[w] \in 0..wg
BY DEF TypeOK, WgBalance

\* Every step of rateLimit() and of its workers keeps the inductive invariant.
LEMMA StepIInv == IInv /\ [Next]_vars => IInv'
<1> SUFFICES ASSUME IInv, [Next]_vars PROVE IInv'
  OBVIOUS
<1>1. CASE Loop
  BY <1>1, RateLimitAssumption
  DEF Loop, IInv, TypeOK, WgBalance, JobBalance, Deferrals, Progress, Current, Busy,
      LoopEnds, JobsClosed
<1>2. CASE Send
  BY <1>2, RateLimitAssumption
  DEF Send, IInv, TypeOK, WgBalance, JobBalance, Deferrals, Progress, Current, Busy,
      JobsClosed
<1>3. CASE CloseJobs
  BY <1>3
  DEF CloseJobs, IInv, TypeOK, WgBalance, JobBalance, Deferrals, Progress, Current,
      Busy, LoopEnds, JobsClosed
<1>4. CASE WaitReturns
  BY <1>4
  DEF WaitReturns, IInv, TypeOK, WgBalance, JobBalance, Deferrals, Progress,
      Current, Busy, LoopEnds, JobsClosed
<1>5. CASE Report
  BY <1>5
  DEF Report, IInv, TypeOK, WgBalance, JobBalance, Deferrals, Progress, Current,
      Busy, LoopEnds, JobsClosed
<1>6. ASSUME NEW w \in Workers, Take(w) PROVE IInv'
  BY <1>6, RateLimitAssumption
  DEF Take, DeferDone, IInv, TypeOK, WgBalance, JobBalance, Deferrals, Progress,
      Current, Busy, LoopEnds, JobsClosed
<1>7. ASSUME NEW w \in Workers, Connect(w) PROVE IInv'
  BY <1>7
  DEF Connect, IInv, TypeOK, WgBalance, JobBalance, Deferrals, Progress, Current,
      Busy, LoopEnds, JobsClosed
<1>8. ASSUME NEW w \in Workers, RequestFails(w) PROVE IInv'
  BY <1>8, RateLimitAssumption
  DEF RequestFails, JobOver, IInv, TypeOK, WgBalance, JobBalance, Deferrals,
      Progress, Current, Busy, LoopEnds, JobsClosed
<1>9. ASSUME NEW w \in Workers, OtherAnswer(w) PROVE IInv'
  BY <1>9, RateLimitAssumption
  DEF OtherAnswer, JobOver, IInv, TypeOK, WgBalance, JobBalance, Deferrals,
      Progress, Current, Busy, LoopEnds, JobsClosed
<1>10. ASSUME NEW w \in Workers, Answer429(w) PROVE IInv'
  BY <1>10
  DEF Answer429, IInv, TypeOK, WgBalance, JobBalance, Deferrals, Progress, Current,
      Busy, LoopEnds, JobsClosed
<1>11. ASSUME NEW w \in Workers, Read429(w) PROVE IInv'
  <2>1. TypeOK'
    <3>1. /\ errCount' \in Nat
          /\ worker' \in [Workers -> {"idle", "dial", "request", "body", "returned"}]
      BY <1>11 DEF Read429, JobOver, IInv, TypeOK
    <3>2. answered' \in 0..Limit
      BY <1>11, RateLimitAssumption
      DEF Read429, JobOver, IInv, TypeOK, JobBalance, Current, Busy
    <3> QED
      BY <1>11, <3>1, <3>2 DEF Read429, IInv, TypeOK
  <2>2. WgBalance'
    BY <1>11 DEF Read429, IInv, WgBalance
  <2>3. JobBalance'
    BY <1>11 DEF Read429, JobOver, IInv, TypeOK, JobBalance, Current, Busy
  <2>4. Deferrals'
    BY <1>11 DEF Read429, JobOver, IInv, Deferrals, Busy, JobsClosed
  <2>5. Progress'
    BY <1>11
    DEF Read429, IInv, TypeOK, WgBalance, JobBalance, Deferrals, Progress, Busy,
        LoopEnds, JobsClosed
  <2> QED
    BY <2>1, <2>2, <2>3, <2>4, <2>5 DEF IInv
<1>12. ASSUME NEW w \in Workers, Return(w) PROVE IInv'
  <2>1. TypeOK'
    BY <1>12, RateLimitAssumption DEF Return, IInv, TypeOK, WgBalance, Deferrals
  <2>2. WgBalance'
    BY <1>12 DEF Return, IInv, TypeOK, WgBalance
  <2>3. JobBalance'
    BY <1>12 DEF Return, IInv, JobBalance, Current, Busy
  <2>4. Deferrals'
    BY <1>12 DEF Return, IInv, TypeOK, Deferrals, Busy, JobsClosed
  <2>5. Progress'
    <3>1. wg' <= wg /\ (wg = 0 => wg' = 0)
      BY <1>12, OwnDeferred DEF Return, IInv, TypeOK
    <3>2. UNCHANGED <<producer, i, rateLimited, refused, result>>
      BY <1>12 DEF Return
    <3>3. i \in Nat /\ wg \in Nat /\ wg' \in Nat
      BY <2>1 DEF IInv, TypeOK
    <3> QED
      BY <3>1, <3>2, <3>3 DEF IInv, Progress, LoopEnds, JobsClosed
  <2> QED
    BY <2>1, <2>2, <2>3, <2>4, <2>5 DEF IInv
<1>13. CASE Done \/ UNCHANGED vars
  <2>1. UNCHANGED vars
    BY <1>13 DEF Done
  <2>2. TypeOK' /\ Deferrals'
    BY <2>1 DEF vars, IInv, TypeOK, Deferrals, Busy, JobsClosed
  <2>3. WgBalance' /\ JobBalance'
    BY <2>1 DEF vars, IInv, WgBalance, JobBalance, Current, Busy
  <2>4. Progress'
    BY <2>1 DEF vars, IInv, Progress, LoopEnds, JobsClosed
  <2> QED
    BY <2>2, <2>3, <2>4 DEF IInv
<1> QED
  BY <1>1, <1>2, <1>3, <1>4, <1>5, <1>6, <1>7, <1>8, <1>9, <1>10, <1>11, <1>12,
     <1>13
  DEF Next, Producer, Worker

-----------------------------------------------------------------------------

\* The inductive invariant holds in every reachable state.
THEOREM Invariance == Spec => []IInv
<1>1. Init => IInv
  BY InitIInv
<1>2. IInv /\ [Next]_vars => IInv'
  BY StepIInv
<1> QED
  BY <1>1, <1>2, PTL DEF Spec

\* The WaitGroup's counter is never negative, and no variable leaves its type.
THEOREM TypeCorrect == Spec => []TypeOK
<1>1. IInv => TypeOK
  BY DEF IInv
<1> QED
  BY <1>1, Invariance, PTL

\* rateLimit() returns nil exactly if a worker read a refusal for rate.
THEOREM VerdictIsSound == Spec => []VerdictSound
<1>1. IInv => VerdictSound
  BY DEF IInv, Progress, VerdictSound
<1> QED
  BY <1>1, Invariance, PTL

\* A verdict leaves no request behind, and an error comes after all Limit requests.
THEOREM ErrorIsLast == Spec => []ErrorOnlyAfterAll
<1>1. ASSUME IInv, producer = "done"
      PROVE  jobs = 0 /\ \A w \in Workers : Current(w) = 0
  <2>1. \A w \in Workers : deferred[w] = 0
    BY <1>1, OwnDeferred DEF IInv, Progress
  <2>2. jobs = 0
    BY <1>1 DEF IInv, TypeOK, WgBalance, Progress
  <2> QED
    BY <1>1, <2>1, <2>2 DEF IInv, Deferrals, Current
<1>2. IInv => ErrorOnlyAfterAll
  BY <1>1
  DEF IInv, TypeOK, JobBalance, Progress, LoopEnds, JobsClosed, ErrorOnlyAfterAll
<1> QED
  BY <1>2, Invariance, PTL

\* What rateLimit() returns is right, and does not come before it is due.
THEOREM ReturnIsSound == Spec => []ReturnSound
BY VerdictIsSound, ErrorIsLast, PTL DEF ReturnSound

\* After wg.Wait() the flag and the counter are rateLimit()'s alone to read.
THEOREM WorkersAreQuiet == Spec => QuietAfterWait
<1>1. ASSUME IInv, [Next]_vars, producer \in {"report", "done"}
      PROVE  UNCHANGED <<rateLimited, errCount>>
  <2>1. \A w \in Workers : ~Busy(w)
    BY <1>1, OwnDeferred DEF IInv, Deferrals, Progress
  <2>2. ASSUME NEW w \in Workers PROVE ~RequestFails(w) /\ ~Read429(w)
    BY <2>1 DEF RequestFails, Read429, Busy
  <2> QED
    BY <1>1, <2>2
    DEF Next, Producer, Worker, Loop, Send, CloseJobs, WaitReturns, Report, Take,
        Connect, OtherAnswer, Answer429, Return, Done, vars
<1> QED
  BY <1>1, Invariance, PTL DEF Spec, QuietAfterWait

-----------------------------------------------------------------------------
(* main *)

\* Goroutines that were started and have not ended.
Going == {u \in URLs : task[u] \in {"run", "send"}}

\* Services that do not limit requests and whose goroutine has sent its error.
Unlimited == {u \in URLs \ limits : task[u] = "done"}

\* The WaitGroup counts the goroutines that are under way, and every error that was
\* sent is in the channel or printed.
Goroutines ==
  /\ limits \subseteq URLs /\ malformed \subseteq URLs \ limits
  /\ task \in [URLs -> {"none", "run", "send", "done"}]
  /\ todo = {u \in URLs : task[u] = "none"}
  /\ mainWg = Cardinality(Going)
  /\ errs \cup printed = Unlimited
  /\ \A u \in URLs : task[u] = "send" => u \notin limits

\* main goes by the goroutines: it starts all or none, and drains the channel when all
\* have ended.
MainProgress ==
  /\ main \in {"select", "start", "wait", "drain"} \cup Ends
  /\ main = "select" => todo = URLs
  /\ main \in {"wait", "drain"} => todo = {}
  /\ main \in {"drain", "exit 0", "exit 1"} => Going = {}

GoInv == Goroutines /\ MainProgress /\ ExitCodeSound

USE DEF Capacity, Adds, WaitOver, Ends, targets, runVars

-----------------------------------------------------------------------------

\* The URLs are finitely many, and so are the goroutines.
LEMMA FiniteURLs ==
  ASSUME NEW S \in SUBSET URLs
  PROVE  IsFiniteSet(S) /\ Cardinality(S) \in Nat /\ Cardinality(S) <= Cardinality(URLs)
<1>1. IsFiniteSet({"rekor v1", "rekor v2", "fulcio", "tsa"})
  <2>1. IsFiniteSet({"rekor v1"})
    BY FS_Singleton
  <2>2. IsFiniteSet({"rekor v1"} \cup {"rekor v2"})
    BY <2>1, FS_AddElement
  <2>3. IsFiniteSet({"rekor v1"} \cup {"rekor v2"} \cup {"fulcio"})
    BY <2>2, FS_AddElement
  <2>4. IsFiniteSet({"rekor v1"} \cup {"rekor v2"} \cup {"fulcio"} \cup {"tsa"})
    BY <2>3, FS_AddElement
  <2>5. {"rekor v1"} \cup {"rekor v2"} \cup {"fulcio"} \cup {"tsa"} =
          {"rekor v1", "rekor v2", "fulcio", "tsa"}
    OBVIOUS
  <2> QED
    BY <2>4, <2>5
<1>2. IsFiniteSet(URLs)
  BY <1>1 DEF URLs
<1> QED
  BY <1>2, FS_Subset, FS_CardinalityType

\* A goroutine that ends, with or without an error, is one less under way.
LEMMA OneLess ==
  ASSUME Goroutines, NEW u \in Going, task' = [task EXCEPT ![u] = "done"]
  PROVE  /\ Going' = Going \ {u} /\ Cardinality(Going') = mainWg - 1
         /\ Unlimited' = Unlimited \cup ({u} \ limits') \/ limits' # limits
         /\ {v \in URLs : task'[v] = "none"} = todo
<1>1. Going' = Going \ {u}
  BY DEF Going, Goroutines
<1>2. Going \in SUBSET URLs /\ mainWg = Cardinality(Going)
  BY DEF Going, Goroutines
<1>3. Cardinality(Going \ {u}) = Cardinality(Going) - 1
  BY <1>2, FiniteURLs, FS_RemoveElement
<1> QED
  BY <1>1, <1>2, <1>3 DEF Going, Goroutines, Unlimited

\* main() starts with no goroutine.
LEMMA InitGo == MainInit => GoInv
<1> SUFFICES ASSUME MainInit PROVE GoInv
  OBVIOUS
<1>1. /\ limits \subseteq URLs /\ malformed \subseteq URLs \ limits
      /\ main = "select" /\ todo = URLs
      /\ task = [u \in URLs |-> "none"] /\ mainWg = 0 /\ errs = {} /\ printed = {}
  BY DEF MainInit
<1>2. Going = {} /\ Unlimited = {}
  BY <1>1 DEF Going, Unlimited
<1>3. Goroutines
  BY <1>1, <1>2, FS_EmptySet DEF Goroutines
<1> QED
  BY <1>1, <1>2, <1>3 DEF GoInv, MainProgress, ExitCodeSound

\* Every step of main, of its goroutines and of the runner keeps the invariant.
LEMMA NextGo == GoInv /\ [MainNext]_mainVars => GoInv'
<1> SUFFICES ASSUME GoInv, [MainNext]_mainVars PROVE GoInv'
  OBVIOUS
<1> USE DEF GoInv, Alive
<1>1. CASE SelectFails
  <2>1. main = "select" /\ main' = "exit 1" /\ UNCHANGED <<targets, runVars>>
    BY <1>1 DEF SelectFails, Exit
  <2>2. todo # {}
    BY <2>1 DEF MainProgress, URLs
  <2> QED
    BY <2>1, <2>2 DEF Goroutines, MainProgress, ExitCodeSound, Going, Unlimited
<1>2. CASE Select \/ Started
  BY <1>2 DEF Select, Started, Goroutines, MainProgress, ExitCodeSound, Going, Unlimited
<1>3. CASE Wait
  <2>1. /\ main = "wait" /\ mainWg = 0 /\ main' = "drain" /\ UNCHANGED <<targets, runVars>>
    BY <1>3 DEF Wait
  <2>2. Going \in SUBSET URLs /\ Cardinality(Going) = 0
    BY <2>1 DEF Going, Goroutines
  <2>3. Going = {}
    BY <2>2, FiniteURLs, FS_EmptySet
  <2> QED
    BY <2>1, <2>3 DEF Goroutines, MainProgress, ExitCodeSound, Going, Unlimited
<1>4. CASE MainReturns
  <2>1. /\ main = "drain" /\ errs = {} /\ main' = ExitCode /\ UNCHANGED <<targets, runVars>>
    BY <1>4 DEF MainReturns, Exit
  <2>2. \A u \in URLs : task[u] = "done"
    BY <2>1 DEF Goroutines, MainProgress, Going
  <2>3. printed = URLs \ limits /\ todo = {}
    BY <2>1, <2>2 DEF Goroutines, MainProgress, Unlimited
  <2>4. ExitCodeSound'
    BY <2>1, <2>3 DEF ExitCodeSound, ExitCode, Goroutines
  <2> QED
    BY <2>1, <2>4 DEF Goroutines, MainProgress, ExitCode, Going, Unlimited
<1>5. ASSUME NEW u \in URLs, Start(u) PROVE GoInv'
  <2>1. /\ main = "start" /\ u \in todo /\ todo' = todo \ {u} /\ mainWg' = mainWg + 1
        /\ task' = [task EXCEPT ![u] = "run"] /\ UNCHANGED <<targets, main, errs, printed>>
    BY <1>5 DEF Start
  <2>2. Going' = Going \cup {u} /\ u \notin Going /\ Unlimited' = Unlimited
    BY <2>1 DEF Goroutines, Going, Unlimited
  <2>3. Going \in SUBSET URLs
    BY DEF Going
  <2>4. Cardinality(Going') = Cardinality(Going) + 1
    BY <2>2, <2>3, FiniteURLs, FS_AddElement
  <2> QED
    BY <2>1, <2>2, <2>4 DEF Goroutines, MainProgress, ExitCodeSound
<1>6. ASSUME NEW u \in URLs, Verdict(u) PROVE GoInv'
  <2>1. task[u] = "run" /\ u \in Going /\ UNCHANGED <<targets, main, todo, errs, printed>>
    BY <1>6 DEF Verdict, Going
  <2>2. CASE u \in limits
    <3>1. task' = [task EXCEPT ![u] = "done"] /\ mainWg' = mainWg - 1
      BY <1>6, <2>2 DEF Verdict
    <3>2. /\ Going' = Going \ {u} /\ Cardinality(Going') = mainWg - 1
          /\ Unlimited' = Unlimited /\ {v \in URLs : task'[v] = "none"} = todo
      BY <2>1, <2>2, <3>1, OneLess
    <3> QED
      BY <2>1, <3>1, <3>2 DEF Goroutines, MainProgress, ExitCodeSound
  <2>3. CASE u \notin limits
    <3>1. task' = [task EXCEPT ![u] = "send"] /\ mainWg' = mainWg
      BY <1>6, <2>3 DEF Verdict
    <3>2. Going' = Going /\ Unlimited' = Unlimited
      BY <2>1, <3>1 DEF Goroutines, Going, Unlimited
    <3> QED
      BY <2>1, <2>3, <3>1, <3>2 DEF Goroutines, MainProgress, ExitCodeSound
  <2> QED
    BY <2>2, <2>3
<1>7. ASSUME NEW u \in URLs, SendError(u) PROVE GoInv'
  <2>1. /\ task[u] = "send" /\ u \in Going /\ errs' = errs \cup {u}
        /\ task' = [task EXCEPT ![u] = "done"] /\ mainWg' = mainWg - 1
        /\ UNCHANGED <<targets, main, todo, printed>>
    BY <1>7 DEF SendError, Going
  <2>2. /\ Going' = Going \ {u} /\ Cardinality(Going') = mainWg - 1
        /\ Unlimited' = Unlimited \cup {u} /\ {v \in URLs : task'[v] = "none"} = todo
    BY <2>1, OneLess DEF Goroutines
  <2>3. main \notin {"exit 0", "exit 1"}
    BY <2>1 DEF MainProgress
  <2> QED
    BY <2>1, <2>2, <2>3 DEF Goroutines, MainProgress, ExitCodeSound
<1>8. ASSUME NEW u \in URLs, PrintError(u) PROVE GoInv'
  <2>1. /\ main = "drain" /\ u \in errs /\ errs' = errs \ {u} /\ printed' = printed \cup {u}
        /\ UNCHANGED <<targets, main, todo, task, mainWg>>
    BY <1>8 DEF PrintError
  <2> QED
    BY <2>1 DEF Goroutines, MainProgress, ExitCodeSound, Going, Unlimited
<1>9. CASE (\E u \in URLs : Panics(u)) \/ Killed
  <2>1. main' \in {"exit 2", "killed"} /\ UNCHANGED <<targets, runVars>>
    BY <1>9 DEF Panics, Killed, Exit
  <2> QED
    BY <2>1 DEF Goroutines, MainProgress, ExitCodeSound, Going, Unlimited
<1>10. CASE MainDone \/ UNCHANGED mainVars
  <2>1. UNCHANGED <<targets, main, runVars>>
    BY <1>10 DEF MainDone, mainVars
  <2> QED
    BY <2>1 DEF Goroutines, MainProgress, ExitCodeSound, Going, Unlimited
<1> QED
  BY <1>1, <1>2, <1>3, <1>4, <1>5, <1>6, <1>7, <1>8, <1>9, <1>10 DEF MainNext

\* The invariant of main and its goroutines holds in every reachable state.
THEOREM GoInvariance == MainSpec => []GoInv
BY InitGo, NextGo, PTL DEF MainSpec

\* No goroutine has to wait for room in the channel.
THEOREM SendsDoNotBlock == MainSpec => []SendNeverBlocks
<1>1. ASSUME GoInv, NEW u \in URLs, task[u] = "send" PROVE Cardinality(errs) < Capacity
  <2>1. errs \subseteq URLs \ {u} /\ URLs \ {u} \in SUBSET URLs
    BY <1>1 DEF GoInv, Goroutines, Unlimited
  <2>2. Cardinality(URLs \ {u}) = Cardinality(URLs) - 1
    BY FiniteURLs, FS_RemoveElement
  <2>3. Cardinality(errs) <= Cardinality(URLs \ {u})
    BY <2>1, FiniteURLs, FS_Subset
  <2> QED
    BY <2>1, <2>2, <2>3, FiniteURLs
<1>2. GoInv => SendNeverBlocks
  BY <1>1 DEF SendNeverBlocks
<1> QED
  BY <1>2, GoInvariance, PTL

\* The exit status is 0 exactly if all services limit requests, and the output names
\* those that do not.
THEOREM ExitCodeIsSound == MainSpec => []ExitCodeSound
<1>1. GoInv => ExitCodeSound
  BY DEF GoInv
<1> QED
  BY <1>1, GoInvariance, PTL

\* No variable of main leaves its type; the WaitGroup's counter is never negative.
THEOREM MainTypeCorrect == MainSpec => []MainTypeOK
<1>1. ASSUME GoInv PROVE mainWg \in 0..Cardinality(URLs)
  BY <1>1, FiniteURLs DEF GoInv, Goroutines, Going
<1>2. GoInv => MainTypeOK
  BY <1>1 DEF MainTypeOK, GoInv, Goroutines, MainProgress, Unlimited
<1> QED
  BY <1>2, GoInvariance, PTL
=============================================================================
