--------------------------- MODULE RekorWriteProofs ---------------------------
(***************************************************************************)
(* What rekorV1WriteEndpoint promises of healthy logs, for any number of   *)
(* logs, any limit on bodies and any limit on retries.  The argument       *)
(* counts, for the log being visited, the requests that got no answer: one *)
(* at least for each body given up for a conflict, and those of this body. *)
(***************************************************************************)
EXTENDS RekorWrite, TLAPS

\* The requests for this body that got no answer.
Failures == IF reply = "failed" \/ attempt = 0 THEN attempt ELSE attempt - 1

\* Only an endpoint that may send is ready, and a settled answer ends the body.
Progress ==
  /\ pc = "ready" => /\ attempt <= RetryMax
                     /\ reply = IF attempt = 0 THEN "none" ELSE "failed"
  /\ pc = "sent" => attempt > 0
  /\ pc # "returned" => verdict = "none"

\* A healthy log conflicts only with an entry it has, and has one that it did not answer
\* about only after a request of this body failed.
Explained ==
  log \in healthy =>
    /\ \/ reply \in {"none", "failed", "created", "conflict"}
       \/ reply = "unverifiable" /\ log \in cut
    /\ late \/ reply = "conflict" => Failures > 0
    /\ stored /\ reply \notin {"created", "unverifiable"} => Failures > 0

\* Each body that was given up cost a lost answer, and left at most one entry.
Accounted ==
  log \in healthy =>
    /\ disturbed[log] >= body - 1 + Failures
    /\ IF stored THEN entries <= body ELSE entries <= body - 1

IInv == TypeOK /\ Progress /\ Explained /\ Accounted /\ HealthyLogVerified

USE DEF vars, clientVars, Logs

-----------------------------------------------------------------------------

\* The constants are numbers.
LEMMA Constants == NumLogs \in Nat \ {0} /\ MaxBodies \in Nat \ {0} /\ RetryMax \in Nat
BY RekorWriteAssumption DEF RekorWriteAssumption

\* So are the counters, and the current log is a log or the end of the loop.
LEMMA Numbers ==
  ASSUME TypeOK
  PROVE  /\ log \in Nat /\ body \in Nat /\ attempt \in Nat /\ entries \in Nat
         /\ 1 <= log /\ log <= NumLogs + 1 /\ 1 <= body /\ body <= MaxBodies
         /\ attempt <= RetryMax + 1
         /\ \A s \in Logs : disturbed[s] \in Nat
BY Constants DEF TypeOK

\* The log's entries are counted.
LEMMA StoreCounts ==
  ASSUME TypeOK, Store \/ UNCHANGED <<stored, entries>>
  PROVE  entries' \in Nat /\ stored' \in BOOLEAN
<1>1. CASE Store
  <2>1. entries' = entries \/ entries' = entries + 1
    BY <1>1 DEF Store
  <2>2. stored' \in BOOLEAN
    BY <1>1 DEF Store
  <2> QED
    BY <2>1, <2>2, Numbers
<1>2. CASE UNCHANGED <<stored, entries>>
  BY <1>2, Numbers DEF TypeOK
<1> QED
  BY <1>1, <1>2

\* The invariant holds when the endpoint is entered.
LEMMA InitInv == Init => IInv
<1> SUFFICES ASSUME Init PROVE IInv
  OBVIOUS
<1> USE Constants DEF Init
<1>1. 1 \in 1..(NumLogs + 1) /\ 1 \in 1..MaxBodies /\ 0 \in 0..(RetryMax + 1)
  OBVIOUS
<1>2. /\ healthy \subseteq Logs /\ disturbed \in [Logs -> Nat] /\ cut \subseteq Logs
      /\ {stored, late} \subseteq BOOLEAN
  OBVIOUS
<1>3. TypeOK
  BY <1>1, <1>2 DEF TypeOK
<1>4. Progress /\ Explained /\ Accounted
  BY <1>2 DEF Progress, Explained, Accounted, Failures
<1>5. HealthyLogVerified
  BY <1>2 DEF HealthyLogVerified
<1> QED
  BY <1>3, <1>4, <1>5 DEF IInv

\* Sending, repeating and posting a fresh body keep it.
LEMMA PostInv == ASSUME IInv, Send \/ Retry \/ FreshBody PROVE IInv'
<1> USE Constants DEF IInv
<1>1. CASE Send
  <2>1. TypeOK' /\ Progress'
    BY <1>1, Numbers DEF TypeOK, Progress, Send
  <2>2. Failures' = Failures
    BY <1>1, Numbers DEF TypeOK, Progress, Send, Failures
  <2>3. Explained' /\ Accounted' /\ HealthyLogVerified'
    BY <1>1, <2>2 DEF Progress, Explained, Accounted, HealthyLogVerified, Send
  <2> QED
    BY <2>1, <2>3
<1>2. CASE Retry
  <2>1. TypeOK' /\ Progress'
    BY <1>2, Numbers DEF TypeOK, Progress, Retry, MayRetry
  <2>2. Failures' = Failures
    BY <1>2 DEF Retry, Failures
  <2>3. Explained' /\ Accounted' /\ HealthyLogVerified'
    BY <1>2, <2>2 DEF Explained, Accounted, HealthyLogVerified, Retry
  <2> QED
    BY <2>1, <2>3
<1>3. CASE FreshBody
  <2>1. TypeOK' /\ Progress'
    <3>1. body + 1 \in 1..MaxBodies /\ 0 \in 0..(RetryMax + 1)
      BY <1>3, Numbers DEF FreshBody, MoreBodies
    <3>2. TypeOK'
      BY <1>3, <3>1 DEF TypeOK, FreshBody
    <3>3. Progress'
      BY <1>3 DEF Progress, FreshBody
    <3> QED
      BY <3>2, <3>3
  <2>2. Failures' = 0 /\ Explained' /\ HealthyLogVerified'
    BY <1>3 DEF Explained, HealthyLogVerified, FreshBody, Failures
  <2>3. ASSUME log \in healthy PROVE disturbed[log] >= body /\ entries <= body
    <3>1. Failures \in Nat /\ Failures > 0
      BY <1>3, <2>3, Numbers DEF Explained, Failures, FreshBody, PostsAgain
    <3>2. disturbed[log] \in Nat
      BY <2>3, Numbers DEF TypeOK
    <3> QED
      BY <2>3, <3>1, <3>2, Numbers DEF Accounted
  <2>4. Accounted'
    BY <1>3, <2>2, <2>3, Numbers DEF Accounted, FreshBody
  <2> QED
    BY <2>1, <2>2, <2>4
<1> QED
  BY <1>1, <1>2, <1>3

\* So does leaving a log: a healthy one is left after as many failures as the property
\* asks for, or an answer that broke off.
LEMMA LeaveInv == ASSUME IInv, ServiceFails PROVE IInv'
<1> USE Constants DEF IInv
<1>1. pc = "sent" /\ log \in Logs
  BY DEF TypeOK, ServiceFails
<1>2. TypeOK' /\ Progress'
  <2>1. log + 1 \in 1..(NumLogs + 1) /\ 1 \in 1..MaxBodies /\ 0 \in 0..(RetryMax + 1)
    BY <1>1
  <2>2. TypeOK'
    BY <2>1 DEF TypeOK, ServiceFails
  <2>3. Progress'
    BY DEF Progress, ServiceFails
  <2> QED
    BY <2>2, <2>3
<1>3. Explained' /\ Failures' = 0
  BY DEF Explained, ServiceFails, Failures
<1>4. Accounted'
  BY <1>2, <1>3, Numbers DEF TypeOK, Accounted, ServiceFails
<1>5. ASSUME log \in healthy
      PROVE  disturbed[log] >= RetryMax + 1 \/ disturbed[log] >= MaxBodies \/ log \in cut
  <2>1. disturbed[log] \in Nat /\ disturbed[log] >= body - 1 + Failures
    BY <1>1, <1>5, Numbers DEF Accounted
  <2>2. CASE reply = "failed" /\ ~MayRetry
    <3>1. Failures = RetryMax + 1
      BY <2>2, Numbers DEF Failures, MayRetry
    <3> QED
      BY <2>1, <3>1, Numbers
  <2>3. CASE reply \in PostsAgain /\ ~MoreBodies
    <3>1. Failures \in Nat /\ Failures > 0 /\ body = MaxBodies
      BY <1>5, <2>3, Numbers DEF Explained, Failures, PostsAgain, MoreBodies
    <3> QED
      BY <2>1, <3>1
  <2> QED
    BY <1>5, <2>2, <2>3 DEF ServiceFails, Explained
<1>6. HealthyLogVerified'
  BY <1>5, Numbers DEF TypeOK, HealthyLogVerified, ServiceFails
<1> QED
  BY <1>2, <1>3, <1>4, <1>6

\* And returning.
LEMMA ReturnInv == ASSUME IInv, ServiceVerifies \/ LoopExhausted PROVE IInv'
<1>1. pc' = "returned" /\ verdict' \in {"nil", "lastErr"}
      /\ UNCHANGED <<log, body, attempt, reply, healthy, stored, late, entries, disturbed, cut>>
  BY DEF ServiceVerifies, LoopExhausted, Return
<1> QED
  BY <1>1 DEF IInv, TypeOK, Progress, Explained, Accounted, HealthyLogVerified, Failures

\* A request that gets no answer adds one to the failures and to the disturbance.
LEMMA DisturbCounts ==
  ASSUME TypeOK, Progress, Waiting, Disturb, UNCHANGED clientVars
  PROVE  /\ Failures' = Failures + 1 /\ Failures \in Nat
         /\ disturbed' \in [Logs -> Nat] /\ disturbed'[log] = disturbed[log] + 1
         /\ \A s \in Logs : disturbed'[s] >= disturbed[s]
<1>1. log \in Logs /\ attempt > 0 /\ disturbed[log] \in Nat
  BY Numbers DEF TypeOK, Progress, Waiting
<1>2. Failures' = Failures + 1 /\ Failures \in Nat
  BY <1>1, Numbers DEF Failures, Waiting, Disturb
<1>3. disturbed' = [disturbed EXCEPT ![log] = disturbed[log] + 1]
  BY DEF Disturb
<1> QED
  BY <1>1, <1>2, <1>3, Numbers DEF TypeOK

\* Whatever the log and the network do keeps the invariant.
LEMMA NetworkInv == ASSUME IInv, Network PROVE IInv'
<1> USE Constants DEF IInv
<1>1. log \in Logs /\ pc = "sent" /\ reply = "none" /\ attempt > 0 /\ UNCHANGED clientVars
  BY DEF Network, Answer, AnswerLost, AnswerCut, Break, FaultyAnswer, Waiting, TypeOK,
         Progress
<1>2. Failures \in Nat
  BY <1>1, Numbers DEF Failures
<1>3. CASE Answer
  <2>1. TypeOK' /\ Progress' /\ HealthyLogVerified'
    BY <1>1, <1>3, Numbers DEF TypeOK, Progress, HealthyLogVerified, Answer, Store
  <2>2. Failures' = Failures
    BY <1>1, <1>3 DEF Answer, Failures
  <2>3. Explained'
    BY <1>1, <1>3, <2>2 DEF Explained, Answer, Store
  <2>4. Accounted'
    BY <1>1, <1>3, <2>2, Numbers DEF Accounted, Answer, Store
  <2> QED
    BY <2>1, <2>3, <2>4
<1>4. CASE AnswerLost \/ Break
  <2>1. /\ Disturb /\ UNCHANGED <<healthy, cut>> /\ stored' \in BOOLEAN /\ late' \in BOOLEAN
        /\ \/ Store
           \/ UNCHANGED <<stored, entries>>
    BY <1>4 DEF AnswerLost, Break, Store, TypeOK
  <2>2. /\ Failures' = Failures + 1 /\ disturbed'[log] = disturbed[log] + 1
        /\ disturbed' \in [Logs -> Nat] /\ disturbed[log] \in Nat
        /\ \A s \in Logs : disturbed'[s] >= disturbed[s] /\ disturbed[s] \in Nat
                           /\ disturbed'[s] \in Nat
    BY <1>1, <2>1, DisturbCounts, Numbers DEF Waiting
  <2>3. TypeOK' /\ Progress'
    BY <1>1, <2>1, <2>2, Numbers DEF TypeOK, Progress, Disturb, Store
  <2>4. Explained'
    BY <1>1, <1>2, <2>1, <2>2 DEF Explained, Disturb
  <2>5. Accounted'
    <3>1. ASSUME log \in healthy
          PROVE  IF stored' THEN entries' <= body ELSE entries' <= body - 1
      BY <2>1, <3>1, Numbers DEF Accounted, Store
    <3> QED
      BY <1>1, <1>2, <2>1, <2>2, <3>1, Numbers DEF Accounted
  <2>6. HealthyLogVerified'
    <3>1. ASSUME NEW s \in healthy, s < log
          PROVE  disturbed'[s] >= RetryMax + 1 \/ disturbed'[s] >= MaxBodies \/ s \in cut
      <4>1. s \in Logs /\ disturbed'[s] >= disturbed[s]
            /\ disturbed[s] \in Nat /\ disturbed'[s] \in Nat
        BY <2>2, <3>1 DEF TypeOK
      <4>2. disturbed[s] >= RetryMax + 1 \/ disturbed[s] >= MaxBodies \/ s \in cut
        BY <3>1 DEF HealthyLogVerified
      <4> QED
        BY <4>1, <4>2
    <3> QED
      BY <1>1, <2>1, <3>1 DEF HealthyLogVerified
  <2> QED
    BY <2>3, <2>4, <2>5, <2>6
<1>5. CASE AnswerCut
  <2>1. TypeOK' /\ Progress' /\ HealthyLogVerified'
    <3>1. cut' \subseteq Logs /\ cut \subseteq cut' /\ reply' = "unverifiable"
      BY <1>1, <1>5 DEF TypeOK, AnswerCut
    <3>2. entries' \in Nat /\ stored' \in BOOLEAN
      BY <1>5, StoreCounts DEF AnswerCut
    <3>3. TypeOK'
      BY <1>1, <1>5, <3>1, <3>2 DEF TypeOK, AnswerCut
    <3>4. Progress' /\ HealthyLogVerified'
      BY <1>1, <1>5, <3>1 DEF Progress, HealthyLogVerified, AnswerCut
    <3> QED
      BY <3>3, <3>4
  <2>2. Failures' = Failures
    BY <1>1, <1>5 DEF AnswerCut, Failures
  <2>3. Explained'
    BY <1>1, <1>5, <2>2 DEF Explained, AnswerCut, Store
  <2>4. Accounted'
    BY <1>1, <1>5, <2>2, Numbers DEF Accounted, AnswerCut, Store
  <2> QED
    BY <2>1, <2>3, <2>4
<1>6. CASE FaultyAnswer
  <2>1. log \notin healthy /\ UNCHANGED <<healthy, late, disturbed, cut>>
    BY <1>6 DEF FaultyAnswer
  <2>2. entries' \in Nat /\ stored' \in BOOLEAN
    BY <1>6, StoreCounts DEF FaultyAnswer
  <2>3. reply' \in {"created", "conflict", "refused", "unverifiable", "another"}
    BY <1>6 DEF FaultyAnswer
  <2>4. TypeOK' /\ Progress'
    BY <1>1, <2>1, <2>2, <2>3 DEF TypeOK, Progress
  <2> QED
    BY <1>1, <2>1, <2>4 DEF Explained, Accounted, HealthyLogVerified
<1> QED
  BY <1>3, <1>4, <1>5, <1>6 DEF Network

\* So does a request that arrives late.
LEMMA LateInv == ASSUME IInv, ArrivesLate PROVE IInv'
<1> USE Constants DEF IInv
<1>1. late /\ UNCHANGED <<clientVars, reply, healthy, disturbed, cut>> /\ stored'
  BY DEF ArrivesLate, Store
<1>2. Failures' = Failures
  BY <1>1 DEF Failures
<1>3. TypeOK' /\ Progress' /\ HealthyLogVerified'
  <2>1. entries' \in Nat /\ late' \in BOOLEAN
    BY StoreCounts DEF ArrivesLate
  <2>2. TypeOK'
    BY <1>1, <2>1 DEF TypeOK
  <2> QED
    BY <1>1, <2>2 DEF Progress, HealthyLogVerified
<1>4. Explained'
  BY <1>1, <1>2 DEF Explained, ArrivesLate
<1>5. Accounted'
  BY <1>1, <1>2, Numbers DEF Accounted, ArrivesLate, Store
<1> QED
  BY <1>3, <1>4, <1>5

\* Every step keeps the invariant.
LEMMA NextInv == IInv /\ [Next]_vars => IInv'
<1>1. IInv /\ UNCHANGED vars => IInv'
  BY DEF IInv, TypeOK, Progress, Explained, Accounted, HealthyLogVerified, Failures
<1> QED
  BY <1>1, PostInv, LeaveInv, ReturnInv, NetworkInv, LateInv DEF Next, Client, Done

\* The inductive invariant holds in every reachable state.
THEOREM Invariance == Spec => []IInv
BY InitInv, NextInv, PTL DEF Spec

\* Types; no more than MaxBodies bodies, each with at most RetryMax retries.
THEOREM TypeCorrect == Spec => []TypeOK
<1>1. IInv => TypeOK
  BY DEF IInv
<1> QED
  BY <1>1, Invariance, PTL

\* A healthy log is found at fault only after RetryMax + 1 requests to it, or as many
\* as there are bodies, got no answer, or the body of an answer broke off.
THEOREM HealthyLogIsVerified == Spec => []HealthyLogVerified
<1>1. IInv => HealthyLogVerified
  BY DEF IInv
<1> QED
  BY <1>1, Invariance, PTL

\* An entry besides the one that is verified is due to a request that got no answer, or
\* an answer of which the body broke off.
THEOREM OrphansNeedLoss == Spec => []OrphansOnlyAfterLoss
<1>1. ASSUME IInv, log \in healthy
      PROVE  entries <= disturbed[log]
                          + (IF reply = "created" \/ log \in cut THEN 1 ELSE 0)
  <2>1. log \in Logs /\ disturbed[log] \in Nat
    BY <1>1, Numbers DEF IInv, TypeOK
  <2>2. Failures \in Nat /\ body \in Nat /\ entries \in Nat
    BY <1>1, Numbers DEF IInv, Failures
  <2>3. disturbed[log] >= body - 1 + Failures
    BY <1>1 DEF IInv, Accounted
  <2>4. CASE reply = "created" \/ log \in cut \/ ~stored
    BY <1>1, <2>1, <2>2, <2>3, <2>4 DEF IInv, Accounted, TypeOK
  <2>5. CASE reply # "created" /\ log \notin cut /\ stored
    BY <1>1, <2>1, <2>2, <2>3, <2>5 DEF IInv, Accounted, Explained
  <2> QED
    BY <1>1, <2>4, <2>5 DEF IInv, TypeOK
<1>2. IInv => OrphansOnlyAfterLoss
  BY <1>1 DEF OrphansOnlyAfterLoss
<1> QED
  BY <1>2, Invariance, PTL

-----------------------------------------------------------------------------
(* The call implements Prober's. *)

View == "rekorV1WriteEndpoint"

\* What the endpoint does besides deciding on an answer, Prober does not see.
LEMMA HiddenStep ==
  ASSUME TypeOK, Progress,
         \/ Send \/ Retry \/ Network \/ ArrivesLate \/ UNCHANGED vars
  PROVE  UNCHANGED ProberView!vars
<1>1. returned' = returned /\ UNCHANGED <<log, body, verdict>>
  BY DEF returned, Send, Retry, Network, Answer, AnswerLost, AnswerCut, Break,
         FaultyAnswer, ArrivesLate
<1> QED
  BY <1>1 DEF ProberView!vars, ProberView!runVars, ProberView!errVars,
              ProberView!writeVars, ProberView!mainVars

\* Another body is Prober's conflict.
LEMMA FreshBodyImplements ==
  ASSUME TypeOK, MaxBodies <= 9, FreshBody PROVE ProberView!Conflict
<1>1. /\ pc = "sent" /\ pc' = "ready" /\ body < MaxBodies /\ body' = body + 1
      /\ UNCHANGED <<log, verdict>> /\ log \in 1..NumLogs
  BY DEF FreshBody, MoreBodies, TypeOK
<1> QED
  BY <1>1, Constants, Numbers DEF ProberView!Conflict, ProberView!ConflictTries, returned,
     ProberView!runVars, ProberView!errVars, ProberView!mainVars

\* Leaving a log is Prober's failed service.
LEMMA LeaveImplements ==
  ASSUME TypeOK, Progress, ServiceFails PROVE ProberView!ServiceFails(View)
<1>1. /\ pc = "sent" /\ pc' = "ready" /\ log' = log + 1 /\ body' = 1
      /\ UNCHANGED verdict /\ log \in 1..NumLogs /\ verdict = "none"
  BY DEF ServiceFails, TypeOK, Progress
<1>2. log \in Nat /\ log >= 1 /\ NumLogs + 1 - (log + 1) = NumLogs + 1 - log - 1
  BY <1>1, Constants
<1>3. {"log"} = (IF log > 1 THEN {"log"} ELSE {}) \cup {"log"}
  OBVIOUS
<1>4. log + 1 > 1 /\ log + 1 - 1 = log - 1 + 1 /\ body' - 1 = 0 /\ NumLogs + 1 - log > 0
  BY <1>1, <1>2, Constants
<1>5. ~returned /\ ~returned'
  BY <1>1 DEF returned
<1>6. (~returned /\ log > 1)' \in (IF View = "tsaWriteEndpoint" THEN BOOLEAN ELSE {TRUE})
  <2>1. (~returned /\ log > 1)' /\ View # "tsaWriteEndpoint"
    BY <1>1, <1>4, <1>5 DEF View
  <2> QED
    BY <2>1, Zenon
<1>7. UNCHANGED [v \in {"true", "false"} |->
                   IF v = "true" THEN (IF verdict = "nil" THEN 1 ELSE 0)
                   ELSE IF returned THEN log - 1 ELSE 0]
  BY <1>1, <1>5
<1>8. (IF log > 1 THEN {"log"} ELSE {})'
        = (IF log > 1 THEN {"log"} ELSE {}) \cup {ProberView!FaultClass(View)}
  BY <1>1, <1>3, <1>4 DEF ProberView!FaultClass, ProberView!Counted, View
<1>9. (IF returned THEN 0 ELSE log - 1)'
        = (IF returned THEN 0 ELSE log - 1) + ProberView!Increment(View)
  BY <1>1, <1>4, <1>5 DEF ProberView!Increment, ProberView!Counted, View
<1>10. /\ (IF returned THEN "tsaWriteEndpoint" ELSE "rekorV1WriteEndpoint") = View
       /\ (IF returned THEN 1 ELSE NumLogs + 1 - log) > 0
       /\ (IF returned THEN 1 ELSE NumLogs + 1 - log)'
            = (IF returned THEN 1 ELSE NumLogs + 1 - log) - 1
       /\ (IF returned THEN 0 ELSE body - 1)' = 0
  BY <1>1, <1>2, <1>4, <1>5, Constants DEF View
<1> QED
  BY <1>1, <1>5, <1>6, <1>7, <1>8, <1>9, <1>10
     DEF ProberView!ServiceFails, ProberView!mainVars

\* Returning nil is Prober's verified service.
LEMMA VerifyImplements ==
  ASSUME TypeOK, Progress, ServiceVerifies PROVE ProberView!ServiceVerifies(View)
<1>1. /\ pc = "sent" /\ pc' = "returned" /\ verdict' = "nil"
      /\ UNCHANGED <<log, body>> /\ log \in 1..NumLogs /\ verdict = "none"
  BY DEF ServiceVerifies, Return, TypeOK, Progress
<1> QED
  BY <1>1, Constants, Numbers
     DEF ProberView!ServiceVerifies, ProberView!Increment, ProberView!Counted,
         ProberView!Accepts, ProberView!NoCert, ProberView!Target, ProberView!RunDeferred,
         ProberView!Goto, ProberView!Loop, ProberView!After, ProberView!ReadLoops,
         ProberView!WriteLoops, ProberView!errVars, ProberView!mainVars, returned, View

\* Returning lastErr is the end of Prober's loop.
LEMMA ExhaustedImplements ==
  ASSUME TypeOK, Progress, LoopExhausted PROVE ProberView!LoopExhausted(View)
<1>1. /\ pc = "ready" /\ pc' = "returned" /\ verdict' = "lastErr"
      /\ UNCHANGED <<log, body>> /\ log = NumLogs + 1 /\ verdict = "none"
  BY Constants, Numbers DEF LoopExhausted, Return, Progress
<1> QED
  BY <1>1, Constants, Numbers
     DEF ProberView!LoopExhausted, ProberView!EndpointError, ProberView!RunDeferred,
         ProberView!Goto, ProberView!Loop, ProberView!After, ProberView!AfterError,
         ProberView!Target, ProberView!ReadLoops, ProberView!WriteLoops,
         ProberView!mainVars, returned, View

\* Every step of the call is a step of Prober's write endpoint, or one that Prober does
\* not see, when the loop posts no more bodies than Prober's.
THEOREM CallImplementsProber ==
  ASSUME MaxBodies <= 9 PROVE Spec => ImplementsProber
<1>1. ASSUME IInv, [Next]_vars PROVE [ProberView!WriteStep]_(ProberView!vars)
  <2>1. CASE Send \/ Retry \/ Network \/ ArrivesLate \/ Done \/ UNCHANGED vars
    BY <1>1, <2>1, HiddenStep DEF IInv, Done
  <2>2. CASE FreshBody
    BY <1>1, <2>2, FreshBodyImplements DEF IInv, ProberView!WriteStep
  <2>3. CASE ServiceFails
    BY <1>1, <2>3, LeaveImplements
       DEF IInv, View, ProberView!WriteStep, ProberView!WriteLoops
  <2>4. CASE ServiceVerifies
    BY <1>1, <2>4, VerifyImplements
       DEF IInv, View, ProberView!WriteStep, ProberView!WriteLoops
  <2>5. CASE LoopExhausted
    BY <1>1, <2>5, ExhaustedImplements
       DEF IInv, View, ProberView!WriteStep, ProberView!WriteLoops
  <2> QED
    BY <1>1, <2>1, <2>2, <2>3, <2>4, <2>5 DEF Next, Client
<1>2. IInv /\ [Next]_vars => [ProberView!WriteStep]_(ProberView!vars)
  BY <1>1
<1> QED
  BY <1>2, Invariance, PTL DEF Spec, ImplementsProber
=============================================================================
