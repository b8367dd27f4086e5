------------------------------ MODULE PagerProofs ------------------------------
(***************************************************************************)
(* What the pager promises of its exit status, its retries and of the      *)
(* incidents they open, for any number of runs, any keys and any limit on  *)
(* retries.                                                                *)
(***************************************************************************)
EXTENDS Pager, TLAPS

Settled == {"accepted", "refused"}

\* Where a run is and how many requests it has sent: only a run that may retry is
\* ready, and no run that is ready has an answer that settles its alert.
Counted ==
  \A a \in Alerts :
    /\ pager[a] = "start" => attempts[a] = 0
    /\ pager[a] \in {"start", "ready"} => attempts[a] <= RetryCount /\ answer[a] \notin Settled
    /\ pager[a] = "sent" => attempts[a] > 0

\* An answer "accepted" is PagerDuty's, and what exit status 0 rests on.
Accepted ==
  \A a \in Alerts :
    /\ answer[a] = "accepted" => a \in seen
    /\ pager[a] = "exit 0" => answer[a] = "accepted"

\* What exit status 1 rests on, after a request.
GivenUp ==
  \A a \in Alerts : pager[a] = "exit 1" /\ attempts[a] > 0 =>
    answer[a] \in Settled \/ attempts[a] = RetryCount + 1

\* Each incident, and each request that may still open one, is owed to the answer that
\* was accepted or to a connection that broke.
Owed(a) ==
  IF answer[a] = "accepted" THEN incidents[a] + late[a] <= lost[a] + 1
                            ELSE incidents[a] + late[a] <= lost[a]
Balance == \A a \in Alerts : Owed(a)

IInv == TypeOK /\ Counted /\ Accepted /\ GivenUp /\ Balance /\ OneIncidentPerKey

USE DEF vars, Settled

\* RetryCount is a number, and the runs with a key are runs.
LEMMA Constants == RetryCount \in Nat /\ Keyed \subseteq Alerts
BY PagerAssumption DEF PagerAssumption

-----------------------------------------------------------------------------

\* The invariant holds before any run has begun.
LEMMA InitInv == Init => IInv
<1> SUFFICES ASSUME Init PROVE IInv
  OBVIOUS
<1> USE Constants DEF Init
<1>1. TypeOK
  BY DEF TypeOK
<1>2. Counted /\ Accepted
  BY DEF Counted, Accepted
<1>3. GivenUp /\ Balance
  BY DEF GivenUp, Balance, Owed
<1>4. OneIncidentPerKey
  BY DEF OneIncidentPerKey
<1> QED
  BY <1>1, <1>2, <1>3, <1>4 DEF IInv

\* The counters of a run are numbers.
LEMMA Numbers ==
  ASSUME TypeOK, NEW a \in Alerts
  PROVE  /\ RetryCount \in Nat /\ attempts[a] \in Nat
         /\ late[a] \in Nat /\ incidents[a] \in Nat /\ lost[a] \in Nat
<1>1. RetryCount \in Nat
  BY Constants
<1>2. attempts[a] \in 0..(RetryCount + 1)
  BY DEF TypeOK
<1>3. attempts[a] \in Nat
  BY <1>1, <1>2
<1>4. late[a] \in Nat /\ incidents[a] \in Nat /\ lost[a] \in Nat
  BY DEF TypeOK
<1> QED
  BY <1>1, <1>3, <1>4

\* PagerDuty's counting keeps one incident for a key, and opens at most one.
LEMMA AcceptEventKeeps ==
  ASSUME TypeOK, OneIncidentPerKey, NEW a \in Alerts, AcceptEvent(a)
  PROVE  /\ OneIncidentPerKey'
         /\ seen' = seen \cup {a} /\ incidents' \in [Alerts -> Nat]
         /\ incidents'[a] <= incidents[a] + 1
         /\ \A b \in Alerts \ {a} : incidents'[b] = incidents[b]
<1> USE Constants
<1>1. /\ incidents \in [Alerts -> Nat] /\ incidents[a] \in Nat
      /\ \A b \in Keyed : incidents[b] \in Nat
  BY DEF TypeOK
<1>2. CASE Deduplicated(a)
  <2>1. incidents' = [incidents EXCEPT ![a] = incidents[a]] /\ seen' = seen \cup {a}
    BY <1>2 DEF AcceptEvent
  <2>2. incidents' = incidents
    BY <1>1, <2>1
  <2> QED
    BY <1>1, <2>1, <2>2 DEF OneIncidentPerKey
<1>3. CASE ~Deduplicated(a)
  <2>1. incidents' = [incidents EXCEPT ![a] = incidents[a] + 1] /\ seen' = seen \cup {a}
    BY <1>3 DEF AcceptEvent
  <2>2. /\ incidents' \in [Alerts -> Nat] /\ incidents'[a] = incidents[a] + 1
        /\ \A b \in Alerts \ {a} : incidents'[b] = incidents[b]
    BY <1>1, <2>1
  <2>3. OneIncidentPerKey'
    <3>1. CASE a \in Keyed
      <4>1. \A b \in Keyed : incidents[b] = 0
        BY <1>1, <1>3, <3>1 DEF Deduplicated, KeySent
      <4> QED
        BY <2>2, <4>1 DEF OneIncidentPerKey
    <3>2. CASE a \notin Keyed
      BY <2>2, <3>2 DEF OneIncidentPerKey
    <3> QED
      BY <3>1, <3>2
  <2> QED
    BY <1>1, <2>1, <2>2, <2>3
<1> QED
  BY <1>2, <1>3

\* Every step of execute() keeps the invariant.
LEMMA ExecuteInv == ASSUME IInv, NEW a \in Alerts, Execute(a) PROVE IInv'
<1> USE DEF IInv
<1>1. RetryCount \in Nat /\ attempts[a] \in Nat
  BY Numbers
<1>2. OneIncidentPerKey' /\ UNCHANGED <<late, incidents, seen, lost>>
  BY DEF Execute, RejectInput, AcceptInput, Send, Retry, Finish, OneIncidentPerKey
<1>3. CASE RejectInput(a) \/ AcceptInput(a)
  <2>1. /\ pager[a] = "start" /\ UNCHANGED <<attempts, answer>>
        /\ \/ pager' = [pager EXCEPT ![a] = "exit 1"]
           \/ pager' = [pager EXCEPT ![a] = "ready"]
    BY <1>3 DEF RejectInput, AcceptInput, Move
  <2>2. attempts[a] = 0 /\ attempts[a] <= RetryCount /\ answer[a] \notin Settled
    BY <2>1 DEF Counted
  <2>3. TypeOK' /\ Counted' /\ Accepted'
    BY <1>2, <2>1, <2>2 DEF TypeOK, Counted, Accepted
  <2>4. GivenUp'
    <3>1. ASSUME NEW b \in Alerts, b # a PROVE pager'[b] = pager[b]
      BY <2>1, <3>1 DEF TypeOK
    <3>2. ~(attempts[a] > 0)
      BY <2>2
    <3>3. ASSUME NEW b \in Alerts, pager'[b] = "exit 1", attempts[b] > 0
          PROVE  answer[b] \in Settled \/ attempts[b] = RetryCount + 1
      <4>1. b # a
        BY <3>2, <3>3
      <4> QED
        BY <3>1, <3>3, <4>1 DEF GivenUp
    <3> QED
      BY <2>1, <3>3 DEF GivenUp
  <2>5. Balance'
    BY <1>2, <2>1 DEF Balance, Owed
  <2> QED
    BY <1>2, <2>3, <2>4, <2>5
<1>4. CASE Send(a)
  <2>1. /\ pager[a] = "ready" /\ pager' = [pager EXCEPT ![a] = "sent"]
        /\ attempts' = [attempts EXCEPT ![a] = attempts[a] + 1]
        /\ answer' = [answer EXCEPT ![a] = "none"]
    BY <1>4 DEF Send, Move
  <2>2. attempts[a] + 1 \in 0..(RetryCount + 1) /\ attempts[a] + 1 > 0
    BY <1>1, <2>1 DEF Counted
  <2>3. TypeOK' /\ Counted' /\ Accepted' /\ GivenUp'
    BY <1>2, <2>1, <2>2 DEF TypeOK, Counted, Accepted, GivenUp
  <2>4. Balance'
    BY <1>2, <2>1 DEF TypeOK, Counted, Balance, Owed
  <2> QED
    BY <1>2, <2>3, <2>4
<1>5. CASE Retry(a)
  <2>1. attempts[a] <= RetryCount /\ answer[a] \notin Settled
    BY <1>5 DEF Retry, MayRetry, Retryable
  <2> QED
    BY <1>2, <1>5, <2>1 DEF TypeOK, Counted, Accepted, GivenUp, Balance, Owed, Retry, Move
<1>6. CASE Finish(a)
  <2>1. pager[a] = "sent" /\ UNCHANGED <<attempts, answer>>
    BY <1>6 DEF Finish
  <2>2. \/ pager' = [pager EXCEPT ![a] = "exit 0"] /\ answer[a] = "accepted"
        \/ /\ pager' = [pager EXCEPT ![a] = "exit 1"]
           /\ answer[a] \in Settled \/ ~MayRetry(a)
    BY <1>6 DEF Finish, MayExitZero, Move
  <2>3. ~MayRetry(a) => attempts[a] = RetryCount + 1
    <3>1. attempts[a] \in 0..(RetryCount + 1)
      BY DEF TypeOK
    <3> QED
      BY <1>1, <3>1 DEF MayRetry
  <2>4. TypeOK' /\ Counted' /\ Accepted' /\ Balance'
    BY <1>2, <2>1, <2>2 DEF TypeOK, Counted, Accepted, Balance, Owed
  <2>5. GivenUp'
    BY <2>1, <2>2, <2>3 DEF TypeOK, GivenUp
  <2> QED
    BY <1>2, <2>4, <2>5
<1> QED
  BY <1>3, <1>4, <1>5, <1>6 DEF Execute

\* A step of one run leaves the others' balances, and its own must be shown.
LEMMA BalanceOf ==
  ASSUME Balance, NEW a \in Alerts, Owed(a)',
         \A b \in Alerts \ {a} : /\ incidents'[b] = incidents[b] /\ late'[b] = late[b]
                                 /\ lost'[b] = lost[b] /\ answer'[b] = answer[b]
  PROVE  Balance'
<1>1. ASSUME NEW b \in Alerts, b # a PROVE Owed(b)'
  BY <1>1 DEF Balance, Owed
<1> QED
  BY <1>1 DEF Balance

\* Whatever PagerDuty and the network do keeps the invariant.
LEMMA RespondInv ==
  ASSUME IInv, NEW a \in Alerts, Respond(a) \/ AcceptLate(a) PROVE IInv'
<1> USE DEF IInv
<1>1. late[a] \in Nat /\ incidents[a] \in Nat /\ lost[a] \in Nat
  BY Numbers
<1>2. lost[a] + 1 \in Nat /\ \A n \in {0, 1} : late[a] + n \in Nat
  BY <1>1
<1>3. Owed(a)
  BY DEF Balance
<1>4. CASE Accept(a)
  <2>1. /\ OneIncidentPerKey' /\ seen' = seen \cup {a} /\ incidents' \in [Alerts -> Nat]
        /\ incidents'[a] <= incidents[a] + 1
        /\ \A b \in Alerts \ {a} : incidents'[b] = incidents[b]
    BY <1>4, AcceptEventKeeps DEF Accept
  <2>2. incidents'[a] \in Nat
    BY <2>1
  <2>3. pager[a] = "sent" /\ answer[a] = "none" /\ UNCHANGED <<pager, attempts, late>>
    BY <1>4 DEF Accept, Waiting
  <2>4. CASE answer' = [answer EXCEPT ![a] = "accepted"] /\ UNCHANGED lost
    <3>1. TypeOK' /\ Counted' /\ Accepted' /\ GivenUp'
      BY <2>1, <2>3, <2>4 DEF TypeOK, Counted, Accepted, GivenUp
    <3>2. answer'[a] = "accepted" /\ \A b \in Alerts \ {a} : answer'[b] = answer[b]
      BY <2>4 DEF TypeOK
    <3>3. Owed(a)'
      BY <1>1, <1>3, <2>1, <2>2, <2>3, <2>4, <3>2 DEF Owed
    <3>4. Balance'
      BY <2>1, <2>3, <2>4, <3>2, <3>3, BalanceOf
    <3> QED
      BY <2>1, <3>1, <3>4
  <2>5. CASE answer' = [answer EXCEPT ![a] = "broken"]
               /\ lost' = [lost EXCEPT ![a] = lost[a] + 1]
    <3>1. TypeOK'
      BY <1>2, <2>1, <2>3, <2>5 DEF TypeOK
    <3>2. Counted' /\ Accepted' /\ GivenUp'
      BY <2>1, <2>3, <2>5 DEF TypeOK, Counted, Accepted, GivenUp
    <3>3. /\ answer'[a] = "broken" /\ lost'[a] = lost[a] + 1
          /\ \A b \in Alerts \ {a} : answer'[b] = answer[b] /\ lost'[b] = lost[b]
      BY <2>5 DEF TypeOK
    <3>4. Owed(a)'
      BY <1>1, <1>3, <2>1, <2>2, <2>3, <3>3 DEF Owed
    <3>5. Balance'
      BY <2>1, <2>3, <3>3, <3>4, BalanceOf
    <3> QED
      BY <2>1, <3>1, <3>2, <3>5
  <2> QED
    BY <1>4, <2>4, <2>5 DEF Accept
<1>5. CASE Decline(a)
  <2>1. PICK status \in {"busy", "refused"} : answer' = [answer EXCEPT ![a] = status]
    BY <1>5 DEF Decline
  <2>2. /\ pager[a] = "sent" /\ answer[a] = "none"
        /\ UNCHANGED <<pager, attempts, late, incidents, seen, lost>>
    BY <1>5 DEF Decline, Waiting
  <2>3. TypeOK' /\ Counted' /\ Accepted' /\ GivenUp' /\ OneIncidentPerKey'
    BY <2>1, <2>2 DEF TypeOK, Counted, Accepted, GivenUp, OneIncidentPerKey
  <2>4. answer'[a] # "accepted" /\ \A b \in Alerts \ {a} : answer'[b] = answer[b]
    BY <2>1 DEF TypeOK
  <2>5. Owed(a)'
    BY <1>3, <2>2, <2>4 DEF Owed
  <2> QED
    BY <2>2, <2>3, <2>4, <2>5, BalanceOf
<1>6. CASE Break(a)
  <2>1. PICK n \in {0, 1} : late' = [late EXCEPT ![a] = late[a] + n]
    BY <1>6 DEF Break
  <2>2. /\ pager[a] = "sent" /\ answer[a] = "none"
        /\ answer' = [answer EXCEPT ![a] = "broken"]
        /\ lost' = [lost EXCEPT ![a] = lost[a] + 1]
        /\ UNCHANGED <<pager, attempts, incidents, seen>>
    BY <1>6 DEF Break, Waiting
  <2>3. TypeOK'
    BY <1>2, <2>1, <2>2 DEF TypeOK
  <2>4. Counted' /\ Accepted' /\ GivenUp' /\ OneIncidentPerKey'
    BY <2>2 DEF TypeOK, Counted, Accepted, GivenUp, OneIncidentPerKey
  <2>5. /\ answer'[a] = "broken" /\ lost'[a] = lost[a] + 1 /\ late'[a] = late[a] + n
        /\ \A b \in Alerts \ {a} : /\ answer'[b] = answer[b]
                                   /\ lost'[b] = lost[b] /\ late'[b] = late[b]
    BY <2>1, <2>2 DEF TypeOK
  <2>6. Owed(a)'
    BY <1>1, <1>3, <2>2, <2>5 DEF Owed
  <2> QED
    BY <2>2, <2>3, <2>4, <2>5, <2>6, BalanceOf
<1>7. CASE AcceptLate(a)
  <2>1. /\ OneIncidentPerKey' /\ seen' = seen \cup {a} /\ incidents' \in [Alerts -> Nat]
        /\ incidents'[a] <= incidents[a] + 1
        /\ \A b \in Alerts \ {a} : incidents'[b] = incidents[b]
    BY <1>7, AcceptEventKeeps DEF AcceptLate
  <2>2. incidents'[a] \in Nat
    BY <2>1
  <2>3. /\ late[a] > 0 /\ late' = [late EXCEPT ![a] = late[a] - 1]
        /\ UNCHANGED <<pager, attempts, answer, lost>>
    BY <1>7 DEF AcceptLate
  <2>4. late[a] - 1 \in Nat
    BY <1>1, <2>3
  <2>5. TypeOK' /\ Counted' /\ Accepted' /\ GivenUp'
    BY <2>1, <2>3, <2>4 DEF TypeOK, Counted, Accepted, GivenUp
  <2>6. late'[a] = late[a] - 1 /\ \A b \in Alerts \ {a} : late'[b] = late[b]
    BY <2>3 DEF TypeOK
  <2>7. Owed(a)'
    BY <1>1, <1>3, <2>1, <2>2, <2>3, <2>6 DEF Owed
  <2> QED
    BY <2>1, <2>3, <2>5, <2>6, <2>7, BalanceOf
<1> QED
  BY <1>4, <1>5, <1>6, <1>7 DEF Respond

\* Every step keeps the invariant.
LEMMA NextInv == IInv /\ [Next]_vars => IInv'
<1>1. IInv /\ UNCHANGED vars => IInv'
  BY DEF IInv, TypeOK, Counted, Accepted, GivenUp, Balance, Owed, OneIncidentPerKey
<1> QED
  BY <1>1, ExecuteInv, RespondInv DEF Next, Done

\* The inductive invariant holds in every reachable state.
THEOREM Invariance == Spec => []IInv
BY InitInv, NextInv, PTL DEF Spec

\* Types; no run sends more than one request and RetryCount retries.
THEOREM TypeCorrect == Spec => []TypeOK
<1>1. IInv => TypeOK
  BY DEF IInv
<1> QED
  BY <1>1, Invariance, PTL

\* Exit status 0 means that the page was made.
THEOREM ExitZeroIsPaged == Spec => []ExitZeroMeansPaged
<1>1. IInv => ExitZeroMeansPaged
  BY DEF IInv, Accepted, ExitZeroMeansPaged
<1> QED
  BY <1>1, Invariance, PTL

\* An alert that PagerDuty has not seen is given up last.
THEOREM GivesUpOnlyLast == Spec => []GivesUpLast
<1>1. IInv => GivesUpLast
  BY DEF IInv, Accepted, GivenUp, GivesUpLast
<1> QED
  BY <1>1, Invariance, PTL

\* A second incident needs a connection that broke.
THEOREM DuplicatesNeedLoss == Spec => []DuplicatesOnlyAfterLoss
<1>1. IInv => DuplicatesOnlyAfterLoss
  <2>1. ASSUME IInv, NEW a \in Alerts PROVE incidents[a] <= 1 + lost[a]
    <3>1. late[a] \in Nat /\ incidents[a] \in Nat /\ lost[a] \in Nat
      BY <2>1, Numbers DEF IInv
    <3> QED
      BY <2>1, <3>1 DEF IInv, Balance, Owed
  <2> QED
    BY <2>1 DEF DuplicatesOnlyAfterLoss
<1> QED
  BY <1>1, Invariance, PTL

\* A key has one incident.
THEOREM KeysAreKept == Spec => []OneIncidentPerKey
<1>1. IInv => OneIncidentPerKey
  BY DEF IInv
<1> QED
  BY <1>1, Invariance, PTL

\* No request follows an answer that settles the alert.
THEOREM SettledStays == Spec => SettledIsFinal
<1>1. ASSUME IInv, [Next]_vars, NEW a \in Alerts, answer[a] \in Settled
      PROVE  attempts'[a] = attempts[a]
  <2>1. ASSUME NEW b \in Alerts, Send(b) PROVE attempts'[a] = attempts[a]
    BY <1>1, <2>1 DEF IInv, TypeOK, Counted, Send
  <2>2. ASSUME NEW b \in Alerts, Execute(b) \/ Respond(b) \/ AcceptLate(b), ~Send(b)
        PROVE  UNCHANGED attempts
    BY <2>2 DEF Execute, Respond, RejectInput, AcceptInput, Retry, Finish, Accept, Decline,
                Break, AcceptLate
  <2> QED
    BY <1>1, <2>1, <2>2 DEF Next, Done
<1>2. IInv /\ [Next]_vars =>
        [\A a \in Alerts : answer[a] \in {"accepted", "refused"}
                             => attempts'[a] = attempts[a]]_vars
  BY <1>1
<1> QED
  BY <1>2, Invariance, PTL DEF Spec, SettledIsFinal
=============================================================================
