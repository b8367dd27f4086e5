---------------------------- MODULE ProberProofs ----------------------------
(***************************************************************************)
(* ExitZeroSound and NoFalseAlarm hold of Spec for every choice of flags   *)
(* and every bound.  Neither is inductive: what an exit status says of the *)
(* write endpoints is settled loop by loop, long before the status.  IInv  *)
(* says what each finished loop has left behind (LoopsSettled), why the    *)
(* loop being run will have an error to return (LoopBlamed), and why an    *)
(* answer that a write endpoint refuses is its service's fault             *)
(* (EvidenceFits).                                                         *)
(*                                                                         *)
(* The second part is about verificationCounter.  Each visited service of  *)
(* a Rekor write loop defers an increment to the loop's end; while the     *)
(* loop runs as many are pending as services were visited (LoopBounds), so *)
(* that the endpoint's return adds exactly those.                          *)
(***************************************************************************)
EXTENDS Prober, TLAPS

\* The stages of a round that follow write loop k.
Later(k) ==
  CASE k = "rekorV1WriteEndpoint" ->
         {"tsaWriteEndpoint", "rekorV2WriteEndpoint", "rekorIdentityPublicKeyWrite",
          "rekorIdentityOIDCWrite", "roundEnd"}
    [] k = "tsaWriteEndpoint" ->
         {"rekorV2WriteEndpoint", "rekorIdentityPublicKeyWrite",
          "rekorIdentityOIDCWrite", "roundEnd"}
    [] k = "rekorV2WriteEndpoint" ->
         {"rekorIdentityPublicKeyWrite", "rekorIdentityOIDCWrite", "roundEnd"}
    [] k = "rekorIdentityPublicKeyWrite" -> {"rekorIdentityOIDCWrite", "roundEnd"}
    [] k = "rekorIdentityOIDCWrite"      -> {"roundEnd"}

Proven(k) == services[Target[k]] > 0 => k \in proven

\* Reads are checked one service at a time, and increments wait only in the
\* loop that defers them, one for each service that it has visited.
LoopBounds ==
  /\ left > 0 /\ stage # "exited" => stage \in ReadLoops /\ svc > 0
  /\ stage \in WriteLoops => svc <= services[Target[stage]]
  /\ stage \notin Counted \cup {"exited"} => deferred = 0
  /\ stage \in Counted => deferred + svc = services[Target[stage]]

\* main() does not start a round without a timestamp authority.
RoundBounds ==
  /\ stage \in ReadLoops \cup WriteLoops \cup
       {"grpc", "fulcioWriteEndpoint", "fulcioWriteLegacyEndpoint", "roundEnd"}
       => round > 0
  /\ stage \notin {"loadTrust", "selectServices", "exited"} => services["tsa"] > 0

\* A read fault sets hasErr, and no error is without a fault, of the class that is the
\* write loop's own: nor is a service that it has visited and not returned from.
ErrorsTraced ==
  /\ "read" \in faults => hasErr
  /\ hasErr \/ lastErr => faults # {}
  /\ stage \in WriteLoops /\ svc < services[Target[stage]] => faults # {}
  /\ lastErr /\ stage \in WriteLoops => FaultClass(stage) \in faults

\* A loop that was left without setting hasErr verified an answer.
LoopsSettled ==
  RunWriteProber =>
    \A k \in WriteLoops : stage \in Later(k) /\ ~hasErr => Proven(k)

\* A loop has an error to return only if it has visited a service and, but for the
\* TSAs', whenever it has.
LoopBlamed ==
  /\ stage \in WriteLoops \ {"tsaWriteEndpoint"} /\ svc < services[Target[stage]] => lastErr
  /\ lastErr /\ stage # "exited" => stage \in WriteLoops /\ svc < services[Target[stage]]

\* A Rekor entry carries this round's certificate or none, and an identity log is
\* written to only when its answers can be checked.
EvidenceFits ==
  /\ stage \in WriteLoops \cup {"fulcioWriteLegacyEndpoint"} => cert \in {NoCert, round}
  /\ services["identity"] > 0 => pqcTrustedRoot /\ stage # "loadTrust"

ExitSettled ==
  /\ exit # "none" => stage = "exited"
  /\ ExitZeroSound

IInv == /\ TypeOK /\ LoopBounds /\ RoundBounds /\ ErrorsTraced
        /\ LoopsSettled /\ LoopBlamed /\ EvidenceFits /\ ExitSettled

-----------------------------------------------------------------------------
(* The tables of stages *)

USE DEF ReadLoops, WriteLoops, Counted, Target, NoCert,
        runVars, errVars, writeVars, mainVars

\* The loop of a stage visits a list of selected services, none longer than the bound.
LEMMA LoopSize ==
  ASSUME TypeOK, NEW s \in Stages
  PROVE  /\ Loop(s) \in 0..MaxServices
         /\ s \in WriteLoops => Loop(s) = services[Target[s]]
BY ProberAssumption DEF TypeOK, Loop

\* A read loop is followed by another one or by the gRPC check.
LEMMA AfterRead ==
  ASSUME NEW s \in ReadLoops
  PROVE  After[s] \in ReadLoops \cup {"grpc"}
BY DEF After

\* A write loop is followed by stages later than it, and by no loop that was not
\* later than those before it.
LEMMA AfterWrite ==
  ASSUME NEW k \in WriteLoops, NEW s \in {After[k], AfterError(k)}
  PROVE  /\ s \in Later(k) /\ s \in Stages
         /\ s \notin ReadLoops \cup {"fulcioWriteEndpoint", "fulcioWriteLegacyEndpoint",
                                    "loadTrust", "selectServices", "round"}
         /\ s = After[k] =>
              \A j \in WriteLoops \ {k} : s \in Later(j) => k \in Later(j)
BY DEF After, AfterError, Later, Stages

-----------------------------------------------------------------------------

\* main() starts in the inductive invariant: nothing has run, and nothing is claimed.
THEOREM InitIInv == Init => IInv
<1> SUFFICES ASSUME Init PROVE IInv
  OBVIOUS
<1>1. TypeOK
  <2>1. /\ stage \in Stages
        /\ services \in [ReadLoops -> 0..MaxServices]
        /\ round \in 0..MaxRounds /\ svc \in 0..MaxServices /\ left \in Nat
    BY ProberAssumption DEF Init, Stages
  <2>2. /\ cert \in 0..MaxRounds
        /\ conflicts \in 0..(ConflictTries - 1)
        /\ deferred \in 0..MaxServices
        /\ verification \in [{"true", "false"} -> Nat]
    BY ProberAssumption DEF Init, ConflictTries
  <2>3. /\ runOnce \in BOOLEAN /\ pqcTrustedRoot \in BOOLEAN /\ hasErr \in BOOLEAN
        /\ logged \in BOOLEAN /\ lastErr \in BOOLEAN
    BY DEF Init
  <2>4. /\ exit \in {"none", "0", "1", "2"}
        /\ faults \subseteq {"read", "log", "write"}
        /\ proven \subseteq WriteLoops
    BY DEF Init
  <2> QED
    BY <2>1, <2>2, <2>3, <2>4 DEF TypeOK
<1>2. LoopBounds /\ RoundBounds /\ ErrorsTraced /\ LoopBlamed
  BY DEF Init, LoopBounds, RoundBounds, ErrorsTraced, LoopBlamed
<1>3. LoopsSettled
  BY DEF Init, LoopsSettled, Later
<1>4. EvidenceFits /\ ExitSettled
  BY DEF Init, EvidenceFits, ExitSettled, ExitZeroSound
<1> QED
  BY <1>1, <1>2, <1>3, <1>4 DEF IInv

-----------------------------------------------------------------------------
\* Every step of main() and of runProbers keeps the inductive invariant: one step of
\* the proof per action.
LEMMA StepIInv == IInv /\ [Next]_vars => IInv'
<1> SUFFICES ASSUME IInv, [Next]_vars PROVE IInv'
  OBVIOUS
<1>1. CASE StartupFails
  BY <1>1
  DEF IInv, TypeOK, LoopBounds, RoundBounds, ErrorsTraced, LoopsSettled, LoopBlamed,
      EvidenceFits, ExitSettled, ExitZeroSound, Later, StartupFails, Exit, Stages
<1>2. CASE LoadTrust
  BY <1>2
  DEF IInv, TypeOK, LoopBounds, RoundBounds, ErrorsTraced, LoopsSettled, LoopBlamed,
      EvidenceFits, ExitSettled, ExitZeroSound, Later, LoadTrust, Stages
<1>3. CASE SelectServices
  <2>1. TypeOK'
    BY <1>3 DEF IInv, TypeOK, Stages, SelectServices
  <2>2. LoopBounds' /\ RoundBounds'
    BY <1>3 DEF IInv, LoopBounds, RoundBounds, SelectServices
  <2>3. ErrorsTraced'
    BY <1>3 DEF IInv, ErrorsTraced, SelectServices
  <2>4. LoopsSettled'
    BY <1>3 DEF LoopsSettled, Later, SelectServices
  <2>5. LoopBlamed'
    BY <1>3 DEF IInv, LoopBlamed, SelectServices
  <2>6. EvidenceFits' /\ ExitSettled'
    BY <1>3 DEF IInv, EvidenceFits, ExitSettled, ExitZeroSound, SelectServices
  <2> QED
    BY <2>1, <2>2, <2>3, <2>4, <2>5, <2>6 DEF IInv
<1>4. CASE BeginRound
  <2>1. TypeOK'
    <3>1. stage' \in Stages /\ svc' \in 0..MaxServices /\ left' \in Nat
      BY <1>4, LoopSize DEF IInv, Stages, BeginRound, Goto
    <3>2. /\ hasErr' \in BOOLEAN /\ logged' \in BOOLEAN
          /\ lastErr' \in BOOLEAN /\ pqcTrustedRoot' \in BOOLEAN /\ runOnce' \in BOOLEAN
      BY <1>4 DEF IInv, TypeOK, BeginRound
    <3>3. /\ round' \in 0..MaxRounds /\ cert' \in 0..MaxRounds
          /\ conflicts' \in 0..(ConflictTries - 1) /\ deferred' \in 0..MaxServices
      BY <1>4, ProberAssumption DEF IInv, TypeOK, BeginRound
    <3>4. /\ services' \in [ReadLoops -> 0..MaxServices]
          /\ verification' \in [{"true", "false"} -> Nat]
      BY <1>4 DEF IInv, TypeOK, BeginRound
    <3>5. /\ exit' \in {"none", "0", "1", "2"}
          /\ faults' \subseteq {"read", "log", "write"} /\ proven' \subseteq WriteLoops
      BY <1>4 DEF IInv, TypeOK, BeginRound
    <3> QED
      BY <3>1, <3>2, <3>3, <3>4, <3>5 DEF TypeOK
  <2>2. LoopBounds' /\ RoundBounds'
    BY <1>4 DEF IInv, TypeOK, LoopBounds, RoundBounds, BeginRound, Goto
  <2>3. ErrorsTraced'
    BY <1>4 DEF IInv, ErrorsTraced, LoopBlamed, BeginRound, Goto
  <2>4. LoopsSettled'
    BY <1>4 DEF LoopsSettled, Later, BeginRound, Goto
  <2>5. LoopBlamed'
    BY <1>4 DEF IInv, LoopBlamed, BeginRound, Goto
  <2>6. EvidenceFits' /\ ExitSettled'
    BY <1>4 DEF IInv, EvidenceFits, ExitSettled, ExitZeroSound, BeginRound, Goto
  <2> QED
    BY <2>1, <2>2, <2>3, <2>4, <2>5, <2>6 DEF IInv
<1>5. CASE ShardCoverage
  <2>1. TypeOK'
    <3>1. stage' \in Stages /\ svc' \in 0..MaxServices /\ left' \in Nat
      BY <1>5 DEF IInv, TypeOK, ShardCoverage, EndpointCount
    <3>2. /\ hasErr' \in BOOLEAN /\ logged' \in BOOLEAN
          /\ lastErr' \in BOOLEAN /\ pqcTrustedRoot' \in BOOLEAN /\ runOnce' \in BOOLEAN
      BY <1>5 DEF IInv, TypeOK, ShardCoverage, Report
    <3>3. /\ round' \in 0..MaxRounds /\ cert' \in 0..MaxRounds
          /\ conflicts' \in 0..(ConflictTries - 1) /\ deferred' \in 0..MaxServices
      BY <1>5 DEF IInv, TypeOK, ShardCoverage
    <3>4. /\ services' \in [ReadLoops -> 0..MaxServices]
          /\ verification' \in [{"true", "false"} -> Nat]
      BY <1>5 DEF IInv, TypeOK, ShardCoverage
    <3>5. /\ exit' \in {"none", "0", "1", "2"}
          /\ faults' \subseteq {"read", "log", "write"} /\ proven' \subseteq WriteLoops
      BY <1>5 DEF IInv, TypeOK, ShardCoverage, Report
    <3> QED
      BY <3>1, <3>2, <3>3, <3>4, <3>5 DEF TypeOK
  <2>2. LoopBounds' /\ RoundBounds'
    BY <1>5 DEF IInv, LoopBounds, RoundBounds, ShardCoverage
  <2>3. ErrorsTraced'
    BY <1>5 DEF IInv, ErrorsTraced, ShardCoverage, Report
  <2>4. LoopsSettled'
    BY <1>5 DEF LoopsSettled, Later, ShardCoverage
  <2>5. LoopBlamed'
    BY <1>5 DEF IInv, LoopBlamed, ShardCoverage
  <2>6. EvidenceFits' /\ ExitSettled'
    BY <1>5 DEF IInv, EvidenceFits, ExitSettled, ExitZeroSound, ShardCoverage
  <2> QED
    BY <2>1, <2>2, <2>3, <2>4, <2>5, <2>6 DEF IInv
<1>6. CASE NextService
  <2>1. TypeOK'
    BY <1>6 DEF IInv, TypeOK, NextService, EndpointCount
  <2>2. LoopBounds' /\ RoundBounds'
    BY <1>6 DEF IInv, LoopBounds, RoundBounds, NextService
  <2>3. ErrorsTraced'
    BY <1>6 DEF IInv, ErrorsTraced, NextService
  <2>4. LoopsSettled'
    BY <1>6 DEF LoopsSettled, Later, NextService
  <2>5. LoopBlamed'
    BY <1>6 DEF IInv, LoopBlamed, NextService
  <2>6. EvidenceFits' /\ ExitSettled'
    BY <1>6 DEF IInv, EvidenceFits, ExitSettled, ExitZeroSound, NextService
  <2> QED
    BY <2>1, <2>2, <2>3, <2>4, <2>5, <2>6 DEF IInv
<1>7. CASE ReadEndpoint
  <2>1. TypeOK'
    <3>1. stage' \in Stages /\ svc' \in 0..MaxServices /\ left' \in Nat
      BY <1>7, ProberAssumption DEF IInv, TypeOK, LoopBounds, ReadEndpoint
    <3>2. /\ hasErr' \in BOOLEAN /\ logged' \in BOOLEAN
          /\ lastErr' \in BOOLEAN /\ pqcTrustedRoot' \in BOOLEAN /\ runOnce' \in BOOLEAN
      BY <1>7 DEF IInv, TypeOK, ReadEndpoint, Report
    <3>3. /\ round' \in 0..MaxRounds /\ cert' \in 0..MaxRounds
          /\ conflicts' \in 0..(ConflictTries - 1) /\ deferred' \in 0..MaxServices
      BY <1>7 DEF IInv, TypeOK, ReadEndpoint
    <3>4. /\ services' \in [ReadLoops -> 0..MaxServices]
          /\ verification' \in [{"true", "false"} -> Nat]
      BY <1>7 DEF IInv, TypeOK, ReadEndpoint
    <3>5. /\ exit' \in {"none", "0", "1", "2"}
          /\ faults' \subseteq {"read", "log", "write"} /\ proven' \subseteq WriteLoops
      BY <1>7 DEF IInv, TypeOK, ReadEndpoint, Report
    <3> QED
      BY <3>1, <3>2, <3>3, <3>4, <3>5 DEF TypeOK
  <2>2. LoopBounds' /\ RoundBounds'
    BY <1>7 DEF IInv, LoopBounds, RoundBounds, ReadEndpoint
  <2>3. ErrorsTraced'
    BY <1>7 DEF IInv, ErrorsTraced, ReadEndpoint, Report
  <2>4. LoopsSettled'
    BY <1>7 DEF LoopsSettled, Later, ReadEndpoint
  <2>5. LoopBlamed'
    BY <1>7 DEF IInv, LoopBlamed, ReadEndpoint
  <2>6. EvidenceFits' /\ ExitSettled'
    BY <1>7 DEF IInv, EvidenceFits, ExitSettled, ExitZeroSound, ReadEndpoint
  <2> QED
    BY <2>1, <2>2, <2>3, <2>4, <2>5, <2>6 DEF IInv
<1>8. CASE NextReadLoop
  <2>1. TypeOK'
    BY <1>8 DEF IInv, TypeOK, Stages, NextReadLoop, Goto, Loop, After
  <2>2. LoopBounds' /\ RoundBounds'
    BY <1>8 DEF IInv, LoopBounds, RoundBounds, NextReadLoop, Goto, After
  <2>3. ErrorsTraced'
    BY <1>8 DEF IInv, ErrorsTraced, NextReadLoop, Goto, After
  <2>4. LoopsSettled'
    BY <1>8 DEF LoopsSettled, Later, NextReadLoop, Goto, After
  <2>5. LoopBlamed'
    BY <1>8 DEF IInv, LoopBlamed, NextReadLoop, Goto, After
  <2>6. EvidenceFits' /\ ExitSettled'
    BY <1>8
    DEF IInv, EvidenceFits, ExitSettled, ExitZeroSound, NextReadLoop, Goto, After
  <2> QED
    BY <2>1, <2>2, <2>3, <2>4, <2>5, <2>6 DEF IInv
<1>9. CASE GetTrustBundle
  <2>1. TypeOK'
    <3>1. stage' \in Stages /\ svc' \in 0..MaxServices /\ left' \in Nat
      BY <1>9, ProberAssumption DEF Stages, GetTrustBundle, Goto, Loop, After
    <3>2. /\ hasErr' \in BOOLEAN /\ logged' \in BOOLEAN
          /\ lastErr' \in BOOLEAN /\ pqcTrustedRoot' \in BOOLEAN /\ runOnce' \in BOOLEAN
      BY <1>9 DEF IInv, TypeOK, GetTrustBundle, Report
    <3>3. /\ round' \in 0..MaxRounds /\ cert' \in 0..MaxRounds
          /\ conflicts' \in 0..(ConflictTries - 1) /\ deferred' \in 0..MaxServices
      BY <1>9 DEF IInv, TypeOK, GetTrustBundle
    <3>4. /\ services' \in [ReadLoops -> 0..MaxServices]
          /\ verification' \in [{"true", "false"} -> Nat]
      BY <1>9 DEF IInv, TypeOK, GetTrustBundle
    <3>5. /\ exit' \in {"none", "0", "1", "2"}
          /\ faults' \subseteq {"read", "log", "write"} /\ proven' \subseteq WriteLoops
      BY <1>9 DEF IInv, TypeOK, GetTrustBundle, Report
    <3> QED
      BY <3>1, <3>2, <3>3, <3>4, <3>5 DEF TypeOK
  <2>2. LoopBounds' /\ RoundBounds'
    BY <1>9 DEF IInv, LoopBounds, RoundBounds, GetTrustBundle, Goto, After
  <2>3. ErrorsTraced'
    BY <1>9 DEF IInv, ErrorsTraced, GetTrustBundle, Goto, After, Report
  <2>4. LoopsSettled'
    BY <1>9 DEF LoopsSettled, Later, GetTrustBundle, Goto, After
  <2>5. LoopBlamed'
    BY <1>9 DEF IInv, LoopBlamed, GetTrustBundle, Goto, After
  <2>6. EvidenceFits' /\ ExitSettled'
    BY <1>9
    DEF IInv, EvidenceFits, ExitSettled, ExitZeroSound, GetTrustBundle, Goto, After
  <2> QED
    BY <2>1, <2>2, <2>3, <2>4, <2>5, <2>6 DEF IInv
<1>10. CASE FulcioWrite
  <2>1. TypeOK'
    <3>1. stage' \in Stages /\ svc' \in 0..MaxServices /\ left' \in Nat
      BY <1>10, ProberAssumption DEF Stages, FulcioWrite, Goto, Loop, After
    <3>2. /\ hasErr' \in BOOLEAN /\ logged' \in BOOLEAN
          /\ lastErr' \in BOOLEAN /\ pqcTrustedRoot' \in BOOLEAN /\ runOnce' \in BOOLEAN
      BY <1>10 DEF IInv, TypeOK, FulcioWrite, Report
    <3>3. /\ round' \in 0..MaxRounds /\ cert' \in 0..MaxRounds
          /\ conflicts' \in 0..(ConflictTries - 1) /\ deferred' \in 0..MaxServices
      BY <1>10, ProberAssumption DEF IInv, TypeOK, FulcioWrite, FulcioCert
    <3>4. /\ services' \in [ReadLoops -> 0..MaxServices]
          /\ verification' \in [{"true", "false"} -> Nat]
      BY <1>10 DEF IInv, TypeOK, FulcioWrite
    <3>5. /\ exit' \in {"none", "0", "1", "2"}
          /\ faults' \subseteq {"read", "log", "write"} /\ proven' \subseteq WriteLoops
      BY <1>10 DEF IInv, TypeOK, FulcioWrite, Report
    <3> QED
      BY <3>1, <3>2, <3>3, <3>4, <3>5 DEF TypeOK
  <2>2. LoopBounds' /\ RoundBounds'
    BY <1>10 DEF IInv, LoopBounds, RoundBounds, FulcioWrite, Goto, After
  <2>3. ErrorsTraced'
    BY <1>10 DEF IInv, ErrorsTraced, FulcioWrite, Goto, After, Report, FulcioCert
  <2>4. LoopsSettled'
    BY <1>10 DEF LoopsSettled, Later, FulcioWrite, Goto, After
  <2>5. LoopBlamed'
    BY <1>10 DEF IInv, LoopBlamed, FulcioWrite, Goto, After
  <2>6. EvidenceFits' /\ ExitSettled'
    BY <1>10
    DEF IInv, EvidenceFits, ExitSettled, ExitZeroSound, FulcioWrite, Goto, After,
        FulcioCert
  <2> QED
    BY <2>1, <2>2, <2>3, <2>4, <2>5, <2>6 DEF IInv
<1>11. CASE FulcioLegacyWrite
  <2>1. TypeOK'
    BY <1>11 DEF IInv, TypeOK, Stages, FulcioLegacyWrite, Goto, Loop, After, Report
  <2>2. LoopBounds' /\ RoundBounds'
    BY <1>11
    DEF IInv, TypeOK, LoopBounds, RoundBounds, FulcioLegacyWrite, Goto, Loop
  <2>3. ErrorsTraced'
    <3>1. ~lastErr'
      BY <1>11 DEF IInv, LoopBlamed, FulcioLegacyWrite
    <3> QED
      BY <1>11, <3>1
      DEF IInv, TypeOK, ErrorsTraced, FulcioLegacyWrite, Goto, Loop, Report
  <2>4. LoopsSettled'
    BY <1>11 DEF LoopsSettled, Later, FulcioLegacyWrite, Goto, After
  <2>5. LoopBlamed'
    BY <1>11 DEF IInv, TypeOK, LoopBlamed, FulcioLegacyWrite, Goto, Loop
  <2>6. EvidenceFits' /\ ExitSettled'
    BY <1>11
    DEF IInv, EvidenceFits, ExitSettled, ExitZeroSound, FulcioLegacyWrite, Goto,
        After
  <2> QED
    BY <2>1, <2>2, <2>3, <2>4, <2>5, <2>6 DEF IInv
<1>12. CASE KeyGenerationFails
  BY <1>12
  DEF IInv, TypeOK, LoopBounds, RoundBounds, ErrorsTraced, LoopsSettled, LoopBlamed,
      EvidenceFits, ExitSettled, ExitZeroSound, Later, KeyGenerationFails, Exit, Stages
<1>13. CASE Panic
  BY <1>13
  DEF IInv, TypeOK, LoopBounds, RoundBounds, ErrorsTraced, LoopsSettled, LoopBlamed,
      EvidenceFits, ExitSettled, ExitZeroSound, Later, Panic, Exit, Stages
<1>14. CASE Conflict
  BY <1>14
  DEF IInv, TypeOK, LoopBounds, RoundBounds, ErrorsTraced, LoopsSettled, LoopBlamed,
      EvidenceFits, ExitSettled, ExitZeroSound, Proven, Conflict, ConflictTries
<1>15. ASSUME NEW k \in WriteLoops, LocalFailure(k) PROVE IInv'
  <2>1. TypeOK'
    BY <1>15, AfterWrite, LoopSize DEF IInv, TypeOK, LocalFailure, Goto, Report
  <2>2. LoopBounds' /\ RoundBounds'
    BY <1>15, AfterWrite, LoopSize
    DEF IInv, TypeOK, LoopBounds, RoundBounds, LocalFailure, Goto
  <2>3. ErrorsTraced'
    <3>1. ~lastErr'
      BY <1>15, LoopSize DEF IInv, TypeOK, LoopBlamed, LocalFailure
    <3> QED
      BY <1>15, <3>1 DEF ErrorsTraced, LocalFailure, Report
  <2>4. LoopsSettled'
    BY <1>15 DEF LoopsSettled, LocalFailure, Report
  <2>5. LoopBlamed'
    BY <1>15, AfterWrite, LoopSize DEF IInv, TypeOK, LoopBlamed, LocalFailure, Goto
  <2>6. EvidenceFits' /\ ExitSettled'
    BY <1>15, AfterWrite
    DEF IInv, EvidenceFits, ExitSettled, ExitZeroSound, LocalFailure, Goto
  <2> QED
    BY <2>1, <2>2, <2>3, <2>4, <2>5, <2>6 DEF IInv
<1>16. ASSUME NEW k \in WriteLoops, ServiceFails(k) PROVE IInv'
  <2>1. TypeOK'
    <3>1. stage' \in Stages /\ svc' \in 0..MaxServices /\ left' \in Nat
      BY <1>16, ProberAssumption DEF IInv, TypeOK, ServiceFails
    <3>2. /\ hasErr' \in BOOLEAN /\ logged' \in BOOLEAN
          /\ lastErr' \in BOOLEAN /\ pqcTrustedRoot' \in BOOLEAN /\ runOnce' \in BOOLEAN
      BY <1>16 DEF IInv, TypeOK, ServiceFails
    <3>3. /\ round' \in 0..MaxRounds /\ cert' \in 0..MaxRounds
          /\ conflicts' \in 0..(ConflictTries - 1) /\ deferred' \in 0..MaxServices
      BY <1>16, ProberAssumption
      DEF IInv, TypeOK, ConflictTries, LoopBounds, ServiceFails, Increment
    <3>4. /\ services' \in [ReadLoops -> 0..MaxServices]
          /\ verification' \in [{"true", "false"} -> Nat]
      BY <1>16 DEF IInv, TypeOK, ServiceFails
    <3>5. /\ exit' \in {"none", "0", "1", "2"}
          /\ faults' \subseteq {"read", "log", "write"} /\ proven' \subseteq WriteLoops
      BY <1>16 DEF IInv, TypeOK, ServiceFails, FaultClass
    <3> QED
      BY <3>1, <3>2, <3>3, <3>4, <3>5 DEF TypeOK
  <2>2. LoopBounds' /\ RoundBounds'
    BY <1>16 DEF IInv, TypeOK, LoopBounds, RoundBounds, ServiceFails, Increment
  <2>3. ErrorsTraced'
    <3>1. /\ stage \in WriteLoops /\ svc > 0 /\ svc <= services[Target[k]]
          /\ hasErr' = hasErr /\ faults \subseteq faults'
      BY <1>16 DEF ServiceFails, IInv, LoopBounds
    <3>2. Accepts(k)
      <4>1. /\ cert \in {NoCert, round}
            /\ Target[k] = "identity" => pqcTrustedRoot
        BY <3>1 DEF IInv, TypeOK, EvidenceFits
      <4> QED
        BY <4>1 DEF Accepts
    <3>3. faults' = faults \cup {FaultClass(k)} /\ FaultClass(k) # "read"
      BY <1>16, <3>2 DEF ServiceFails, FaultClass
    <3>4. stage' = k
      BY <1>16 DEF ServiceFails
    <3> QED
      BY <3>1, <3>3, <3>4 DEF IInv, ErrorsTraced
  <2>4. LoopsSettled'
    BY <1>16 DEF IInv, LoopsSettled, Proven, ServiceFails
  <2>5. LoopBlamed'
    <3>1. /\ stage = k /\ stage' = k /\ services' = services
          /\ svc' = svc - 1 /\ svc <= services[Target[k]]
      BY <1>16 DEF ServiceFails, IInv, LoopBounds
    <3>2. services[Target[k]] \in Nat /\ svc \in Nat
      BY DEF IInv, TypeOK
    <3>3. k # "tsaWriteEndpoint" => lastErr'
      BY <1>16 DEF ServiceFails
    <3> QED
      BY <3>1, <3>2, <3>3 DEF LoopBlamed
  <2>6. EvidenceFits' /\ ExitSettled'
    BY <1>16 DEF IInv, EvidenceFits, ExitSettled, ExitZeroSound, ServiceFails
  <2> QED
    BY <2>1, <2>2, <2>3, <2>4, <2>5, <2>6 DEF IInv
<1>17. ASSUME NEW k \in WriteLoops, ServiceVerifies(k) PROVE IInv'
  <2>1. TypeOK'
    <3>1. stage' \in Stages /\ svc' \in 0..MaxServices /\ left' \in Nat
      BY <1>17, AfterWrite, LoopSize DEF IInv, ServiceVerifies, Goto
    <3>2. /\ hasErr' \in BOOLEAN /\ logged' \in BOOLEAN
          /\ lastErr' \in BOOLEAN /\ pqcTrustedRoot' \in BOOLEAN /\ runOnce' \in BOOLEAN
      BY <1>17 DEF IInv, TypeOK, ServiceVerifies, RunDeferred
    <3>3. /\ round' \in 0..MaxRounds /\ cert' \in 0..MaxRounds
          /\ conflicts' \in 0..(ConflictTries - 1) /\ deferred' \in 0..MaxServices
      BY <1>17, ProberAssumption
      DEF IInv, TypeOK, ConflictTries, ServiceVerifies, RunDeferred
    <3>4. /\ services' \in [ReadLoops -> 0..MaxServices]
          /\ verification' \in [{"true", "false"} -> Nat]
      BY <1>17 DEF IInv, TypeOK, ServiceVerifies, RunDeferred, Increment
    <3>5. /\ exit' \in {"none", "0", "1", "2"}
          /\ faults' \subseteq {"read", "log", "write"} /\ proven' \subseteq WriteLoops
      BY <1>17 DEF IInv, TypeOK, ServiceVerifies
    <3> QED
      BY <3>1, <3>2, <3>3, <3>4, <3>5 DEF TypeOK
  <2>2. LoopBounds' /\ RoundBounds'
    BY <1>17, AfterWrite, LoopSize
    DEF IInv, LoopBounds, RoundBounds, ServiceVerifies, RunDeferred, Goto
  <2>3. ErrorsTraced'
    BY <1>17, AfterWrite, LoopSize
    DEF IInv, ErrorsTraced, ServiceVerifies, RunDeferred, Goto
  <2>4. LoopsSettled'
    <3> SUFFICES ASSUME RunWriteProber, NEW j \in WriteLoops, stage' \in Later(j), ~hasErr'
                 PROVE  Proven(j)'
      BY DEF LoopsSettled
    <3>1. /\ stage = k /\ stage' = After[k] /\ proven' = proven \cup {k}
          /\ services' = services /\ ~hasErr
      BY <1>17 DEF ServiceVerifies, Goto
    <3>2. CASE j = k
      BY <3>1, <3>2 DEF Proven
    <3>3. CASE j # k
      <4>1. k \in Later(j)
        BY <3>1, <3>3, AfterWrite
      <4> QED
        BY <3>1, <4>1 DEF IInv, LoopsSettled, Proven
    <3> QED
      BY <3>2, <3>3
  <2>5. LoopBlamed'
    BY <1>17, AfterWrite, LoopSize
    DEF IInv, LoopBlamed, ServiceVerifies, RunDeferred, Goto
  <2>6. EvidenceFits' /\ ExitSettled'
    BY <1>17, AfterWrite
    DEF IInv, EvidenceFits, ExitSettled, ExitZeroSound, ServiceVerifies, Goto
  <2> QED
    BY <2>1, <2>2, <2>3, <2>4, <2>5, <2>6 DEF IInv
<1>18. ASSUME NEW k \in WriteLoops, LoopExhausted(k) PROVE IInv'
  <2>1. TypeOK'
    <3>1. stage' \in Stages /\ svc' \in 0..MaxServices /\ left' \in Nat
      BY <1>18, AfterWrite, LoopSize DEF IInv, LoopExhausted, Goto
    <3>2. /\ hasErr' \in BOOLEAN /\ logged' \in BOOLEAN
          /\ lastErr' \in BOOLEAN /\ pqcTrustedRoot' \in BOOLEAN /\ runOnce' \in BOOLEAN
      BY <1>18 DEF IInv, TypeOK, LoopExhausted, RunDeferred
    <3>3. /\ round' \in 0..MaxRounds /\ cert' \in 0..MaxRounds
          /\ conflicts' \in 0..(ConflictTries - 1) /\ deferred' \in 0..MaxServices
      BY <1>18 DEF IInv, TypeOK, ConflictTries, LoopExhausted, RunDeferred
    <3>4. /\ services' \in [ReadLoops -> 0..MaxServices]
          /\ verification' \in [{"true", "false"} -> Nat]
      BY <1>18 DEF IInv, TypeOK, LoopExhausted, RunDeferred
    <3>5. /\ exit' \in {"none", "0", "1", "2"}
          /\ faults' \subseteq {"read", "log", "write"} /\ proven' \subseteq WriteLoops
      BY <1>18 DEF IInv, TypeOK, LoopExhausted
    <3> QED
      BY <3>1, <3>2, <3>3, <3>4, <3>5 DEF TypeOK
  <2>2. LoopBounds' /\ RoundBounds'
    BY <1>18, AfterWrite, LoopSize
    DEF IInv, LoopBounds, RoundBounds, LoopExhausted, RunDeferred, Goto
  <2>3. ErrorsTraced'
    BY <1>18, AfterWrite, LoopSize
    DEF IInv, ErrorsTraced, RoundBounds, LoopExhausted, RunDeferred, EndpointError,
        Goto
  <2>4. LoopsSettled'
    BY <1>18, AfterWrite
    DEF IInv, TypeOK, LoopsSettled, Proven, LoopBlamed, LoopExhausted,
        EndpointError, Goto
  <2>5. LoopBlamed'
    BY <1>18, AfterWrite, LoopSize
    DEF IInv, LoopBlamed, LoopExhausted, RunDeferred, Goto
  <2>6. EvidenceFits' /\ ExitSettled'
    BY <1>18, AfterWrite
    DEF IInv, EvidenceFits, ExitSettled, ExitZeroSound, LoopExhausted, Goto
  <2> QED
    BY <2>1, <2>2, <2>3, <2>4, <2>5, <2>6 DEF IInv
<1>19. CASE RoundEnd
  <2>1. TypeOK'
    BY <1>19 DEF IInv, TypeOK, Stages, RoundEnd, Exit
  <2>2. LoopBounds' /\ RoundBounds'
    BY <1>19 DEF IInv, LoopBounds, RoundBounds, RoundEnd, Exit
  <2>3. ErrorsTraced'
    BY <1>19 DEF IInv, ErrorsTraced, RoundEnd, Exit
  <2>4. LoopsSettled'
    BY <1>19 DEF LoopsSettled, Later, RoundEnd, Exit
  <2>5. LoopBlamed'
    BY <1>19 DEF IInv, LoopBlamed, RoundEnd, Exit
  <2>6. EvidenceFits' /\ ExitSettled'
    BY <1>19
    DEF IInv, EvidenceFits, ExitSettled, ExitZeroSound, LoopsSettled, ErrorsTraced,
        Later, Proven, RoundEnd, Exit
  <2> QED
    BY <2>1, <2>2, <2>3, <2>4, <2>5, <2>6 DEF IInv
<1>20. CASE MetricsServerFails
  BY <1>20
  DEF IInv, TypeOK, LoopBounds, RoundBounds, ErrorsTraced, LoopsSettled, LoopBlamed,
      EvidenceFits, ExitSettled, ExitZeroSound, Later, MetricsServerFails, Exit,
      Stages
<1>21. CASE Done \/ UNCHANGED vars
  BY <1>21
  DEF IInv, TypeOK, LoopBounds, RoundBounds, ErrorsTraced, LoopsSettled, LoopBlamed,
      EvidenceFits, ExitSettled, ExitZeroSound, Later, Proven, Done, vars
<1> QED
  BY <1>1, <1>2, <1>3, <1>4, <1>5, <1>6, <1>7, <1>8, <1>9, <1>10, <1>11, <1>12, <1>13,
     <1>14, <1>15, <1>16, <1>17, <1>18, <1>19, <1>20, <1>21
  DEF Next, ProberStep, ReadStep, WriteStep

-----------------------------------------------------------------------------

\* The inductive invariant holds in every reachable state.
THEOREM Invariance == Spec => []IInv
<1>1. Init => IInv
  BY InitIInv
<1>2. IInv /\ [Next]_vars => IInv'
  BY StepIInv
<1> QED
  BY <1>1, <1>2, PTL DEF Spec

\* The variables of main() and runProbers() keep their types, and no loop, no
\* conflict retry and no deferred increment leaves its bounds.
THEOREM TypeCorrect == Spec => []TypeOK
<1>1. IInv => TypeOK
  BY DEF IInv
<1> QED
  BY <1>1, Invariance, PTL

\* The one-time prober exits with status 0 only after every read check succeeded
\* and every write endpoint that has a service verified an answer of one.
THEOREM ExitZeroIsSound == Spec => []ExitZeroSound
<1>1. IInv => ExitZeroSound
  BY DEF IInv, ExitSettled
<1> QED
  BY <1>1, Invariance, PTL

\* runProbers raises hasErr only in a round in which something it probes failed, and
\* a write endpoint holds an error only if a service of its own kind failed.
THEOREM NoAlarmWithoutFault == Spec => []NoFalseAlarm
<1>1. IInv => NoFalseAlarm
  BY DEF IInv, ErrorsTraced, NoFalseAlarm
<1> QED
  BY <1>1, Invariance, PTL

\* An error that is logged and does not fail the prober is one of a certificate response.
THEOREM LoggedErrorsFail == Spec => []LoggedErrorFails
<1> DEFINE Inv == /\ logged /\ ~hasErr => "write" \in faults
                  /\ exit = "0" => ~hasErr
<1>1. Init => Inv
  BY DEF Init
<1>2. Inv /\ IInv /\ [Next]_vars => Inv'
  <2> SUFFICES ASSUME Inv, IInv, [Next]_vars PROVE Inv'
    OBVIOUS
  <2> USE DEF IInv, ExitSettled
  <2>1. CASE ReadStep
    BY <2>1 DEF ReadStep, BeginRound, ShardCoverage, NextService, ReadEndpoint,
                NextReadLoop, GetTrustBundle, Report, Goto
  <2>2. CASE WriteStep
    <3>1. ASSUME NEW k \in WriteLoops, LocalFailure(k) PROVE Inv'
      BY <3>1 DEF LocalFailure, Report
    <3>2. ASSUME NEW k \in WriteLoops, ServiceFails(k) PROVE Inv'
      BY <3>2 DEF ServiceFails
    <3>3. ASSUME NEW k \in WriteLoops, ServiceVerifies(k) PROVE Inv'
      BY <3>3 DEF ServiceVerifies
    <3>4. ASSUME NEW k \in WriteLoops, LoopExhausted(k) PROVE Inv'
      BY <3>4 DEF LoopExhausted
    <3>5. CASE FulcioWrite
      <4>1. CASE cert' = FulcioCert(TRUE) /\ UNCHANGED errVars
        BY <3>5, <4>1 DEF FulcioWrite
      <4>2. CASE Report("write")
        BY <3>5, <4>2 DEF FulcioWrite, Report
      <4>3. CASE logged' = TRUE /\ faults' = faults \cup {"write"} /\ UNCHANGED hasErr
        BY <3>5, <4>3 DEF FulcioWrite
      <4> QED
        BY <3>5, <4>1, <4>2, <4>3 DEF FulcioWrite
    <3>6. CASE FulcioLegacyWrite
      BY <3>6 DEF FulcioLegacyWrite, Report
    <3>7. CASE KeyGenerationFails \/ Panic \/ Conflict
      BY <3>7 DEF KeyGenerationFails, Panic, Conflict, Exit
    <3> QED
      BY <2>2, <3>1, <3>2, <3>3, <3>4, <3>5, <3>6, <3>7 DEF WriteStep
  <2>3. CASE StartupFails \/ LoadTrust \/ SelectServices \/ RoundEnd
    BY <2>3 DEF StartupFails, LoadTrust, SelectServices, RoundEnd, Exit
  <2>4. CASE MetricsServerFails \/ Done \/ UNCHANGED vars
    BY <2>4 DEF MetricsServerFails, Done, Exit, vars
  <2> QED
    BY <2>1, <2>2, <2>3, <2>4 DEF Next, ProberStep
<1>3. Inv => LoggedErrorFails
  BY DEF LoggedErrorFails
<1> QED
  BY <1>1, <1>2, <1>3, Invariance, PTL DEF Spec

\* The exit status of the one-time prober is sound, and so is its log.
THEOREM StatusIsSound == Spec => []StatusSound
BY ExitZeroIsSound, LoggedErrorsFail, PTL DEF StatusSound

-----------------------------------------------------------------------------
(* What the counter tells of the rounds *)

Startup == {"loadTrust", "selectServices"}

\* A log's failure is counted, or will be when the loop returns, which it has before
\* the process exits with status 0.
Masked ==
  /\ "log" \in faults => verification["false"] + deferred > 0
  /\ exit = "0" => deferred = 0

\* A write loop has verified an answer only once it is over.
Unproven == \A k \in WriteLoops : k \in proven => stage \in Later(k) \cup {"round", "exited"}

CInv == IInv /\ Masked /\ Unproven

-----------------------------------------------------------------------------

\* The counters are numbers.
LEMMA Numbers ==
  ASSUME TypeOK
  PROVE  /\ services["rekorV1"] \in Nat /\ services["rekorV2"] \in Nat
         /\ svc \in Nat /\ round \in Nat /\ deferred \in Nat
         /\ verification["true"] \in Nat /\ verification["false"] \in Nat
<1>1. services["rekorV1"] \in 0..MaxServices /\ services["rekorV2"] \in 0..MaxServices
  BY DEF TypeOK
<1>2. svc \in 0..MaxServices /\ round \in 0..MaxRounds /\ deferred \in 0..MaxServices
  BY DEF TypeOK
<1>3. MaxServices \in Nat /\ MaxRounds \in Nat
  BY ProberAssumption
<1> QED
  BY <1>1, <1>2, <1>3 DEF TypeOK

\* The return of a loop moves the deferred increments to the counters.
LEMMA Deferral ==
  ASSUME TypeOK, NEW n \in {0, 1}, RunDeferred(n)
  PROVE  /\ verification'["true"] = verification["true"] + n
         /\ verification'["false"] = verification["false"] + deferred
         /\ deferred' = 0
<1>1. verification' = [verification EXCEPT !["true"]  = verification["true"] + n,
                                           !["false"] = verification["false"] + deferred]
  BY DEF RunDeferred
<1>2. /\ verification'["true"] = verification["true"] + n
      /\ verification'["false"] = verification["false"] + deferred
  BY <1>1 DEF TypeOK
<1> QED
  BY <1>2 DEF RunDeferred

-----------------------------------------------------------------------------

\* main() starts with nothing counted.
LEMMA InitCInv == Init => CInv
<1> SUFFICES ASSUME Init PROVE CInv
  OBVIOUS
<1>1. IInv
  BY InitIInv
<1>2. Masked /\ Unproven
  BY DEF Init, Masked, Unproven
<1> QED
  BY <1>1, <1>2 DEF CInv

\* The steps that count nothing: every one but those of the write loops' services.
Quiet == UNCHANGED <<verification, deferred>>

QuietStep ==
  \/ StartupFails \/ LoadTrust \/ SelectServices \/ BeginRound \/ ShardCoverage
  \/ NextService \/ ReadEndpoint \/ NextReadLoop \/ GetTrustBundle
  \/ KeyGenerationFails \/ FulcioWrite \/ FulcioLegacyWrite \/ Panic \/ Conflict
  \/ \E k \in WriteLoops : LocalFailure(k)
  \/ RoundEnd \/ MetricsServerFails \/ Done \/ UNCHANGED vars

\* Those steps add no fault of a log.
LEMMA QuietMasked == ASSUME CInv, QuietStep PROVE Quiet /\ Masked'
<1>1. /\ UNCHANGED <<verification, deferred>>
      /\ faults' \subseteq faults \cup {"read", "write"}
  BY DEF QuietStep, StartupFails, LoadTrust, SelectServices, BeginRound, ShardCoverage,
         NextService, ReadEndpoint, NextReadLoop, GetTrustBundle, KeyGenerationFails,
         FulcioWrite, FulcioLegacyWrite, Panic, Conflict, LocalFailure, RoundEnd,
         MetricsServerFails, Done, vars, Report
<1>2. exit' # exit /\ exit' = "0" => stage = "roundEnd"
  BY DEF QuietStep, StartupFails, LoadTrust, SelectServices, BeginRound, ShardCoverage,
         NextService, ReadEndpoint, NextReadLoop, GetTrustBundle, KeyGenerationFails,
         FulcioWrite, FulcioLegacyWrite, Panic, Conflict, LocalFailure, RoundEnd,
         MetricsServerFails, Done, vars, Exit
<1>3. stage = "roundEnd" => deferred = 0
  BY DEF CInv, IInv, LoopBounds
<1> QED
  BY <1>1, <1>2, <1>3 DEF CInv, Masked, Quiet

\* Nor do they prove anything, or return to a loop that did.
LEMMA QuietUnproven == ASSUME CInv, QuietStep PROVE Unproven'
<1>1. CASE BeginRound
  BY <1>1 DEF BeginRound, Unproven
<1>2. CASE ~BeginRound
  <2>1. UNCHANGED proven
    BY <1>2 DEF QuietStep, StartupFails, LoadTrust, SelectServices, ShardCoverage,
         NextService, ReadEndpoint, NextReadLoop, GetTrustBundle, KeyGenerationFails,
         FulcioWrite, FulcioLegacyWrite, Panic, Conflict, LocalFailure, RoundEnd,
         MetricsServerFails, Done, vars
  <2>2. \/ stage' \in {stage, "exited"}
        \/ stage \in Startup \cup ReadLoops \cup
             {"grpc", "fulcioWriteEndpoint", "fulcioWriteLegacyEndpoint"}
        \/ stage = "roundEnd" /\ stage' = "round"
        \/ \E k \in WriteLoops : stage = k /\ stage' = AfterError(k)
    BY <1>2 DEF QuietStep, StartupFails, LoadTrust, SelectServices, ShardCoverage,
         NextService, ReadEndpoint, NextReadLoop, GetTrustBundle, KeyGenerationFails,
         FulcioWrite, FulcioLegacyWrite, Panic, Conflict, LocalFailure, RoundEnd,
         MetricsServerFails, Done, vars, Exit, Startup, Goto
  <2>3. \A j, k \in WriteLoops : k \in Later(j) => AfterError(k) \in Later(j)
    BY DEF Later, AfterError, After
  <2>4. \A j \in WriteLoops : Later(j) \subseteq WriteLoops \cup {"roundEnd"}
    BY DEF Later
  <2> QED
    BY <2>1, <2>2, <2>3, <2>4 DEF CInv, Unproven, Startup
<1> QED
  BY <1>1, <1>2

-----------------------------------------------------------------------------

\* A service that failed is counted if it is a Rekor log of a write loop.
LEMMA FailureKeeps ==
  ASSUME CInv, TypeOK', LoopBounds', NEW k \in WriteLoops, ServiceFails(k)
  PROVE  Masked' /\ Unproven'
<1>1. TypeOK /\ LoopBounds
  BY DEF CInv, IInv
<1>2. /\ stage = k /\ stage' = k /\ svc > 0 /\ svc' = svc - 1
      /\ UNCHANGED <<round, services, verification, exit, proven>>
      /\ deferred' = deferred + Increment(k)
      /\ faults' \subseteq faults \cup {FaultClass(k)}
  BY DEF ServiceFails
<1>3. /\ verification["false"] \in Nat /\ deferred \in Nat
      /\ exit = "none"
  BY <1>1, <1>2, Numbers DEF CInv, IInv, ExitSettled, TypeOK
<1>4. FaultClass(k) = "log" => deferred' = deferred + 1
  BY <1>2 DEF FaultClass, Increment
<1>5. deferred' \in Nat /\ deferred' >= deferred
  BY <1>2, <1>3 DEF Increment
<1>6. Masked'
  BY <1>2, <1>3, <1>4, <1>5 DEF CInv, Masked
<1> QED
  BY <1>2, <1>6 DEF CInv, Unproven

\* A service that verified is the last one of its loop.
LEMMA SuccessKeeps ==
  ASSUME CInv, TypeOK', LoopBounds', NEW k \in WriteLoops, ServiceVerifies(k)
  PROVE  Masked' /\ Unproven'
<1>1. TypeOK /\ LoopBounds
  BY DEF CInv, IInv
<1>2. /\ stage = k /\ stage' = After[k] /\ svc > 0 /\ svc' = Loop(After[k])
      /\ UNCHANGED <<round, services, exit, faults>>
      /\ proven' = proven \cup {k} /\ RunDeferred(Increment(k))
  BY DEF ServiceVerifies, Goto
<1>3. Increment(k) \in {0, 1} /\ (k \in Counted => Increment(k) = 1)
  BY DEF Increment
<1>4. /\ verification'["false"] = verification["false"] + deferred
      /\ deferred' = 0
  BY <1>1, <1>2, <1>3, Deferral
<1>5. Masked'
  <2>1. verification["false"] \in Nat /\ deferred \in Nat
    BY <1>1, Numbers
  <2> QED
    BY <1>2, <1>4, <2>1 DEF CInv, Masked
<1>6. Unproven'
  <2>1. \A j \in WriteLoops : k \in Later(j) => After[k] \in Later(j)
    BY DEF Later, After
  <2>2. After[k] \in Later(k)
    BY DEF Later, After
  <2> QED
    BY <1>2, <2>1, <2>2 DEF CInv, Unproven
<1> QED
  BY <1>5, <1>6

\* A loop that verified nothing has visited every service it had.
LEMMA ExhaustionKeeps ==
  ASSUME CInv, TypeOK', LoopBounds', NEW k \in WriteLoops, LoopExhausted(k)
  PROVE  Masked' /\ Unproven'
<1>1. TypeOK /\ LoopBounds
  BY DEF CInv, IInv
<1>2. /\ stage = k /\ stage' \in {After[k], AfterError(k)} /\ svc = 0
      /\ svc' = Loop(stage') /\ RunDeferred(0)
      /\ UNCHANGED <<round, services, exit, faults, proven>>
  BY DEF LoopExhausted, Goto
<1>3. /\ verification'["false"] = verification["false"] + deferred
      /\ deferred' = 0
  BY <1>1, <1>2, Deferral
<1>4. Masked'
  <2>1. verification["false"] \in Nat /\ deferred \in Nat
    BY <1>1, Numbers
  <2> QED
    BY <1>2, <1>3, <2>1 DEF CInv, Masked
<1>5. Unproven'
  <2>1. \A j \in WriteLoops : k \in Later(j) => {After[k], AfterError(k)} \subseteq Later(j)
    BY DEF Later, After, AfterError
  <2> QED
    BY <1>2, <2>1 DEF CInv, Unproven
<1> QED
  BY <1>4, <1>5

\* Every step keeps the count.
LEMMA StepCInv == CInv /\ [Next]_vars => CInv'
<1> SUFFICES ASSUME CInv, [Next]_vars PROVE CInv'
  OBVIOUS
<1>1. IInv'
  BY StepIInv DEF CInv
<1>2. TypeOK' /\ LoopBounds'
  BY <1>1 DEF IInv
<1>3. CASE QuietStep
  BY <1>1, <1>2, <1>3, QuietMasked, QuietUnproven DEF CInv
<1>4. ASSUME NEW k \in WriteLoops, ServiceFails(k) \/ ServiceVerifies(k) \/ LoopExhausted(k)
      PROVE  CInv'
  BY <1>1, <1>2, <1>4, FailureKeeps, SuccessKeeps, ExhaustionKeeps DEF CInv
<1> QED
  BY <1>3, <1>4 DEF QuietStep, Next, ProberStep, ReadStep, WriteStep

-----------------------------------------------------------------------------

\* The invariant of the counters holds in every reachable state.
THEOREM CountInvariance == Spec => []CInv
BY InitCInv, StepCInv, PTL DEF Spec

\* A log's failure that exit status 0 hides has been counted.
THEOREM MaskedFailureIsCounted == Spec => []MaskedFailureCounted
<1>1. ASSUME CInv, exit = "0", "log" \in faults PROVE verification["false"] > 0
  <2>1. verification["false"] \in Nat
    BY <1>1, Numbers DEF CInv, IInv
  <2> QED
    BY <1>1, <2>1 DEF CInv, Masked
<1>2. CInv => MaskedFailureCounted
  BY <1>1 DEF MaskedFailureCounted
<1> QED
  BY <1>2, CountInvariance, PTL

\* verified="true" is counted in the step that verifies an entry, and in no other.
THEOREM TrueIsVerified == Spec => TrueCountsVerified
<1>1. ASSUME CInv, [Next]_vars
      PROVE  verification'["true"] - verification["true"] =
               IF \E k \in Counted : k \in proven' \ proven THEN 1 ELSE 0
  <2>1. TypeOK /\ verification["true"] \in Nat
    BY <1>1, Numbers DEF CInv, IInv
  <2>2. CASE QuietStep
    <3>1. proven' \subseteq proven
      BY <2>2 DEF QuietStep, StartupFails, LoadTrust, SelectServices, BeginRound,
         ShardCoverage, NextService, ReadEndpoint, NextReadLoop, GetTrustBundle,
         KeyGenerationFails, FulcioWrite, FulcioLegacyWrite, Panic, Conflict,
         LocalFailure, RoundEnd, MetricsServerFails, Done, vars
    <3> QED
      BY <1>1, <2>1, <2>2, <3>1, QuietMasked DEF Quiet
  <2>3. ASSUME NEW k \in WriteLoops, ServiceFails(k) PROVE UNCHANGED <<verification, proven>>
    BY <2>3 DEF ServiceFails
  <2>4. ASSUME NEW k \in WriteLoops, LoopExhausted(k)
        PROVE  proven' = proven /\ verification'["true"] = verification["true"] + 0
    BY <2>1, <2>4, Deferral DEF LoopExhausted
  <2>5. ASSUME NEW k \in WriteLoops, ServiceVerifies(k)
        PROVE  /\ verification'["true"] = verification["true"] + Increment(k)
               /\ proven' \ proven = {k}
    <3>1. stage = k /\ proven' = proven \cup {k} /\ RunDeferred(Increment(k))
      BY <2>5 DEF ServiceVerifies
    <3>2. Increment(k) \in {0, 1} /\ k \notin Later(k)
      BY DEF Increment, Later
    <3> QED
      BY <1>1, <2>1, <3>1, <3>2, Deferral DEF CInv, Unproven
  <2>6. ASSUME NEW k \in WriteLoops, ServiceVerifies(k)
        PROVE  verification'["true"] - verification["true"] =
                 IF \E j \in Counted : j \in proven' \ proven THEN 1 ELSE 0
    BY <2>1, <2>5, <2>6 DEF Increment
  <2> QED
    BY <1>1, <2>1, <2>2, <2>3, <2>4, <2>6
       DEF QuietStep, Next, ProberStep, ReadStep, WriteStep
<1>2. CInv /\ [Next]_vars =>
        [verification'["true"] - verification["true"] =
           IF \E k \in Counted : k \in proven' \ proven THEN 1 ELSE 0]_vars
  BY <1>1
<1> QED
  BY <1>2, CountInvariance, PTL DEF Spec, TrueCountsVerified

\* A write loop is left for another stage, by whichever return.
LEMMA LoopLeft ==
  ASSUME NEW k \in WriteLoops, NEW s \in {After[k], AfterError(k)}
  PROVE  s \notin {k, "exited"}
BY DEF After, AfterError

\* The counter has one increment for every visit to a Rekor service: the return of an
\* endpoint adds as many as it has visited, and nothing else adds any.
THEOREM VisitsAreCounted == Spec => VisitsCounted
<1> DEFINE visited  == Loop(stage) - svc
           verified == IF stage \in proven' \ proven THEN 1 ELSE 0
           returns  == stage \in Counted /\ stage' \notin {stage, "exited"}
           added    == verification'["true"] + verification'["false"]
                         - (verification["true"] + verification["false"])
<1>1. ASSUME CInv, [Next]_vars PROVE added = IF returns THEN visited + verified ELSE 0
  <2>1. /\ TypeOK /\ LoopBounds /\ stage \in Stages
        /\ svc \in Nat /\ deferred \in Nat
        /\ verification["true"] \in Nat /\ verification["false"] \in Nat
    BY <1>1, Numbers DEF CInv, IInv, TypeOK
  <2>2. /\ Loop(stage) \in Nat /\ MaxServices \in Nat
        /\ stage \in Counted => Loop(stage) = deferred + svc
        /\ stage \in WriteLoops \ Counted => deferred = 0
    BY <2>1, LoopSize, ProberAssumption DEF LoopBounds
  <2>3. CASE QuietStep
    <3>1. UNCHANGED verification
      BY <1>1, <2>3, QuietMasked DEF Quiet
    <3>2. returns => visited = 0 /\ verified = 0
      <4>1. returns => \E k \in WriteLoops : LocalFailure(k)
        BY <2>3 DEF QuietStep, StartupFails, LoadTrust, SelectServices, BeginRound,
           ShardCoverage, NextService, ReadEndpoint, NextReadLoop, GetTrustBundle,
           KeyGenerationFails, FulcioWrite, FulcioLegacyWrite, Panic, Conflict,
           RoundEnd, MetricsServerFails, Done, vars, Exit
      <4>2. ASSUME NEW k \in WriteLoops, LocalFailure(k)
            PROVE  stage = k /\ svc = Loop(k) /\ proven' = proven
        BY <4>2 DEF LocalFailure
      <4> QED
        BY <2>2, <4>1, <4>2
    <3> QED
      BY <2>1, <3>1, <3>2
  <2>4. ASSUME NEW k \in WriteLoops, ServiceFails(k) PROVE added = 0 /\ ~returns
    <3>1. verification' = verification /\ stage' = stage
      BY <2>4 DEF ServiceFails
    <3> QED
      BY <2>1, <3>1
  <2>5. ASSUME NEW k \in WriteLoops, LoopExhausted(k)
        PROVE  added = IF returns THEN visited + verified ELSE 0
    <3>1. /\ stage = k /\ svc = 0 /\ proven' = proven /\ RunDeferred(0)
          /\ stage' \in {After[k], AfterError(k)}
      BY <2>5 DEF LoopExhausted, Goto
    <3>2. added = deferred
      BY <2>1, <3>1, Deferral
    <3>3. returns <=> k \in Counted
      BY <3>1, LoopLeft
    <3> QED
      BY <2>1, <2>2, <3>1, <3>2, <3>3
  <2>6. ASSUME NEW k \in WriteLoops, ServiceVerifies(k)
        PROVE  added = IF returns THEN visited + verified ELSE 0
    <3>1. /\ stage = k /\ proven' = proven \cup {k} /\ RunDeferred(Increment(k))
          /\ stage' = After[k]
      BY <2>6 DEF ServiceVerifies, Goto
    <3>2. Increment(k) \in {0, 1} /\ k \notin Later(k)
      BY DEF Increment, Later
    <3>3. added = deferred + Increment(k)
      BY <2>1, <3>1, <3>2, Deferral
    <3>4. (returns <=> k \in Counted) /\ verified = 1
      BY <1>1, <3>1, <3>2, LoopLeft DEF CInv, Unproven
    <3>5. Increment(k) = IF k \in Counted THEN 1 ELSE 0
      BY DEF Increment
    <3> QED
      BY <2>1, <2>2, <3>1, <3>3, <3>4, <3>5
  <2> QED
    BY <1>1, <2>3, <2>4, <2>5, <2>6
       DEF QuietStep, Next, ProberStep, ReadStep, WriteStep
<1>2. CInv /\ [Next]_vars => [added = IF returns THEN visited + verified ELSE 0]_vars
  BY <1>1
<1> QED
  BY <1>2, CountInvariance, PTL DEF Spec, VisitsCounted
=============================================================================
