------------------------------- MODULE Prober -------------------------------
(***************************************************************************)
(* The prober binary (prober/prober): main() loads trust material, selects *)
(* the services under test and starts runProbers, which runs rounds of     *)
(* read checks and write probes.  In one-time mode the round's hasErr      *)
(* becomes the exit status; otherwise only the Prometheus counters remain. *)
(*                                                                         *)
(* A request is one step whose outcome the environment chooses: a healthy  *)
(* answer or some fault.  `faults' and `proven' are history variables: the *)
(* classes of fault the environment injected in this round, and the write  *)
(* probes that verified an answer in it.                                   *)
(***************************************************************************)
EXTENDS Naturals

CONSTANTS RunWriteProber,  \* flag --write-prober
          DisableGrpc,     \* flag --disable-grpc
          MaxServices,     \* bound: services of one kind in a signing config
          MaxShards,       \* bound: shard-specific reads of one Rekor v1 log
          MaxRounds        \* bound: rounds of the daemon

ASSUME ProberAssumption ==
  /\ {RunWriteProber, DisableGrpc} \subseteq BOOLEAN
  /\ {MaxServices, MaxShards, MaxRounds} \subseteq Nat \ {0}

VARIABLES
  runOnce,        \* flag --one-time
  stage,          \* where main() or runProbers is
  services,       \* how many services of each kind were selected
  pqcTrustedRoot, \* whether a PQC trusted root was loaded
  round,          \* rounds started; also names the round's signing key
  hasErr,         \* runProbers' hasErr
  logged,         \* an error line was logged in this round
  svc,            \* services the current loop still has to visit
  left,           \* read checks left for the service being visited
  lastErr,        \* the write endpoint's lastErr is not nil
  cert,           \* the round's certificate: NoCert or the key it certifies
  conflicts,      \* 409 answers so far for the entry being posted
  deferred,       \* deferred verified="false" increments not yet run
  verification,   \* verificationCounter by its `verified' label
  exit,           \* how the process ended
  faults, proven  \* history, see above

runVars   == <<stage, svc, left>>
errVars   == <<hasErr, logged, faults>>
writeVars == <<lastErr, cert, conflicts, deferred, verification, proven>>
mainVars  == <<runOnce, services, pqcTrustedRoot, round, exit>>
vars      == <<runVars, errVars, writeVars, mainVars>>

-----------------------------------------------------------------------------
(* The stages of a round, in the order of runProbers. *)

ReadLoops == {"rekorV1", "rekorV2", "identity", "fulcio", "tsa"}

WriteLoops == {"rekorV1WriteEndpoint", "tsaWriteEndpoint", "rekorV2WriteEndpoint",
               "rekorIdentityPublicKeyWrite", "rekorIdentityOIDCWrite"}

Stages == ReadLoops \cup WriteLoops \cup
          {"loadTrust", "selectServices", "round", "grpc", "fulcioWriteEndpoint",
           "fulcioWriteLegacyEndpoint", "roundEnd", "exited"}

\* How many endpoints a read loop checks on each service.
EndpointCount == [rekorV1 |-> 4, rekorV2 |-> 1, identity |-> 1, fulcio |-> 3, tsa |-> 1]

\* The services a write endpoint loops over.
Target == [rekorV1WriteEndpoint        |-> "rekorV1",
           tsaWriteEndpoint            |-> "tsa",
           rekorV2WriteEndpoint        |-> "rekorV2",
           rekorIdentityPublicKeyWrite |-> "identity",
           rekorIdentityOIDCWrite      |-> "identity"]

\* The write endpoints that defer an increment of verificationCounter.
Counted == {"rekorV1WriteEndpoint", "rekorV2WriteEndpoint"}

\* The stage runProbers enters when s is over.
After == [rekorV1                     |-> "rekorV2",
          rekorV2                     |-> "identity",
          identity                    |-> "fulcio",
          fulcio                      |-> "tsa",
          tsa                         |-> "grpc",
          grpc                        |-> IF RunWriteProber THEN "fulcioWriteEndpoint"
                                                            ELSE "roundEnd",
          fulcioWriteEndpoint         |-> "fulcioWriteLegacyEndpoint",
          fulcioWriteLegacyEndpoint   |-> "rekorV1WriteEndpoint",
          rekorV1WriteEndpoint        |-> "tsaWriteEndpoint",
          tsaWriteEndpoint            |-> "rekorV2WriteEndpoint",
          rekorV2WriteEndpoint        |-> "rekorIdentityPublicKeyWrite",
          rekorIdentityPublicKeyWrite |-> "rekorIdentityOIDCWrite",
          rekorIdentityOIDCWrite      |-> "roundEnd"]

\* A failed public key write ends rekorIdentityWriteEndpoint.
AfterError(s) == IF s = "rekorIdentityPublicKeyWrite" THEN "roundEnd" ELSE After[s]

\* Services that stage s loops over, 0 when it has no loop.
Loop(s) == CASE s \in ReadLoops  -> services[s]
             [] s \in WriteLoops -> services[Target[s]]
             [] OTHER            -> 0

Goto(s) == stage' = s /\ svc' = Loop(s) /\ left' = 0

\* A check failed because of a fault of the given class.
Report(class) == /\ hasErr' = TRUE
                 /\ logged' = TRUE
                 /\ faults' = faults \cup {class}

NoCert        == 0
ConflictTries == 9      \* for i := 1; i < 10; i++

\* A write endpoint succeeds on the first answer it can verify.  The entry of a
\* counted one carries cert, so its signature must be by the key cert names; an
\* identity answer is checked against the PQC trusted root.
Accepts(k) == /\ k \in Counted => cert \in {NoCert, round}
              /\ Target[k] = "identity" => pqcTrustedRoot

FaultClass(k) == IF k \in Counted THEN "log" ELSE "write"

\* The increments of verificationCounter one visit to a service defers.
IncrementNotV1(k) == IF k = "rekorV2WriteEndpoint" THEN 1 ELSE 0  \* mutant
Increment(k)      == IF k \in Counted THEN 1 ELSE 0

\* Mutant: one `verified' variable, shared by the closures of all services.
RunDeferredShared(verified) ==
  /\ verification' = IF verified = 1
                     THEN [verification EXCEPT !["true"]  = @ + deferred + 1]
                     ELSE [verification EXCEPT !["false"] = @ + deferred]
  /\ deferred' = 0 /\ lastErr' = FALSE /\ conflicts' = 0

\* Mutant: a successful return forgets the services that failed before.
RunDeferredLast(verified) ==
  /\ verification' = IF verified = 1
                     THEN [verification EXCEPT !["true"]  = @ + 1]
                     ELSE [verification EXCEPT !["false"] = @ + deferred]
  /\ deferred' = 0 /\ lastErr' = FALSE /\ conflicts' = 0

\* The write endpoint returns: its deferred increments run, one for each visited
\* service; only the one that verified was set to "true".
RunDeferred(verified) ==
  /\ verification' = [verification EXCEPT !["true"]  = @ + verified,
                                          !["false"] = @ + deferred]
  /\ deferred' = 0
  /\ lastErr' = FALSE
  /\ conflicts' = 0

-----------------------------------------------------------------------------
(* main() *)

Init ==
  /\ stage = "loadTrust" /\ svc = 0 /\ left = 0
  /\ runOnce \in BOOLEAN
  /\ services = [k \in ReadLoops |-> 0] /\ pqcTrustedRoot = FALSE
  /\ round = 0 /\ hasErr = FALSE /\ logged = FALSE /\ lastErr = FALSE
  /\ cert = NoCert /\ conflicts = 0
  /\ deferred = 0 /\ verification = [v \in {"true", "false"} |-> 0]
  /\ exit = "none" /\ faults = {} /\ proven = {}

Exit(status) == exit' = status /\ stage' = "exited"

\* log.Fatal before the first round: a flag without its partner, or material
\* that cannot be fetched, parsed or selected.
StartupFails ==
  /\ stage \in {"loadTrust", "selectServices"}
  /\ Exit("1")
  /\ UNCHANGED <<svc, left, errVars, writeVars, runOnce, services, pqcTrustedRoot, round>>

\* The signing config and trusted root come from a pair of flags or from TUF;
\* the PQC pair comes from its flags, or from staging's PQC repository when
\* staging was reached through TUF.
LoadTrust ==
  /\ stage = "loadTrust"
  /\ stage' = "selectServices"
  /\ \E fromPaths, pqcFromPaths, staging \in BOOLEAN :
       pqcTrustedRoot' = (pqcFromPaths \/ (staging /\ ~fromPaths))
  /\ UNCHANGED <<svc, left, errVars, writeVars, runOnce, services, round, exit>>

\* SelectServices fails when nothing matches.  That is fatal for Fulcio and the
\* TSAs; for the Rekor kinds the error is dropped and the list is empty.
SelectServices ==
  /\ stage = "selectServices"
  /\ stage' = "round"
  /\ services' \in [ReadLoops -> 0..MaxServices]
  /\ services'["fulcio"] = 1
  /\ services'["tsa"] > 0
  /\ ~pqcTrustedRoot => services'["identity"] = 0
  /\ UNCHANGED <<svc, left, errVars, writeVars, runOnce, pqcTrustedRoot, round, exit>>

-----------------------------------------------------------------------------
(* runProbers: the read checks *)

BeginRound ==
  /\ stage = "round"
  /\ round < MaxRounds
  /\ round' = round + 1
  /\ hasErr' = FALSE /\ logged' = FALSE /\ faults' = {} /\ proven' = {}
  /\ Goto("rekorV1")
  /\ UNCHANGED <<lastErr, cert, conflicts, deferred, verification,
                 runOnce, services, pqcTrustedRoot, exit>>

\* determineRekorShardCoverage yields a read per shard that holds entries, and a
\* log of two entries or more is also asked for a consistency proof; when it
\* fails, only the shardless endpoints remain.
ShardCoverage ==
  /\ stage = "rekorV1" /\ svc > 0 /\ left = 0
  /\ \/ \E treeSize \in 0..2, shards \in 0..MaxShards :
          /\ treeSize > 0 <=> shards > 0
          /\ left' = shards + (IF treeSize >= 2 THEN 1 ELSE 0) + EndpointCount["rekorV1"]
          /\ UNCHANGED errVars
     \/ /\ left' = EndpointCount["rekorV1"]
        /\ Report("read")
  /\ UNCHANGED <<stage, svc, writeVars, mainVars>>

NextService ==
  /\ stage \in ReadLoops \ {"rekorV1"} /\ svc > 0 /\ left = 0
  /\ left' = EndpointCount[stage]
  /\ UNCHANGED <<stage, svc, errVars, writeVars, mainVars>>

ReadEndpointNoAdvance ==   \* mutant: the loop stays with its first service
  /\ stage \in ReadLoops /\ left > 0
  /\ left' = left - 1
  /\ Report("read") \/ UNCHANGED errVars
  /\ UNCHANGED <<stage, svc, writeVars, mainVars>>

\* observeRequest: no response, an unreadable body or a status of 300 and above
\* is an error.
ReadEndpoint ==
  /\ stage \in ReadLoops /\ left > 0
  /\ left' = left - 1
  /\ svc' = IF left = 1 THEN svc - 1 ELSE svc
  /\ Report("read") \/ UNCHANGED errVars
  /\ UNCHANGED <<stage, writeVars, mainVars>>

NextReadLoop ==
  /\ stage \in ReadLoops /\ svc = 0
  /\ Goto(After[stage])
  /\ UNCHANGED <<errVars, writeVars, mainVars>>

GetTrustBundle ==
  /\ stage = "grpc"
  /\ Goto(After["grpc"])
  /\ \/ UNCHANGED errVars
     \/ ~DisableGrpc /\ Report("read")
  /\ UNCHANGED <<writeVars, mainVars>>

-----------------------------------------------------------------------------
(* runProbers: the write probes *)

\* The round's key is generated before the first write probe.
KeyGenerationFails ==
  /\ stage = "fulcioWriteEndpoint"
  /\ Exit("1")
  /\ UNCHANGED <<svc, left, errVars, writeVars, runOnce, services, pqcTrustedRoot, round>>

\* The round's variable cert after fulcioWriteEndpoint.
KeptCert(issued)   == IF issued THEN round ELSE cert    \* mutant: outlives its round
FulcioCert(issued) == IF issued THEN round ELSE NoCert

\* write.go returns the nil error of the unmarshalling when the leaf's PEM does
\* not hold one certificate: neither an error nor a certificate.
FulcioWrite ==
  /\ stage = "fulcioWriteEndpoint"
  /\ Goto(After[stage])
  /\ \/ cert' = FulcioCert(TRUE) /\ UNCHANGED errVars
     \/ cert' = FulcioCert(FALSE) /\ Report("write")
     \/ /\ cert' = FulcioCert(FALSE)
        /\ logged' = TRUE /\ faults' = faults \cup {"write"}
        /\ UNCHANGED hasErr
  /\ UNCHANGED <<lastErr, conflicts, deferred, verification, proven, mainVars>>

\* A response without a chain is logged and accepted.
FulcioLegacyWrite ==
  /\ stage = "fulcioWriteLegacyEndpoint"
  /\ Goto(After[stage])
  /\ \/ UNCHANGED errVars
     \/ Report("write")
     \/ logged' = TRUE /\ faults' = faults \cup {"write"} /\ UNCHANGED hasErr
  /\ UNCHANGED <<writeVars, mainVars>>

\* A nil dereference: the v1 certificate response is not PEM, or the Rekor v2
\* entry is not a hashedrekord.
Panic ==
  /\ \/ stage = "fulcioWriteLegacyEndpoint"
     \/ stage = "rekorV2WriteEndpoint" /\ svc > 0
  /\ Exit("2")
  /\ UNCHANGED <<svc, left, errVars, writeVars, runOnce, services, pqcTrustedRoot, round>>

\* 409: post a new body, up to ConflictTries requests.
Conflict ==
  /\ stage = "rekorV1WriteEndpoint" /\ svc > 0
  /\ conflicts + 1 < ConflictTries
  /\ conflicts' = conflicts + 1
  /\ UNCHANGED <<runVars, errVars, lastErr, cert, deferred, verification, proven, mainVars>>

\* The write endpoint cannot even build its request: no token, no signature.
LocalFailure(k) ==
  /\ stage = k /\ k # "rekorV1WriteEndpoint"
  /\ svc > 0 /\ svc = Loop(k)
  /\ Report("write")
  /\ Goto(AfterError(k))
  /\ UNCHANGED <<writeVars, mainVars>>

\* The service does not answer, refuses, or returns what does not verify.  An
\* answer no trusted TSA verifies sets lastErr to observeRequest's nil error.
ServiceFails(k) ==
  /\ stage = k /\ svc > 0
  /\ svc' = svc - 1
  /\ lastErr' \in (IF k = "tsaWriteEndpoint" THEN BOOLEAN ELSE {TRUE})
  /\ conflicts' = 0
  /\ deferred' = deferred + Increment(k)
  /\ \/ faults' = faults \cup {FaultClass(k)}
     \/ ~Accepts(k) /\ UNCHANGED faults
  /\ UNCHANGED <<stage, left, hasErr, logged, cert, verification, proven, mainVars>>

ServiceVerifies(k) ==
  /\ stage = k /\ svc > 0
  /\ Accepts(k)
  /\ proven' = proven \cup {k}
  /\ RunDeferred(Increment(k))
  /\ Goto(After[k])
  /\ UNCHANGED <<errVars, cert, mainVars>>

\* Without services Rekor's loops have no error to return; tsaWriteEndpoint
\* returns one whatever lastErr is.
EndpointErrorLast(k) == lastErr     \* mutant
EndpointError(k) == lastErr \/ k = "tsaWriteEndpoint"

LoopExhausted(k) ==
  /\ stage = k /\ svc = 0
  /\ RunDeferred(0)
  /\ \/ /\ EndpointError(k)
        /\ hasErr' = TRUE /\ logged' = TRUE
        /\ Goto(AfterError(k))
     \/ /\ ~EndpointError(k)
        /\ Goto(After[k])
        /\ UNCHANGED <<hasErr, logged>>
  /\ UNCHANGED <<faults, cert, proven, mainVars>>

\* One-time mode reports the round by its exit status; the daemon sleeps.
RoundEnd ==
  /\ stage = "roundEnd"
  /\ \/ runOnce /\ Exit(IF hasErr THEN "1" ELSE "0")
     \/ ~runOnce /\ stage' = "round" /\ UNCHANGED exit
  /\ UNCHANGED <<svc, left, errVars, writeVars, runOnce, services, pqcTrustedRoot, round>>

\* main()'s own goroutine: ListenAndServe returns, at any time, with an error.
MetricsServerFails ==
  /\ stage \notin {"loadTrust", "selectServices", "exited"}
  /\ Exit("1")
  /\ UNCHANGED <<svc, left, errVars, writeVars, runOnce, services, pqcTrustedRoot, round>>

\* The process ended, or the daemon reached the bound on its rounds.
Done == /\ stage = "exited" \/ (stage = "round" /\ round = MaxRounds)
        /\ UNCHANGED vars

ReadStep  == BeginRound \/ ShardCoverage \/ NextService \/ ReadEndpoint
             \/ NextReadLoop \/ GetTrustBundle

WriteStep == \/ KeyGenerationFails \/ FulcioWrite \/ FulcioLegacyWrite
             \/ Panic \/ Conflict
             \/ \E k \in WriteLoops : LocalFailure(k) \/ ServiceFails(k)
                                      \/ ServiceVerifies(k) \/ LoopExhausted(k)

ProberStep == StartupFails \/ LoadTrust \/ SelectServices
              \/ ReadStep \/ WriteStep \/ RoundEnd

Next == ProberStep \/ MetricsServerFails \/ Done

Spec == Init /\ [][Next]_vars

\* The runtime schedules the goroutine, and every request ends: with an answer,
\* or with an error once the retries are spent.
FairSpec == Spec /\ WF_vars(ProberStep)

-----------------------------------------------------------------------------
(* Properties *)

\* The type invariant.  Its bounds say that a loop never runs past its list,
\* that no more increments are pending than services were visited, and that
\* a certificate always is NoCert or one of a round that has begun.
TypeOK ==
  /\ stage \in Stages
  /\ services \in [ReadLoops -> 0..MaxServices]
  /\ runOnce \in BOOLEAN /\ pqcTrustedRoot \in BOOLEAN
  /\ round \in 0..MaxRounds
  /\ hasErr \in BOOLEAN /\ logged \in BOOLEAN /\ lastErr \in BOOLEAN
  /\ svc \in 0..MaxServices
  /\ left \in Nat
  /\ cert \in 0..MaxRounds
  /\ conflicts \in 0..(ConflictTries - 1)
  /\ deferred \in 0..MaxServices
  /\ verification \in [{"true", "false"} -> Nat]
  /\ exit \in {"none", "0", "1", "2"}
  /\ faults \subseteq {"read", "log", "write"}
  /\ proven \subseteq WriteLoops

\* Exit status 0 of the one-time prober means that no read check failed and
\* that every write endpoint with a service to write to verified an answer,
\* whatever failed at other services (runProbers' hasErr, write.go's lastErr).
ExitZeroSound ==
  exit = "0" =>
    /\ "read" \notin faults
    /\ RunWriteProber =>
         \A k \in WriteLoops : services[Target[k]] > 0 => k \in proven

\* An error line in the log of a prober that exits with 0 is about a certificate
\* response, which write.go may log as wrong and accept: every other error that is
\* logged fails the prober.
LoggedErrorFails == exit = "0" /\ logged => "write" \in faults

\* What the workflow may conclude from exit status 0, and from the log beside it.
StatusSound == ExitZeroSound /\ LoggedErrorFails

\* runProbers reports an error only when something it probes was at fault, and a
\* write endpoint has one to return only when a service of its own was: no failed
\* Fulcio write makes the logs refuse an entry, by leaving in it the certificate of
\* an earlier round, whose key cannot have signed it.
NoFalseAlarm ==
  /\ hasErr => faults # {}
  /\ lastErr /\ stage \in WriteLoops => FaultClass(stage) \in faults

\* A Rekor failure that exit status 0 hides, because a later service verified,
\* has at least been counted under verified="false".
MaskedFailureCounted ==
  exit = "0" /\ "log" \in faults => verification["false"] > 0

\* The counter verified="true" rises by one in the step that verifies an entry
\* of a Rekor write endpoint and in no other, for all that each visited service
\* defers an increment to the return of the endpoint.
TrueCountsVerified ==
  [][verification'["true"] - verification["true"] =
       IF \E k \in Counted : k \in proven' \ proven THEN 1 ELSE 0]_vars

\* The counter has one increment for every visit to a Rekor service, no more and no
\* fewer: a write endpoint that returns, by whichever of its returns, adds as many as it
\* has visited services, the one that verified included; nothing else adds any.  What a
\* process that ends in the middle has deferred is lost.
VisitsCounted ==
  [][LET visited  == Loop(stage) - svc
         verified == IF stage \in proven' \ proven THEN 1 ELSE 0
     IN  verification'["true"] + verification'["false"]
           - (verification["true"] + verification["false"]) =
         IF stage \in Counted /\ stage' \notin {stage, "exited"}
         THEN visited + verified ELSE 0]_vars

\* Every round that begins ends, by falling asleep or with the process; the
\* conflict loop, the service loops and the early returns all make progress.  The
\* one-time prober does not begin another round: it exits.
RoundEnds ==
  /\ stage = "rekorV1" ~> stage \in {"round", "exited"}
  /\ runOnce => <>(exit # "none")
=============================================================================
