------------------------------- MODULE TilesFsck -------------------------------
(***************************************************************************)
(* tiles-fsck: checks the consistency of every Rekor v2 log of the trusted *)
(* root, each in a goroutine of an errgroup.  The first error cancels the  *)
(* context of the others; Wait waits for all of them.  No request has a    *)
(* timeout, so that a silent log may keep its goroutine for ever.          *)
(***************************************************************************)
CONSTANT Logs          \* the Rekor logs of the trusted root

\* What is to be known of a log: the signing config lists its URL as v1; its URL does
\* not parse; its key gives no verifier; its tree is (in)consistent; it never answers.
Healths == {"v1", "no URL", "no key", "inconsistent", "consistent", "silent"}
Faulty  == {"no key", "inconsistent"}

VARIABLES
  health,     \* of each log
  main,       \* "load", "range", "wait", "exit 0", "exit 1"
  todo,       \* logs that the loop has not come to
  task,       \* the goroutine of each log
  cancelled,  \* the context of the errgroup
  err,        \* the error of the errgroup: the set of the log it is about
  reported    \* what main logs before it exits with 1: nothing, one of a log, or others

vars == <<health, main, todo, task, cancelled, err, reported>>

Init ==
  /\ health \in [Logs -> Healths]
  /\ main = "load" /\ todo = Logs /\ task = [l \in Logs |-> "none"]
  /\ cancelled = FALSE /\ err = {} /\ reported = {}

Running == main \notin {"exit 0", "exit 1"}

-----------------------------------------------------------------------------
(* main *)

\* The TUF repository, the trusted root or the signing config fails.
LoadFails ==
  /\ main = "load" /\ main' = "exit 1"
  /\ UNCHANGED <<health, todo, task, cancelled, err, reported>>

Load ==
  /\ main = "load" /\ main' = "range"
  /\ UNCHANGED <<health, todo, task, cancelled, err, reported>>

ListedNever(l) == FALSE         \* mutant: v1 logs are not told apart
ListedV1(l)    == health[l] = "v1"

\* RekorLogs() is a map: the loop comes to its logs in any order.
Reach(l) == main = "range" /\ l \in todo /\ todo' = todo \ {l}

SkipV1(l) ==
  /\ Reach(l) /\ ListedV1(l)
  /\ UNCHANGED <<health, main, task, cancelled, err, reported>>

\* os.Exit, whatever goroutines are running.
ParseFails(l) ==
  /\ Reach(l) /\ health[l] = "no URL"
  /\ main' = "exit 1" /\ reported' = {l}
  /\ UNCHANGED <<health, task, cancelled, err>>

Go(l) ==
  /\ Reach(l) /\ ~ListedV1(l) /\ health[l] # "no URL"
  /\ task' = [task EXCEPT ![l] = "verifier"]
  /\ UNCHANGED <<health, main, cancelled, err, reported>>

RangeEnds ==
  /\ main = "range" /\ todo = {} /\ main' = "wait"
  /\ UNCHANGED <<health, todo, task, cancelled, err, reported>>

WaitReturns == \A l \in Logs : task[l] \in {"none", "done"}

Wait ==
  /\ main = "wait" /\ WaitReturns
  /\ main' = IF err = {} THEN "exit 0" ELSE "exit 1"
  /\ reported' = err
  /\ UNCHANGED <<health, todo, task, cancelled, err>>

-----------------------------------------------------------------------------
(* The goroutine of a log; errgroup.Go keeps the first error and cancels (external) *)

NoCancel == cancelled           \* mutant: errgroup.Group{}, without a context
Cancels  == TRUE

LastError(l)  == err' = {l}            \* mutant: every error replaces the one before
KeepsError(l) == err' = IF err = {} THEN {l} ELSE err

FailsSilently(l) ==             \* mutant: the error is logged, nil returned
  /\ task' = [task EXCEPT ![l] = "done"]
  /\ UNCHANGED <<health, main, todo, cancelled, err, reported>>

Fails(l) ==
  /\ task' = [task EXCEPT ![l] = "done"]
  /\ KeepsError(l) /\ cancelled' = Cancels
  /\ UNCHANGED <<health, main, todo, reported>>

VerifierFails(l) ==
  /\ Running /\ task[l] = "verifier" /\ health[l] = "no key"
  /\ Fails(l)

Verifier(l) ==
  /\ Running /\ task[l] = "verifier" /\ health[l] # "no key"
  /\ task' = [task EXCEPT ![l] = "check"]
  /\ UNCHANGED <<health, main, todo, cancelled, err, reported>>

Consistent(l) ==
  /\ Running /\ task[l] = "check" /\ health[l] = "consistent"
  /\ task' = [task EXCEPT ![l] = "done"]
  /\ UNCHANGED <<health, main, todo, cancelled, err, reported>>

\* The check finds a fault, or no tiles in a log of v1, or is cancelled on the way.
Check(l) ==
  /\ Running /\ task[l] = "check"
  /\ \/ health[l] \in {"inconsistent", "v1"}
     \/ cancelled
  /\ Fails(l)

\* A request without an answer, and without a timeout.
Waiting(l) == Running /\ task[l] = "check" /\ health[l] = "silent" /\ UNCHANGED vars

Task(l) == VerifierFails(l) \/ Verifier(l) \/ Consistent(l) \/ Check(l)

Range == \/ \E l \in Logs : SkipV1(l) \/ ParseFails(l) \/ Go(l)
         \/ RangeEnds

Done == ~Running /\ UNCHANGED vars

Next == LoadFails \/ Load \/ Range \/ Wait \/ (\E l \in Logs : Task(l) \/ Waiting(l)) \/ Done

Spec == Init /\ [][Next]_vars

\* The Go scheduler runs main and every goroutine; whatever answers, answers.
FairSpec == /\ Spec
            /\ WF_vars(Load \/ LoadFails) /\ WF_vars(Range) /\ WF_vars(Wait)
            /\ \A l \in Logs : WF_vars(Task(l))

-----------------------------------------------------------------------------
(* Properties *)

\* Types; the errgroup has at most one error, that of one log.
TypeOK ==
  /\ health \in [Logs -> Healths]
  /\ main \in {"load", "range", "wait", "exit 0", "exit 1"}
  /\ todo \subseteq Logs
  /\ task \in [Logs -> {"none", "verifier", "check", "done"}]
  /\ cancelled \in BOOLEAN /\ {err, reported} \subseteq {{}} \cup {{l} : l \in Logs}

\* "Finished!": every log but those of v1 has been found consistent; none was passed
\* over, is still being checked or was cancelled.
ExitZeroMeansChecked ==
  main = "exit 0" => \A l \in Logs : \/ health[l] = "v1"
                                     \/ health[l] = "consistent" /\ task[l] = "done"

\* The error that main reports is that of a log at fault: not of a sound
\* log whose check was cancelled, although that fails as well and may end later.
ReportedIsAtFault ==
  \A l \in reported : health[l] \in Faulty \cup {"no URL"}

\* No check is cut short but by os.Exit for a URL that does not parse.
WaitsForAll ==
  main \in {"exit 0", "exit 1"} =>
    \/ \A l \in Logs : task[l] \in {"none", "done"}
    \/ \E l \in reported : health[l] = "no URL"

\* Sound logs end in exit 0, unless nothing can be loaded.
SoundLogsExitZero ==
  (main = "range" /\ \A l \in Logs : health[l] \in {"v1", "consistent"})
    ~> main = "exit 0"

\* A log at fault ends the program even if others never answer, although no request
\* has a timeout: the first error cancels them.
FaultEnds ==
  (main = "range" /\ \E l \in Logs : health[l] \in Faulty) ~> main = "exit 1"
=============================================================================
