----------------------------- MODULE RateLimitMain -----------------------------
(***************************************************************************)
(* main of rate-limiting: rateLimit runs in a goroutine for each of four   *)
(* services; their errors go through a channel that is read when all have  *)
(* ended.  RateLimit has the steps of rateLimit, of which only the verdict *)
(* counts here, and that the request may panic.                            *)
(***************************************************************************)
EXTENDS Integers, FiniteSets

URLs == {"rekor v1", "rekor v2", "fulcio", "tsa"}

VARIABLES
  limits,     \* the services that rateLimit finds to limit requests
  malformed,  \* the services whose URL makes no request
  main,       \* "select", "start", "wait", "drain", or how the process ended
  todo,       \* URLs without a goroutine as yet
  task,       \* the goroutine of each URL
  mainWg,     \* the WaitGroup's counter
  errs,       \* the channel: URLs that an error is about
  printed     \* errors that main has read and printed

targets == <<limits, malformed>>
runVars  == <<todo, task, mainWg, errs, printed>>
mainVars == <<targets, main, runVars>>

MainInit ==
  /\ limits \in SUBSET URLs /\ malformed \in SUBSET (URLs \ limits)
  /\ main = "select" /\ todo = URLs /\ task = [u \in URLs |-> "none"]
  /\ mainWg = 0 /\ errs = {} /\ printed = {}

\* A panic is exit status 2.
Ends  == {"exit 0", "exit 1", "exit 2", "killed"}
Alive == main \notin Ends

Exit(code) == main' = code /\ UNCHANGED <<targets, runVars>>

-----------------------------------------------------------------------------
(* main *)

\* No TUF client, no signing config, or no valid service of a kind: log.Fatal.
SelectFails == Alive /\ main = "select" /\ Exit("exit 1")

Select ==
  /\ Alive /\ main = "select" /\ main' = "start"
  /\ UNCHANGED <<targets, runVars>>

CapacityOne == 1                 \* mutant: a channel with room for one error
Capacity    == Cardinality(URLs)

AddsNothing == mainWg                \* mutant: no wg.Add(1) before the goroutine
Adds        == mainWg + 1

\* The URLs have an order, which nothing depends on.
Start(u) ==
  /\ Alive /\ main = "start" /\ u \in todo
  /\ todo' = todo \ {u} /\ mainWg' = Adds
  /\ task' = [task EXCEPT ![u] = "run"]
  /\ UNCHANGED <<targets, main, errs, printed>>

Started ==
  /\ Alive /\ main = "start" /\ todo = {} /\ main' = "wait"
  /\ UNCHANGED <<targets, runVars>>

WaitOver == mainWg = 0

Wait ==
  /\ Alive /\ main = "wait" /\ WaitOver /\ main' = "drain"
  /\ UNCHANGED <<targets, runVars>>

PrintError(u) ==
  /\ Alive /\ main = "drain" /\ u \in errs
  /\ errs' = errs \ {u} /\ printed' = printed \cup {u}
  /\ UNCHANGED <<targets, main, todo, task, mainWg>>

ExitsLast == "exit 0"            \* mutant: hasErrors is never set
ExitCode  == IF printed = {} THEN "exit 0" ELSE "exit 1"

MainReturns == Alive /\ main = "drain" /\ errs = {} /\ Exit(ExitCode)

-----------------------------------------------------------------------------
(* The goroutines *)

\* rateLimit returns.
Verdict(u) ==
  /\ Alive /\ task[u] = "run"
  /\ task' = [task EXCEPT ![u] = IF u \in limits THEN "done" ELSE "send"]
  /\ mainWg' = IF u \in limits THEN mainWg - 1 ELSE mainWg
  /\ UNCHANGED <<targets, main, todo, errs, printed>>

SendError(u) ==
  /\ Alive /\ task[u] = "send" /\ Cardinality(errs) < Capacity
  /\ errs' = errs \cup {u}
  /\ task' = [task EXCEPT ![u] = "done"] /\ mainWg' = mainWg - 1
  /\ UNCHANGED <<targets, main, todo, printed>>

\* A worker of rateLimit dereferences the request that NewRequest did not make.  Its
\* deferred Dones run before the process ends, so rateLimit may return all the same.
Panics(u) == Alive /\ task[u] # "none" /\ u \in malformed /\ Exit("exit 2")

\* timeout-minutes of the job, at any step.
Killed == Alive /\ Exit("killed")

-----------------------------------------------------------------------------

MainDone == ~Alive /\ UNCHANGED mainVars

MainNext == \/ SelectFails \/ Select \/ Started \/ Wait \/ MainReturns
            \/ \E u \in URLs : Start(u) \/ Verdict(u) \/ SendError(u) \/ PrintError(u)
            \/ \E u \in URLs : Panics(u)
            \/ Killed \/ MainDone

MainSpec == MainInit /\ [][MainNext]_mainVars

-----------------------------------------------------------------------------
(* Properties *)

\* Types; the WaitGroup's counter does not become negative, which is a panic.
MainTypeOK ==
  /\ limits \subseteq URLs /\ malformed \subseteq URLs \ limits /\ todo \subseteq URLs
  /\ main \in {"select", "start", "wait", "drain"} \cup Ends
  /\ task \in [URLs -> {"none", "run", "send", "done"}]
  /\ mainWg \in 0..Cardinality(URLs)
  /\ errs \subseteq URLs /\ printed \subseteq URLs

\* main reads no error before all goroutines have ended: none of them may have to wait
\* for room in the channel.
SendNeverBlocks == \A u \in URLs : task[u] = "send" => Cardinality(errs) < Capacity

\* Once the goroutines run, the exit status and the output say the same, unless the
\* process is cut short: the output names all services that do not limit requests and
\* no other, and exit status 0, "Successfully triggered rate limiting on all targets.",
\* means that all four do.
ExitCodeSound ==
  main \in {"exit 0", "exit 1"} =>
    IF todo # {} THEN main = "exit 1"
    ELSE /\ printed = URLs \ limits
         /\ main = "exit 0" <=> limits = URLs
=============================================================================
