----------------------------- MODULE ShardScript -----------------------------
(***************************************************************************)
(* The step "Read entries from all Rekor v1 shards" of reusable-prober.yml *)
(* (its shell arithmetic, lines 237 to 268).                               *)
(***************************************************************************)
EXTENDS ShardLog

CONSTANT  MaxRandom    \* bound: bash's RANDOM

ASSUME ShardScriptAssumption == MaxRandom \in Nat

VARIABLES i, lower_bound, result,   \* the script's variables; lower_bound is its offset
          status       \* "choosing", "fetching", "succeeded", "failed"

scriptVars == <<first, i, lower_bound, result, status>>

ScriptInit ==
  /\ first \in Logs
  /\ i = 1 /\ lower_bound = 0 /\ result = <<>> /\ status = "choosing"

\* (RANDOM % (upper_bound - lower_bound + 1)) + lower_bound.  The remainder has
\* the sign of RANDOM; a zero divisor ends the script with an error.
DivisorShort(upper) == upper - lower_bound          \* mutant
Divisor(upper)      == upper - lower_bound + 1
Magnitude(n)   == IF n < 0 THEN -n ELSE n
RandomNumbers(upper) == {(r % Magnitude(Divisor(upper))) + lower_bound : r \in 0..MaxRandom}

ChooseUpTo(upper, next) ==
  \/ /\ Divisor(upper) = 0
     /\ status' = "failed"
     /\ UNCHANGED result
  \/ /\ Divisor(upper) # 0
     /\ status' = next
     /\ \E n \in RandomNumbers(upper) : result' = Append(result, n)

InactiveUpper == Size(i) - 1
NextOffsetShort(upper) == upper + lower_bound       \* mutant: the last index, not the size
NextOffset(upper)      == upper + lower_bound + 1

ChooseInactive ==
  /\ status = "choosing" /\ i \in Inactive
  /\ ChooseUpTo(InactiveUpper, "choosing")
  /\ lower_bound' = NextOffset(InactiveUpper)
  /\ i' = i + 1
  /\ UNCHANGED first

ChooseActive ==
  /\ status = "choosing" /\ i \notin Inactive
  /\ \/ TreeSize > 0 /\ ChooseUpTo(TreeSize - 1, "fetching")
     \/ TreeSize = 0 /\ status' = "fetching" /\ UNCHANGED result
  /\ UNCHANGED <<first, i, lower_bound>>

\* curl -f fails on an index past the end of the log.
FetchEntries ==
  /\ status = "fetching"
  /\ status' = IF \A n \in DOMAIN result : result[n] < Entries THEN "succeeded" ELSE "failed"
  /\ UNCHANGED <<first, i, lower_bound, result>>

Ended == status \in {"succeeded", "failed"} /\ UNCHANGED scriptVars

ScriptNext == ChooseInactive \/ ChooseActive \/ FetchEntries \/ Ended

ScriptSpec == ScriptInit /\ [][ScriptNext]_scriptVars

-----------------------------------------------------------------------------
(* Properties *)

\* The upper bound of a shard is its size less one, without the offset: the index is
\* not below the shard, but past it if all shards before are more than twice as large.
Reached(s) == 2 * Size(s) >= first[s]

\* When the step "Read entries from all Rekor v1 shards" succeeds, an entry of every shard
\* that has entries was read, but for those that the arithmetic may not reach.
ReadsReachedShards ==
  status = "succeeded" =>
    \A s \in Shards : Size(s) > 0 /\ Reached(s) => IsRead(s, Range(result))

\* A log that serves every entry it has fails the step only for a shard, an empty active
\* one excepted, that is as large as all those before it, for which the arithmetic
\* divides by zero, or that is not reached, for which the index is past the log's end.
FailsOnlyOnSize ==
  status = "failed" =>
    \E s \in Shards : /\ s \in Inactive \/ Size(s) > 0
                      /\ Size(s) = first[s] \/ ~Reached(s)
=============================================================================
