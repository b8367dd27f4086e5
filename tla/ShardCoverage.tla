---------------------------- MODULE ShardCoverage ----------------------------
(***************************************************************************)
(* determineRekorShardCoverage of prober/prober/prober.go: the prober asks *)
(* a Rekor v1 log for the sizes of its shards and chooses an entry of each *)
(* to read.                                                                *)
(***************************************************************************)
EXTENDS ShardLog

VARIABLES shard,       \* the inactive shard the loop is at
          offset,      \* entries before it
          indicesToFetch,
          state        \* "loginfo", "choosing", "chosen", "done"

vars == <<first, shard, offset, indicesToFetch, state>>

Init ==
  /\ first \in Logs
  /\ shard = 1 /\ offset = 0 /\ indicesToFetch = <<>> /\ state = "loginfo"

\* No entries in the active shard: "then we're done".
LogInfo ==
  /\ state = "loginfo"
  /\ state' = IF TreeSize = 0 THEN "done" ELSE "choosing"
  /\ UNCHANGED <<first, shard, offset, indicesToFetch>>

\* offset + mrand.IntN(size)
RandomFirst(size) == 0..(size - 1)                  \* mutant
Random(size)      == offset..(offset + size - 1)

ChooseIndex(size) ==
  \/ /\ size > 0
     /\ \E index \in Random(size) : indicesToFetch' = Append(indicesToFetch, index)
  \/ size <= 0 /\ UNCHANGED indicesToFetch

InactiveShard ==
  /\ state = "choosing" /\ shard \in Inactive
  /\ ChooseIndex(Size(shard))
  /\ offset' = offset + Size(shard)
  /\ shard' = shard + 1
  /\ UNCHANGED <<first, state>>

\* activeSize is taken to be what treeSize has in excess of the inactive shards; it is
\* negative when they are larger together.
ActiveShard ==
  /\ state = "choosing" /\ shard \notin Inactive
  /\ ChooseIndex(TreeSize - offset)
  /\ state' = "chosen"
  /\ UNCHANGED <<first, shard, offset>>

ReturnEndpoints ==
  /\ state = "chosen"
  /\ state' = "done"
  /\ UNCHANGED <<first, shard, offset, indicesToFetch>>

Done == state = "done" /\ UNCHANGED vars

Next == LogInfo \/ InactiveShard \/ ActiveShard \/ ReturnEndpoints \/ Done

Spec == Init /\ [][Next]_vars

-----------------------------------------------------------------------------
(* Properties *)

Reads == INSTANCE ShardReads WITH reads    <- Range(indicesToFetch),
                                  finished <- state = "done"

\* The index arithmetic implements ShardReads: every index chosen is that of an
\* entry of a shard without one, and when the checks are returned none is missing of a
\* shard that is covered.
ImplementsShardReads == Reads!Spec
=============================================================================
