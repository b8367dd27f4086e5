------------------------------ MODULE ShardReads ------------------------------
(***************************************************************************)
(* What the prober's reading of a Rekor v1 log's shards promises: only     *)
(* existing entries, at most one of a shard, and one of every shard that   *)
(* has entries and is covered.                                             *)
(***************************************************************************)
EXTENDS ShardLog

VARIABLES reads,     \* the indices chosen so far
          finished

Init == first \in Logs /\ reads = {} /\ finished = FALSE

\* Nothing is read of a log whose active shard is empty; and the active shard is read
\* only if it is larger than all others together.
Covered(s) == TreeSize > 0 /\ (s \in Inactive \/ Size(s) > first[s])

ReadShard(s) ==
  /\ ~finished /\ ~IsRead(s, reads)
  /\ \E index \in Interval(s) : reads' = reads \cup {index}
  /\ UNCHANGED <<first, finished>>

Finish ==
  /\ ~finished
  /\ \A s \in Shards : Size(s) > 0 /\ Covered(s) => IsRead(s, reads)
  /\ finished' = TRUE
  /\ UNCHANGED <<first, reads>>

Next == (\E s \in Shards : ReadShard(s)) \/ Finish

Spec == Init /\ [][Next]_<<first, reads, finished>>
=============================================================================
