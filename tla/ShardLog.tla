------------------------------- MODULE ShardLog -------------------------------
(***************************************************************************)
(* A Rekor v1 log, as its loginfo describes it (external).  Entries are    *)
(* indexed across the shards, the inactive ones first, the active last.    *)
(*                                                                         *)
(* loginfo's treeSize is the size of the active shard alone: the prober    *)
(* asks for a consistency proof up to it, and reusable-prober.yml says so. *)
(***************************************************************************)
EXTENDS Integers, Sequences, Functions

CONSTANTS MaxShards,   \* bound: inactive shards
          MaxEntries   \* bound: entries of the log

ASSUME ShardLogAssumption == MaxShards \in Nat /\ MaxEntries \in Nat

VARIABLE first         \* the index of each shard's first entry; at last, the log's size

\* The shards' entries follow each other, from 0 on.
Consecutive(f) == f[1] = 0 /\ \A s, t \in DOMAIN f : s <= t => f[s] <= f[t]

Logs == UNION {{f \in [1..(n + 2) -> 0..MaxEntries] : Consecutive(f)} : n \in 0..MaxShards}

\* The last shard is the active one.
Shards      == 1..(Len(first) - 1)
Inactive    == 1..(Len(first) - 2)
Size(s)     == first[s + 1] - first[s]
TreeSize    == Size(Len(first) - 1)
Entries     == first[Len(first)]
Interval(s) == first[s]..(first[s + 1] - 1)

\* An entry of shard s is among those that were read.
IsRead(s, reads) == Interval(s) \cap reads # {}
=============================================================================
