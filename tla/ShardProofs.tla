----------------------------- MODULE ShardProofs -----------------------------
(***************************************************************************)
(* Both readers of a Rekor v1 log's shards, for logs of any number of      *)
(* shards and entries: the prober's index arithmetic implements            *)
(* ShardReads; the workflow's shell arithmetic reads every shard that it   *)
(* reaches, and fails only for the sizes that FailsOnlyOnSize names.       *)
(***************************************************************************)
EXTENDS ShardCoverage, ShardScript, TLAPS

\* The log has a shard, the active one, and its shards follow each other.
LogOK == first \in Seq(Nat) /\ Len(first) >= 2 /\ Consecutive(first)

-----------------------------------------------------------------------------
(* Logs and sequences *)

\* A log that Init chooses is one.
LEMMA LogIsOK ==
  ASSUME first \in Logs
  PROVE  LogOK
<1>1. PICK n \in Nat : first \in [1..(n + 2) -> Nat] /\ Consecutive(first)
  BY ShardLogAssumption DEF Logs
<1>2. first \in Seq(Nat) /\ Len(first) = n + 2
  BY <1>1
<1> QED
  BY <1>1, <1>2 DEF LogOK

\* A log that does not change stays one.
LEMMA LogStays == LogOK /\ first' = first => LogOK'
BY DEF LogOK, Consecutive

\* Shards begin and end at numbers, in order, none before the log or behind it.
LEMMA ShardBounds ==
  ASSUME LogOK, NEW s \in Shards
  PROVE  /\ s \in Nat /\ s >= 1 /\ s + 1 <= Len(first)
         /\ first[s] \in Nat /\ first[s + 1] \in Nat /\ Entries \in Nat
         /\ first[s] <= first[s + 1] /\ first[s + 1] <= Entries
         /\ Size(s) = first[s + 1] - first[s] /\ Size(s) \in Nat
<1>1. /\ Len(first) \in Nat /\ s \in 1..Len(first) /\ s + 1 \in 1..Len(first)
      /\ Len(first) \in 1..Len(first) /\ DOMAIN first = 1..Len(first)
  BY DEF LogOK, Shards
<1>2. first[s] \in Nat /\ first[s + 1] \in Nat /\ first[Len(first)] \in Nat
  BY <1>1 DEF LogOK
<1>3. first[s] <= first[s + 1] /\ first[s + 1] <= first[Len(first)]
  BY <1>1 DEF LogOK, Consecutive
<1> QED
  BY <1>1, <1>2, <1>3 DEF Entries, Size

\* What was in a sequence stays in it, and what is appended joins it.
LEMMA RangeAppend ==
  ASSUME NEW seq \in Seq(Nat), NEW x \in Nat
  PROVE  /\ Append(seq, x) \in Seq(Nat)
         /\ Range(Append(seq, x)) = Range(seq) \cup {x}
<1> DEFINE longer == Append(seq, x)
<1>1. /\ longer \in Seq(Nat) /\ Len(seq) \in Nat
      /\ DOMAIN longer = 1..(Len(seq) + 1) /\ DOMAIN seq = 1..Len(seq)
      /\ \A k \in 1..Len(seq) : longer[k] = seq[k]
      /\ longer[Len(seq) + 1] = x
  OBVIOUS
<1>2. ASSUME NEW y \in Range(longer) PROVE y \in Range(seq) \cup {x}
  <2>1. PICK k \in DOMAIN longer : y = longer[k]
    BY <1>2 DEF Range
  <2>2. k \in 1..Len(seq) \/ k = Len(seq) + 1
    BY <1>1, <2>1
  <2> QED
    BY <1>1, <2>1, <2>2 DEF Range
<1>3. ASSUME NEW y \in Range(seq) \cup {x} PROVE y \in Range(longer)
  <2>1. CASE y \in Range(seq)
    <3>1. PICK k \in 1..Len(seq) : y = seq[k]
      BY <1>1, <2>1 DEF Range
    <3> QED
      BY <1>1, <3>1 DEF Range
  <2>2. CASE y = x
    <3>1. Len(seq) + 1 \in DOMAIN longer
      BY <1>1
    <3> QED
      BY <1>1, <2>2, <3>1 DEF Range
  <2> QED
    BY <1>3, <2>1, <2>2
<1> QED
  BY <1>1, <1>2, <1>3

-----------------------------------------------------------------------------
(* The prober *)

\* Shard s has entries, of which one is to be read.
Promised(s) == Size(s) > 0 /\ Reads!Covered(s)

\* Of the shards before k what is promised has been read, and nothing behind them.
ReadUpTo(k) ==
  /\ \A x \in Range(indicesToFetch) : x < first[k]
  /\ \A s \in Shards : s < k /\ Promised(s) => IsRead(s, Range(indicesToFetch))

\* The loop's offset is the first index of the shard it has come to.
LoopInv ==
  /\ LogOK /\ indicesToFetch \in Seq(Nat)
  /\ shard \in 1..(Len(first) - 1) /\ offset = first[shard]
  /\ state \in {"loginfo", "choosing", "chosen", "done"}
  /\ state = "loginfo" => shard = 1 /\ indicesToFetch = <<>>
  /\ state = "choosing" => ReadUpTo(shard)
  /\ state \in {"chosen", "done"} => ReadUpTo(Len(first))

\* The promise is about the log, which does not change.
LEMMA PromisedStays ==
  ASSUME first' = first
  PROVE  \A s : Promised(s)' <=> Promised(s)
BY DEF Promised, Size, Reads!Covered, Reads!TreeSize, Reads!Size, Reads!Inactive

\* The abstract promise in the terms of the loop.
LEMMA PromisedMeans ==
  ASSUME NEW s
  PROVE  /\ Promised(s) <=>
              Size(s) > 0 /\ TreeSize > 0 /\ (s \in Inactive \/ Size(s) > first[s])
         /\ Promised(s) <=> Reads!Size(s) > 0 /\ Reads!Covered(s)
BY DEF Promised, Size, TreeSize, Inactive, Reads!Covered, Reads!TreeSize, Reads!Size,
       Reads!Inactive

\* Before any index is chosen nothing has been read.
LEMMA ReadNothing ==
  ASSUME LogOK, indicesToFetch = <<>>
  PROVE  ReadUpTo(1) /\ Range(indicesToFetch) = {}
<1>1. Range(indicesToFetch) = {}
  BY DEF Range
<1> QED
  BY <1>1 DEF ReadUpTo, Shards

\* The loop starts at the first index of the first shard.
LEMMA InitLoop == Init => LoopInv /\ Reads!Init
<1> SUFFICES ASSUME Init PROVE LoopInv /\ Reads!Init
  OBVIOUS
<1>1. LogOK
  BY LogIsOK DEF Init
<1>2. 1 \in 1..(Len(first) - 1) /\ first[1] = 0
  BY <1>1 DEF LogOK, Consecutive
<1>3. indicesToFetch = <<>> /\ indicesToFetch \in Seq(Nat)
  BY DEF Init
<1> QED
  BY <1>1, <1>2, <1>3, ReadNothing
  DEF Init, LoopInv, Reads!Init, Reads!Logs, Reads!Consecutive, Logs, Consecutive

\* Choosing one of the first n entries of the shard that the loop has come to reads it,
\* or passes over it if there are none: either way it is the abstract step, or none.
LEMMA ChooseReads ==
  ASSUME LoopInv, NEW s \in Shards, offset = first[s], ReadUpTo(s),
         NEW n \in Int, n <= Size(s), Promised(s) => n > 0,
         ChooseIndex(n), first' = first, state # "done", state' # "done"
  PROVE  /\ indicesToFetch' \in Seq(Nat)
         /\ ReadUpTo(s + 1)'
         /\ Reads!ReadShard(s) \/ Range(indicesToFetch)' = Range(indicesToFetch)
<1>1. /\ s \in Nat /\ first[s] \in Nat /\ first[s + 1] \in Nat /\ first[s] <= first[s + 1]
      /\ Size(s) = first[s + 1] - first[s]
  BY ShardBounds DEF LoopInv
<1>2. \A x \in Range(indicesToFetch) : x \in Nat /\ x < first[s]
  BY DEF LoopInv, ReadUpTo, Range
<1>3. \A t \in Shards : t < s + 1 <=> t < s \/ t = s
  <2>1. \A t \in Shards : t \in Nat
    BY DEF Shards
  <2> QED
    BY <1>1, <2>1
<1>4. CASE n > 0
  <2>1. PICK x \in Random(n) : indicesToFetch' = Append(indicesToFetch, x)
    BY <1>1, <1>4 DEF ChooseIndex
  <2>2. x \in Interval(s) /\ x \in Nat /\ x < first[s + 1]
    BY <1>1, <2>1 DEF Random, Interval
  <2>3. /\ indicesToFetch' \in Seq(Nat)
        /\ Range(indicesToFetch)' = Range(indicesToFetch) \cup {x}
    BY <2>1, <2>2, RangeAppend DEF LoopInv
  <2>4. ~IsRead(s, Range(indicesToFetch))
    BY <1>1, <1>2 DEF IsRead, Interval
  <2>5. Reads!ReadShard(s)
    BY <2>2, <2>3, <2>4 DEF Reads!ReadShard, Reads!IsRead, Reads!Interval, IsRead, Interval
  <2>6. \A y \in Range(indicesToFetch)' : y < first'[s + 1]
    BY <1>1, <1>2, <2>2, <2>3
  <2>7. \A t \in Shards :
          IsRead(t, Range(indicesToFetch)) \/ t = s => IsRead(t, Range(indicesToFetch))'
    BY <2>2, <2>3 DEF IsRead, Interval
  <2>8. \A t \in Shards' : t < s + 1 /\ Promised(t)' => IsRead(t, Range(indicesToFetch))'
    BY <1>3, <2>7, PromisedStays DEF ReadUpTo, Shards
  <2> QED
    BY <2>3, <2>5, <2>6, <2>8 DEF ReadUpTo
<1>5. CASE ~(n > 0)
  <2>1. indicesToFetch' = indicesToFetch /\ ~Promised(s)
    BY <1>1, <1>5 DEF ChooseIndex
  <2>2. \A y \in Range(indicesToFetch)' : y < first'[s + 1]
    BY <1>1, <1>2, <2>1
  <2>3. \A t \in Shards' : t < s + 1 /\ Promised(t)' => IsRead(t, Range(indicesToFetch))'
    BY <1>3, <2>1, PromisedStays DEF ReadUpTo, Shards, IsRead, Interval
  <2> QED
    BY <2>1, <2>2, <2>3 DEF ReadUpTo, LoopInv
<1> QED
  BY <1>4, <1>5

\* Each step of the loop keeps its invariant, and is one of ShardReads or none.
LEMMA NextLoop ==
  LoopInv /\ [Next]_vars =>
    LoopInv' /\ [Reads!Next]_<<first, Range(indicesToFetch), state = "done">>
<1> SUFFICES ASSUME LoopInv, [Next]_vars
             PROVE  LoopInv' /\ [Reads!Next]_<<first, Range(indicesToFetch), state = "done">>
  OBVIOUS
<1> DEFINE last == Len(first) - 1
<1>1. /\ last \in Shards /\ shard \in Shards /\ last + 1 = Len(first)
      /\ TreeSize = Size(last)
  BY DEF LoopInv, LogOK, Shards, TreeSize
<1>2. CASE LogInfo
  <2>1. /\ UNCHANGED <<first, shard, offset, indicesToFetch>>
        /\ state = "loginfo" /\ shard = 1 /\ ReadUpTo(1) /\ Range(indicesToFetch) = {}
    BY <1>2, ReadNothing DEF LogInfo, LoopInv
  <2>2. CASE TreeSize = 0
    <3>1. \A s \in Shards : ~Promised(s)
      BY <2>2, PromisedMeans
    <3>2. state' = "done"
      BY <1>2, <2>2 DEF LogInfo
    <3>3. Reads!Finish
      <4>1. \A s \in Reads!Shards : ~(Reads!Size(s) > 0 /\ Reads!Covered(s))
        BY <3>1, PromisedMeans DEF Reads!Shards, Shards
      <4> QED
        BY <2>1, <3>2, <4>1 DEF Reads!Finish
    <3>4. ReadUpTo(Len(first))'
      BY <2>1, <3>1, PromisedStays DEF ReadUpTo, Shards, Range
    <3> QED
      BY <2>1, <3>2, <3>3, <3>4 DEF LoopInv, LogOK, Reads!Next, Reads!Shards, Shards
  <2>3. CASE TreeSize # 0
    <3>1. state' = "choosing"
      BY <1>2, <2>3 DEF LogInfo
    <3> QED
      BY <2>1, <3>1, PromisedStays DEF LoopInv, LogOK, ReadUpTo, Shards, IsRead, Interval
  <2> QED
    BY <2>2, <2>3
<1>3. CASE InactiveShard
  <2>1. PICK s \in Shards : s = shard
    BY <1>1
  <2>2. /\ state = "choosing" /\ state' = state /\ first' = first /\ ReadUpTo(s)
        /\ shard' = s + 1 /\ offset = first[s] /\ offset' = offset + Size(s)
        /\ ChooseIndex(Size(s)) /\ s + 1 \in 1..last
    BY <1>3, <2>1 DEF InactiveShard, Inactive, LoopInv, LogOK
  <2>3. /\ indicesToFetch' \in Seq(Nat) /\ ReadUpTo(s + 1)'
        /\ Reads!ReadShard(s) \/ Range(indicesToFetch)' = Range(indicesToFetch)
    <3>1. Size(s) \in Int /\ (Promised(s) => Size(s) > 0)
      BY ShardBounds DEF Promised, LoopInv
    <3> QED
      BY <2>2, <3>1, ChooseReads
  <2>4. offset' = first'[s + 1]
    BY <2>2, ShardBounds DEF LoopInv
  <2>5. ReadUpTo(shard)'
    BY <2>2, <2>3 DEF ReadUpTo
  <2> QED
    BY <1>1, <2>2, <2>3, <2>4, <2>5 DEF LoopInv, LogOK, Reads!Next, Reads!Shards, Shards
<1>4. CASE ActiveShard
  <2>1. PICK s \in Shards : s = shard
    BY <1>1
  <2>2. /\ state = "choosing" /\ state' = "chosen" /\ UNCHANGED <<first, shard, offset>>
        /\ ReadUpTo(s) /\ offset = first[s] /\ s = last
        /\ ChooseIndex(TreeSize - offset)
    BY <1>4, <2>1 DEF ActiveShard, Inactive, LoopInv, LogOK
  <2>3. /\ TreeSize - offset \in Int /\ TreeSize - offset <= Size(s)
        /\ Promised(s) => TreeSize - offset > 0
    <3>1. TreeSize = Size(s) /\ Size(s) \in Nat /\ first[s] \in Nat /\ s \notin Inactive
      BY <1>1, <1>4, <2>1, <2>2, ShardBounds DEF LoopInv, ActiveShard
    <3> QED
      BY <2>2, <3>1, PromisedMeans
  <2>4. /\ indicesToFetch' \in Seq(Nat) /\ ReadUpTo(s + 1)'
        /\ Reads!ReadShard(s) \/ Range(indicesToFetch)' = Range(indicesToFetch)
    BY <2>2, <2>3, ChooseReads
  <2>5. ReadUpTo(Len(first))'
    BY <1>1, <2>2, <2>4 DEF ReadUpTo
  <2> QED
    BY <1>1, <2>2, <2>4, <2>5 DEF LoopInv, LogOK, Reads!Next, Reads!Shards, Shards
<1>5. CASE ReturnEndpoints
  <2>1. /\ state = "chosen" /\ state' = "done"
        /\ UNCHANGED <<first, shard, offset, indicesToFetch>> /\ ReadUpTo(Len(first))
    BY <1>5 DEF ReturnEndpoints, LoopInv
  <2>2. \A s \in Shards : s < Len(first)
    BY DEF Shards, LoopInv, LogOK
  <2>3. Reads!Finish
    <3>1. \A s \in Reads!Shards : Reads!Size(s) > 0 /\ Reads!Covered(s)
                                   => Reads!IsRead(s, Range(indicesToFetch))
      BY <2>1, <2>2, PromisedMeans
      DEF ReadUpTo, Reads!Shards, Reads!IsRead, Reads!Interval, Shards, IsRead, Interval
    <3> QED
      BY <2>1, <3>1 DEF Reads!Finish
  <2>4. ReadUpTo(Len(first))'
    BY <2>1, PromisedStays DEF ReadUpTo, Shards, IsRead, Interval
  <2> QED
    BY <2>1, <2>3, <2>4 DEF LoopInv, LogOK, Reads!Next, Reads!Shards, Shards
<1>6. CASE UNCHANGED vars
  BY <1>6, PromisedStays DEF vars, LoopInv, LogOK, ReadUpTo, Shards, IsRead, Interval
<1> QED
  BY <1>2, <1>3, <1>4, <1>5, <1>6 DEF Next, Done

\* The offset is the first index of the shard that the loop has come to, and the shards
\* before it have been read: the inductive invariant of the prober's loop.
THEOREM LoopInvariance == Spec => []LoopInv
BY InitLoop, NextLoop, PTL DEF Spec

\* The prober's index arithmetic reads one existing entry of every shard that has one and
\* is covered, and no others, for logs of any number of shards and entries, empty shards
\* and an active one smaller than the rest among them.
THEOREM CoverageImplementsReads == Spec => ImplementsShardReads
BY InitLoop, NextLoop, LoopInvariance, PTL DEF Spec, ImplementsShardReads, Reads!Spec

-----------------------------------------------------------------------------
(* The script *)

\* The index chosen for a shard with entries is one of its own, if it is reached; none is
\* chosen for an active shard without.
Aimed(k) ==
  /\ k \in Shards /\ result[k] \in Int
  /\ k \in Inactive \/ Size(k) > 0
  /\ Size(k) > 0 /\ Reached(k) => result[k] \in Interval(k)

\* The k-th index is that of the k-th shard; only the active shard may have none, if it
\* is empty.
ScriptInv ==
  /\ LogOK /\ result \in Seq(Int)
  /\ i \in 1..(Len(first) - 1) /\ lower_bound = first[i]
  /\ status \in {"choosing", "fetching", "succeeded", "failed"}
  /\ \A k \in DOMAIN result : Aimed(k)
  /\ status = "choosing" => Len(result) = i - 1
  /\ status \in {"fetching", "succeeded"} =>
       \A s \in Shards : Size(s) > 0 => s \in DOMAIN result
  /\ FailsOnlyOnSize

USE DEF Inactive

\* A remainder is less than its divisor.
LEMMA Remainder ==
  ASSUME NEW r \in Nat, NEW d \in Nat, d > 0
  PROVE  r % d \in Nat /\ r % d < d
OBVIOUS

\* The script begins before any shard.
LEMMA InitScript == ScriptInit => ScriptInv
<1> SUFFICES ASSUME ScriptInit PROVE ScriptInv
  OBVIOUS
<1>1. LogOK
  BY LogIsOK DEF ScriptInit
<1>2. 1 \in 1..(Len(first) - 1) /\ first[1] = 0
  BY <1>1 DEF LogOK, Consecutive
<1>3. result = <<>> /\ result \in Seq(Int) /\ DOMAIN result = {} /\ Len(result) = 0
  BY DEF ScriptInit
<1> QED
  BY <1>1, <1>2, <1>3 DEF ScriptInit, ScriptInv, FailsOnlyOnSize

\* The index that the script draws for shard s, by a divisor d that is not zero, is the
\* shard's own if d is not larger than the shard, whichever sign it has.
LEMMA DrawAims ==
  ASSUME ScriptInv, NEW s \in Shards, lower_bound = first[s],
         NEW upper \in Int, Divisor(upper) # 0,
         Magnitude(Divisor(upper)) <= Size(s)
           \/ ~(Size(s) > 0 /\ Reached(s)),
         NEW x \in RandomNumbers(upper)
  PROVE  x \in Int /\ (Size(s) > 0 /\ Reached(s) => x \in Interval(s))
<1> DEFINE d == Magnitude(Divisor(upper))
<1>1. /\ first[s] \in Nat /\ first[s + 1] \in Nat /\ Size(s) = first[s + 1] - first[s]
  BY ShardBounds DEF ScriptInv
<1>2. d \in Nat /\ d > 0
  BY <1>1 DEF Divisor, Magnitude
<1>3. PICK r \in 0..MaxRandom : x = (r % d) + lower_bound
  BY DEF RandomNumbers
<1> HIDE DEF d
<1>4. r % d \in Nat /\ r % d < d
  BY <1>2, <1>3, Remainder
<1>5. x \in Int /\ x >= first[s] /\ x < first[s] + d
  BY <1>1, <1>2, <1>3, <1>4
<1> QED
  BY <1>1, <1>2, <1>5 DEF d, Interval

\* An index that is appended is the next shard's, and those before are kept.
LEMMA AppendAims ==
  ASSUME ScriptInv, NEW s \in Shards, Len(result) = s - 1, first' = first,
         s \in Inactive \/ Size(s) > 0, NEW x \in Int, Size(s) > 0 /\ Reached(s) => x \in Interval(s),
         result' = Append(result, x)
  PROVE  /\ result' \in Seq(Int) /\ Len(result') = s
         /\ \A k \in DOMAIN result' : Aimed(k)'
<1>1. /\ result \in Seq(Int) /\ result' \in Seq(Int) /\ s \in Nat
      /\ Len(result') = s /\ DOMAIN result' = 1..s /\ DOMAIN result = 1..(s - 1)
      /\ result'[s] = x /\ \A k \in 1..(s - 1) : result'[k] = result[k]
  BY DEF ScriptInv, Shards
<1>2. ASSUME NEW k \in 1..s PROVE Aimed(k)'
  <2> USE DEF Aimed, Shards, Size, Interval, Reached
  <2>1. CASE k = s
    BY <1>1, <2>1
  <2>2. CASE k \in 1..(s - 1)
    BY <1>1, <2>2 DEF ScriptInv
  <2> QED
    BY <1>1, <2>1, <2>2
<1> QED
  BY <1>1, <1>2

\* Shards draw their indices in turn: drawing for one keeps the invariant but for what
\* it says of the status.
LEMMA Draw ==
  ASSUME ScriptInv, NEW s \in Shards, status = "choosing",
         i = s, first' = first, s \in Inactive \/ Size(s) > 0,
         NEW upper \in Int, upper = Size(s) - 1,
         NEW next, ChooseUpTo(upper, next)
  PROVE  \/ status' = "failed" /\ result' = result /\ Size(s) = first[s]
         \/ /\ status' = next /\ result' \in Seq(Int) /\ Len(result') = s
            /\ \A k \in DOMAIN result' : Aimed(k)'
<1>1. /\ s \in Nat /\ first[s] \in Nat /\ first[s + 1] \in Nat
      /\ Size(s) = first[s + 1] - first[s] /\ first[s] <= first[s + 1]
  BY ShardBounds DEF ScriptInv
<1>2. /\ lower_bound = first[s] /\ Len(result) = s - 1
  BY DEF ScriptInv
<1>4. Divisor(upper) = Size(s) - first[s]
  BY <1>1, <1>2 DEF Divisor
<1>5. CASE Divisor(upper) = 0
  BY <1>1, <1>4, <1>5 DEF ChooseUpTo
<1>6. CASE Divisor(upper) # 0
  <2>1. PICK x \in RandomNumbers(upper) : result' = Append(result, x)
    BY <1>6 DEF ChooseUpTo
  <2>2. Magnitude(Divisor(upper)) <= Size(s)
          \/ ~(Size(s) > 0 /\ Reached(s))
    BY <1>1, <1>4 DEF Magnitude, Reached, Size
  <2>3. x \in Int /\ (Size(s) > 0 /\ Reached(s) => x \in Interval(s))
    BY <1>2, <1>6, <2>2, DrawAims
  <2>4. status' = next
    BY <1>6 DEF ChooseUpTo
  <2> QED
    BY <1>2, <2>1, <2>3, <2>4, AppendAims
<1> QED
  BY <1>5, <1>6

\* Every step of the script keeps the invariant.
LEMMA NextScript == ScriptInv /\ [ScriptNext]_scriptVars => ScriptInv'
<1> SUFFICES ASSUME ScriptInv, [ScriptNext]_scriptVars PROVE ScriptInv'
  OBVIOUS
<1> DEFINE last == Len(first) - 1
<1>1. /\ MaxRandom \in Nat /\ last \in Shards /\ i \in Shards /\ LogOK
      /\ last + 1 = Len(first) /\ Inactive = 1..(last - 1) /\ last \in Nat /\ last >= 1
  BY ShardScriptAssumption DEF ScriptInv, LogOK, Shards, Inactive
<1>2. CASE ChooseInactive
  <2>1. PICK s \in Shards : s = i
    BY <1>1
  <2>2. /\ status = "choosing" /\ s \in Inactive /\ first' = first /\ i' = s + 1
        /\ ChooseUpTo(Size(s) - 1, "choosing")
        /\ lower_bound' = NextOffset(Size(s) - 1)
    BY <1>2, <2>1 DEF ChooseInactive, InactiveUpper, Size
  <2>3. /\ s \in Nat /\ first[s] \in Nat /\ first[s + 1] \in Nat
        /\ Size(s) = first[s + 1] - first[s] /\ lower_bound = first[s]
    BY <1>1, <2>1, ShardBounds DEF ScriptInv
  <2>4. /\ LogOK'
        /\ i' \in 1..(Len(first') - 1) /\ lower_bound' = first'[i'] /\ i' - 1 = s
    <3>1. LogOK'
      BY <1>1, <2>2, LogStays
    <3>2. i' \in 1..last /\ i' - 1 = s
      BY <1>1, <2>2, <2>3
    <3>3. lower_bound' = first[s + 1]
      BY <2>2, <2>3 DEF NextOffset
    <3> QED
      BY <2>2, <3>1, <3>2, <3>3
  <2>5. \/ status' = "failed" /\ result' = result /\ Size(s) = first[s]
        \/ /\ status' = "choosing" /\ result' \in Seq(Int) /\ Len(result') = s
           /\ \A k \in DOMAIN result' : Aimed(k)'
    BY <1>1, <2>1, <2>2, <2>3, Draw
  <2>6. CASE status' = "failed" /\ result' = result /\ Size(s) = first[s]
    <3>1. \A k \in DOMAIN result' : Aimed(k)'
      BY <2>2, <2>6 DEF ScriptInv, Aimed, Shards, Size, Interval, Reached
    <3>2. FailsOnlyOnSize'
      BY <2>2, <2>6 DEF FailsOnlyOnSize, Shards, Size, Reached
    <3> QED
      BY <2>4, <2>6, <3>1, <3>2 DEF ScriptInv
  <2>7. CASE /\ status' = "choosing" /\ result' \in Seq(Int) /\ Len(result') = s
             /\ \A k \in DOMAIN result' : Aimed(k)'
    BY <2>4, <2>7 DEF ScriptInv, FailsOnlyOnSize
  <2> QED
    BY <2>5, <2>6, <2>7
<1>3. CASE ChooseActive
  <2>1. /\ status = "choosing" /\ UNCHANGED <<first, i, lower_bound>> /\ i = last
        /\ Len(result) = last - 1 /\ LogOK'
        /\ i' \in 1..(Len(first') - 1) /\ lower_bound' = first'[i']
    <3>1. status = "choosing" /\ UNCHANGED <<first, i, lower_bound>> /\ i \notin Inactive
      BY <1>3 DEF ChooseActive
    <3>2. i \in 1..last /\ i = last
      <4>1. i \in 1..last /\ last \in Nat /\ i \notin 1..(last - 1)
        BY <1>1, <3>1 DEF ScriptInv
      <4> HIDE DEF last
      <4> QED
        BY <4>1
    <3>3. LogOK'
      BY <1>1, <3>1, LogStays
    <3> QED
      BY <3>1, <3>2, <3>3 DEF ScriptInv
  <2>2. /\ \A s \in Shards : s \in 1..last
        /\ TreeSize = Size(last) /\ Size(last) \in Nat
    BY <1>1, ShardBounds DEF Shards, TreeSize
  <2>3. CASE TreeSize > 0 /\ ChooseUpTo(TreeSize - 1, "fetching")
    <3>1. PICK s \in Shards : s = last
      BY <1>1
    <3>2. /\ i = s /\ Size(s) > 0 /\ Size(s) - 1 \in Int
          /\ ChooseUpTo(Size(s) - 1, "fetching")
      BY <1>1, <2>1, <2>2, <2>3, <3>1
    <3>3. \/ status' = "failed" /\ result' = result /\ Size(s) = first[s]
          \/ /\ status' = "fetching" /\ result' \in Seq(Int) /\ Len(result') = s
             /\ \A k \in DOMAIN result' : Aimed(k)'
      BY <1>1, <2>1, <3>2, Draw
    <3>4. CASE status' = "failed" /\ result' = result /\ Size(s) = first[s]
      <4>1. \A k \in DOMAIN result' : Aimed(k)'
        BY <2>1, <3>4 DEF ScriptInv, Aimed, Shards, Size, Interval, Reached
      <4>2. FailsOnlyOnSize'
        BY <2>1, <3>2, <3>4 DEF FailsOnlyOnSize, Shards, Size, Reached
      <4> QED
        BY <2>1, <3>4, <4>1, <4>2 DEF ScriptInv
    <3>5. CASE /\ status' = "fetching" /\ result' \in Seq(Int) /\ Len(result') = s
               /\ \A k \in DOMAIN result' : Aimed(k)'
      <4>1. \A t \in Shards' : t \in DOMAIN result'
        BY <1>1, <2>1, <2>2, <3>1, <3>5 DEF Shards
      <4> QED
        BY <2>1, <3>5, <4>1 DEF ScriptInv, FailsOnlyOnSize
    <3> QED
      BY <3>3, <3>4, <3>5
  <2>4. CASE TreeSize = 0 /\ status' = "fetching" /\ result' = result
    <3>1. \A t \in Shards : Size(t) > 0 => t \in DOMAIN result
      <4>1. DOMAIN result = 1..(last - 1)
        BY <2>1 DEF ScriptInv
      <4>2. ~(Size(last) > 0)
        BY <2>2, <2>4
      <4> QED
        BY <1>1, <2>2, <4>1, <4>2
    <3>2. \A k \in DOMAIN result' : Aimed(k)'
      BY <2>1, <2>4 DEF ScriptInv, Aimed, Shards, Size, Interval, Reached
    <3> QED
      BY <2>1, <2>4, <3>1, <3>2 DEF ScriptInv, FailsOnlyOnSize, Shards, Size
  <2> QED
    BY <1>3, <2>3, <2>4 DEF ChooseActive
<1>4. CASE FetchEntries
  <2>1. /\ status = "fetching" /\ UNCHANGED <<first, i, lower_bound, result>>
        /\ status' \in {"succeeded", "failed"}
        /\ status' = "failed" => \E k \in DOMAIN result : ~(result[k] < Entries)
    BY <1>4 DEF FetchEntries
  <2>2. \A k \in DOMAIN result' : Aimed(k)'
    BY <2>1 DEF ScriptInv, Aimed, Shards, Size, Interval, Reached
  <2>3. ASSUME status' = "failed" PROVE FailsOnlyOnSize'
    <3>1. PICK k \in DOMAIN result : ~(result[k] < Entries)
      BY <2>1, <2>3
    <3>2. Aimed(k) /\ k \in Shards
      BY DEF ScriptInv, Aimed
    <3>3. /\ first[k] \in Nat /\ first[k + 1] \in Nat /\ first[k] <= first[k + 1]
          /\ first[k + 1] <= Entries /\ Entries \in Nat
          /\ Size(k) = first[k + 1] - first[k]
      BY <1>1, <3>2, ShardBounds
    <3>4. k \in Inactive \/ Size(k) > 0
      BY <3>2 DEF Aimed
    <3>5. Size(k) = first[k] \/ ~Reached(k)
      BY <3>1, <3>2, <3>3 DEF Aimed, Interval, Reached
    <3> QED
      BY <2>1, <3>2, <3>4, <3>5 DEF FailsOnlyOnSize, Shards, Size, Reached
  <2> QED
    BY <2>1, <2>2, <2>3 DEF ScriptInv, LogOK, Shards, Size, FailsOnlyOnSize
<1>5. CASE UNCHANGED scriptVars
  <2>1. UNCHANGED <<first, i, lower_bound, result, status>>
    BY <1>5 DEF scriptVars
  <2>2. LogOK'
    BY <1>1, <2>1, LogStays
  <2>3. \A k \in DOMAIN result' : Aimed(k)'
    BY <2>1 DEF ScriptInv, Aimed, Shards, Size, Interval, Reached
  <2>4. FailsOnlyOnSize'
    BY <2>1 DEF ScriptInv, FailsOnlyOnSize, Reached, Shards,
                Size
  <2> QED
    BY <2>1, <2>2, <2>3, <2>4 DEF ScriptInv, Shards, Size
<1> QED
  BY <1>2, <1>3, <1>4, <1>5 DEF ScriptNext, Ended

\* The script's invariant: its indices are aimed at their shards, and are all there.
THEOREM ScriptInvariance == ScriptSpec => []ScriptInv
BY InitScript, NextScript, PTL DEF ScriptSpec

\* When the script succeeds it has read every shard that its arithmetic reaches, for logs
\* of any number of shards and entries and any range of random numbers.
THEOREM ScriptReadsReached == ScriptSpec => []ReadsReachedShards
<1>1. ScriptInv => ReadsReachedShards
  <2> SUFFICES ASSUME ScriptInv, status = "succeeded", NEW s \in Shards,
                      Size(s) > 0, Reached(s)
               PROVE  IsRead(s, Range(result))
    BY DEF ReadsReachedShards, Shards, Size
  <2>1. s \in DOMAIN result /\ result[s] \in Interval(s)
    BY DEF ScriptInv, Aimed
  <2> QED
    BY <2>1 DEF IsRead, Interval, Range
<1> QED
  BY <1>1, ScriptInvariance, PTL

\* The script fails only for a shard as large as all before it, or one that its arithmetic
\* does not reach; never for an empty active shard, which it passes over.
THEOREM ScriptFailsOnSize == ScriptSpec => []FailsOnlyOnSize
<1>1. ScriptInv => FailsOnlyOnSize
  BY DEF ScriptInv
<1> QED
  BY <1>1, ScriptInvariance, PTL
=============================================================================
